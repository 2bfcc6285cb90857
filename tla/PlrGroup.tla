------------------------------- MODULE PlrGroup -------------------------------
(***************************************************************************)
(* The life of a PLR run: the figurehead (plrMain.c) creates the shared    *)
(* memory file, launches the first process, waits until every process of   *)
(* the group has ended and removes the file; the first process forks the   *)
(* others when the preloaded library is initialised (plr_processInit);     *)
(* each finds the file by its name and its slot by its pid                 *)
(* (plrSharedData.c, plr_refreshSharedData), and a faulty or dead one is   *)
(* replaced by a copy of another.                                          *)
(*                                                                         *)
(* The file is named after the process group of the caller, so all         *)
(* figureheads here, which are in one process group, mean the same name.   *)
(* A section under plrShm->lock is one step; PlrBarrier is about what      *)
(* happens inside of the barriers, which are no more than a time here.     *)
(***************************************************************************)
EXTENDS TimeUtil, FiniteSets

CONSTANTS
  Figureheads,  \* runs of plr in one process group
  NoFile,       \* the name leads to no file
  Outside,      \* the parent of a process no figurehead adopts: init
  MaxPid,       \* bound: how many processes are ever created
  Scenarios,    \* the options of each run, and what may go wrong
  Times         \* what the clock may show when a process starts to wait

Pids == 1 .. MaxPid

\* opts: what the command lines say, of the runs there are. failing: what startFirstProcess
\* may fail at. kills and crashes: how many figureheads, and how many other
\* processes, may yet die. extra: whether calls use the extra shared memory.
\* created: bound on the processes.
Options == [nProc : Pids, pintoolMode : {"off", "trace", "ins"},
            watchdogTimeout : Nat]
Environment(runs) ==
  [opts : [runs -> Options], failing : SUBSET {"pipe", "fork", "exec"},
   kills : Nat, crashes : Nat, extra : BOOLEAN, created : Nat]

ASSUME NamesAssumption ==
  /\ NoFile \notin Figureheads /\ Outside \notin Figureheads \cup Pids
  /\ Figureheads \cap Pids = {}
ASSUME MaxPidAssumption == MaxPid \in Nat
ASSUME ScenariosAssumption ==
  \A s \in Scenarios : \E runs \in SUBSET Figureheads : s \in Environment(runs)
ASSUME TimesAssumption == \A t \in Times : Normal(t)

VARIABLES
  env,      \* the scenario
  file,     \* whose shared memory the name leads to
  fig,      \* where each figurehead is
  pipe,     \* whether an error number is in its execErrPipe
  shm,      \* the memory each figurehead made; it lives on in who maps it
  proc      \* the other processes, by pid

groupVars == <<env, file, fig, pipe, shm, proc>>

-----------------------------------------------------------------------------
FigPCs == {"start", "refused", "init", "gaveUp", "read", "wait", "exit", "over", "killed"}
FigRunning == {"init", "read", "wait", "exit"}

\* fork, noexec: the first process before execvp, and after it failed. image: a
\* program was loaded, constructors are yet to run. first: in plr_processInit, to
\* take the lock. bornInit, bornCopy: forked, to take the lock. pin: the launcher
\* of Pin, to load the program. app, plr: outside and inside of the wrappers.
PCs == {"none", "fork", "noexec", "image", "first", "bornInit", "bornCopy", "pin",
        "app", "plr", "done", "dead", "failed"}
Ended == {"done", "dead", "failed"}

\* perProcData_t; open: shmFd is the descriptor of a file.
FreeProcData == [pid |-> 0, insidePLR |-> FALSE, open |-> FALSE]
ProcData == [pid : 0 .. MaxPid, insidePLR : BOOLEAN, open : BOOLEAN]

\* allProcShm has nProc slots; the model's memory has room for more.
FreeMemory == [s \in 0 .. MaxPid - 1 |-> FreeProcData]
Slots(m) == 0 .. shm[m].nProc - 1
NoSlot == -1

NoWait == [from |-> [tv_sec |-> 0, tv_nsec |-> 0], until |-> [tv_sec |-> 0, tv_nsec |-> 0]]

\* maps: whose memory plrShm is. copy: parentProcShmCpy.
NoProc == [pc |-> "none", fig |-> NoFile, parent |-> Outside, maps |-> NoFile,
           slot |-> NoSlot, copy |-> FreeProcData, faulty |-> FALSE, wait |-> NoWait]

Alive(p) == proc[p].pc \notin {"none"} \cup Ended
Used == Cardinality({p \in Pids : proc[p].pc # "none"})
\* Whether n more processes may be created.
Room(n) == Used + n <= MaxPid /\ Used + n <= env.created

Init ==
  /\ env \in Scenarios
  /\ file = NoFile
  /\ fig = [f \in Figureheads |-> "start"]
  /\ pipe = [f \in Figureheads |-> FALSE]
  /\ shm = [f \in Figureheads |->
              [nProc |-> 0, didProcessInit |-> FALSE, insidePLRInitTrue |-> FALSE,
               watchdogTimeout |-> 0, procs |-> FreeMemory]]
  /\ proc = [p \in Pids |-> NoProc]

\* Mutant: without PR_SET_CHILD_SUBREAPER.
AdoptedByInit(f) == Outside

\* Who becomes the parent of a process of f whose parent has ended.
Adopter(f) == IF fig[f] \in FigRunning THEN f ELSE Outside

\* Process p ends; its children are adopted.
Without(procs, p, how) ==
  [q \in Pids |->
     IF q = p THEN [NoProc EXCEPT !.pc = how, !.fig = procs[p].fig]
     ELSE IF procs[q].parent = p THEN [procs[q] EXCEPT !.parent = Adopter(procs[q].fig)]
     ELSE procs[q]]

\* Figurehead f ends, and its children pass on.
Orphaned(f) ==
  [q \in Pids |-> IF proc[q].parent = f THEN [proc[q] EXCEPT !.parent = Outside] ELSE proc[q]]

-----------------------------------------------------------------------------
(* The figurehead.                                                         *)

\* O_EXCL: a file of that name, whosever it is, ends the run at once.
plr_figureheadInit(f) ==
  /\ fig[f] = "start" /\ f \in DOMAIN env.opts
  /\ \/ /\ file = NoFile
        /\ file' = f
        /\ shm' = [shm EXCEPT ![f] =
                     [nProc |-> env.opts[f].nProc, didProcessInit |-> FALSE,
                      insidePLRInitTrue |-> env.opts[f].pintoolMode # "off",
                      watchdogTimeout |-> env.opts[f].watchdogTimeout,
                      procs |-> FreeMemory]]
        /\ fig' = [fig EXCEPT ![f] = "init"]
     \/ /\ file # NoFile
        /\ fig' = [fig EXCEPT ![f] = "refused"]
        /\ UNCHANGED <<file, shm>>
  /\ UNCHANGED <<env, pipe, proc>>

\* Mutant: main returns before the handler is registered.
ReturnsUnregistered(f) == fig' = [fig EXCEPT ![f] = "over"]

\* startFirstProcess returned -1: main registers the exit handler and returns.
LaunchFailed(f) == fig' = [fig EXCEPT ![f] = "exit"]

\* startFirstProcess as far as the fork. Without a pipe it calls exit, and no
\* exit handler is registered yet.
StartFirstProcess(f) ==
  /\ fig[f] = "init"
  /\ \/ /\ Room(1)
        /\ proc' = [proc EXCEPT ![Used + 1] =
                      [NoProc EXCEPT !.pc = "fork", !.fig = f, !.parent = f]]
        /\ fig' = [fig EXCEPT ![f] = "read"]
     \/ "fork" \in env.failing /\ LaunchFailed(f) /\ UNCHANGED proc
     \/ "pipe" \in env.failing /\ fig' = [fig EXCEPT ![f] = "gaveUp"] /\ UNCHANGED proc
  /\ UNCHANGED <<env, file, pipe, shm>>

\* Mutant: the pipe is not close-on-exec.
WritersInherited(f) == {p \in Pids : proc[p].fig = f /\ Alive(p)}

\* Who has the writing end of execErrPipe open.
PipeWriters(f) == {p \in Pids : proc[p].fig = f /\ proc[p].pc \in {"fork", "noexec"}}

\* The error number the child sent, or the end of the file.
ReadExecPipe(f) ==
  /\ fig[f] = "read"
  /\ \/ pipe[f] /\ LaunchFailed(f)
     \/ ~pipe[f] /\ PipeWriters(f) = {} /\ fig' = [fig EXCEPT ![f] = "wait"]
  /\ UNCHANGED <<env, file, pipe, shm, proc>>

\* wait() has reaped the last child.
WaitLoopEnds(f) ==
  /\ fig[f] = "wait"
  /\ ~ \E p \in Pids : Alive(p) /\ proc[p].parent = f
  /\ fig' = [fig EXCEPT ![f] = "exit"]
  /\ UNCHANGED <<env, file, pipe, shm, proc>>

\* The exit handler unlinks whatever the name leads to.
atexit_cleanupShm(f) ==
  /\ fig[f] = "exit"
  /\ file' = NoFile
  /\ fig' = [fig EXCEPT ![f] = "over"]
  /\ proc' = Orphaned(f)
  /\ UNCHANGED <<env, pipe, shm>>

\* A signal ends the figurehead: no exit handler runs.
KillFigurehead(f) ==
  /\ fig[f] \in FigRunning /\ env.kills > 0
  /\ env' = [env EXCEPT !.kills = @ - 1]
  /\ fig' = [fig EXCEPT ![f] = "killed"]
  /\ proc' = Orphaned(f)
  /\ UNCHANGED <<file, pipe, shm>>

-----------------------------------------------------------------------------
(* From execvp to the program.                                             *)

Exec(p) ==
  /\ proc[p].pc = "fork"
  /\ proc' = [proc EXCEPT ![p].pc = "image"]
  /\ UNCHANGED <<env, file, fig, pipe, shm>>

\* execvp failed: the error number goes to the figurehead, and the child exits
\* in its own time.
ExecFails(p) ==
  /\ proc[p].pc = "fork" /\ "exec" \in env.failing
  /\ pipe' = [pipe EXCEPT ![proc[p].fig] = TRUE]
  /\ proc' = [proc EXCEPT ![p].pc = "noexec"]
  /\ UNCHANGED <<env, file, fig, shm>>

ExitNoExec(p) ==
  /\ proc[p].pc = "noexec"
  /\ proc' = Without(proc, p, "failed")
  /\ UNCHANGED <<env, file, fig, pipe, shm>>

\* plr_refreshSharedData: the slots of memory m with the pid of process p.
OwnSlots(m, p) == {s \in Slots(m) : shm[m].procs[s].pid = p}

\* plr_processInit up to the lock, in a program just loaded: there has to be a
\* file of that name, and, if the group has been started, a slot with this pid.
ProcessInit(p) ==
  /\ proc[p].pc = "image"
  /\ proc' = IF file = NoFile THEN Without(proc, p, "failed")
             ELSE IF ~shm[file].didProcessInit
               THEN [proc EXCEPT ![p].pc = "first", ![p].maps = file]
             ELSE IF OwnSlots(file, p) = {} THEN Without(proc, p, "failed")
             ELSE [proc EXCEPT ![p].pc = "app", ![p].maps = file,
                               ![p].slot = CHOOSE s \in OwnSlots(file, p) : TRUE]
  /\ UNCHANGED <<env, file, fig, pipe, shm>>

\* Mutant: nobody but the first process starts inside.
FirstStartsInside(m, first) == shm[m].insidePLRInitTrue /\ first

\* insidePLR of a process after plr_processInit.
StartsInside(m, first) == shm[m].insidePLRInitTrue

\* Where a process is after plr_processInit: what was launched is Pin or not.
Started(p) == IF env.opts[proc[p].fig].pintoolMode # "off" THEN "pin" ELSE "app"

\* plr_processInit under the lock: the first process takes the first slot and
\* forks one process for each other slot.
StartGroup(p) ==
  LET m == proc[p].maps
      last == Used
      children == last + 1 .. last + shm[m].nProc - 1
  IN /\ proc[p].pc = "first" /\ shm[m].procs[0].pid = 0
     /\ Room(shm[m].nProc - 1)
     /\ shm' = [shm EXCEPT ![m].didProcessInit = TRUE,
                           ![m].procs[0] = [FreeProcData EXCEPT
                                              !.pid = p, !.insidePLR = StartsInside(m, TRUE)]]
     /\ proc' = [q \in Pids |->
                   IF q = p THEN [proc[p] EXCEPT !.pc = Started(p), !.slot = 0]
                   ELSE IF q \in children
                     THEN [NoProc EXCEPT !.pc = "bornInit", !.fig = proc[p].fig,
                                         !.parent = p, !.maps = m, !.slot = q - last]
                   ELSE proc[q]]
     /\ UNCHANGED <<env, file, fig, pipe>>

\* Mutant: the child goes on with its parent's loop.
ForksOn(p) == {s \in Slots(proc[p].maps) : s > proc[p].slot}

\* The slots a newborn forks processes for: none, it breaks out of the loop.
ForksFor(p) == {}

\* A child forked by the first process takes the lock, fills in its slot and
\* leaves plr_processInit.
BirthInit(p) ==
  LET m == proc[p].maps
      last == Used
      Nth(s) == Cardinality({t \in ForksFor(p) : t <= s})
  IN /\ proc[p].pc = "bornInit"
     /\ Room(Cardinality(ForksFor(p)))
     /\ shm' = [shm EXCEPT ![m].didProcessInit = TRUE,
                           ![m].procs[proc[p].slot] =
                              [FreeProcData EXCEPT !.pid = p,
                                                   !.insidePLR = StartsInside(m, FALSE)]]
     /\ proc' = [q \in Pids |->
                   IF q = p THEN [proc[p] EXCEPT !.pc = Started(p)]
                   ELSE IF \E s \in ForksFor(p) : q = last + Nth(s)
                     THEN [proc[p] EXCEPT
                             !.parent = p,
                             !.slot = CHOOSE s \in ForksFor(p) : q = last + Nth(s)]
                   ELSE proc[q]]
     /\ UNCHANGED <<env, file, fig, pipe>>

\* Pin's launcher loads the program, in the same process. Before its first
\* instruction ApplicationStart finds file and slot again, asserts that the slot
\* says inside PLR, and clears that.
ApplicationStart(p) ==
  /\ proc[p].pc = "pin"
  /\ IF file # NoFile /\ \E s \in OwnSlots(file, p) : shm[file].procs[s].insidePLR
       THEN /\ shm' = [shm EXCEPT ![file].procs[CHOOSE s \in OwnSlots(file, p) : TRUE].insidePLR
                                     = FALSE]
            /\ proc' = [proc EXCEPT ![p].pc = "image", ![p].maps = NoFile]
       ELSE proc' = Without(proc, p, "failed") /\ UNCHANGED shm
  /\ UNCHANGED <<env, file, fig, pipe>>

-----------------------------------------------------------------------------
(* The program.                                                            *)

Mine(p) == shm[proc[p].maps].procs[proc[p].slot]

\* A wrapper is entered, and its barrier waited in until a time.
EnterPLR(p) ==
  /\ proc[p].pc = "app" /\ ~Mine(p).insidePLR
  /\ shm' = [shm EXCEPT ![proc[p].maps].procs[proc[p].slot].insidePLR = TRUE]
  /\ \E now \in Times :
       proc' = [proc EXCEPT
                  ![p].pc = "plr",
                  ![p].wait = [from |-> now,
                               until |-> tspecAddMs(now, shm[proc[p].maps].watchdogTimeout)]]
  /\ UNCHANGED <<env, file, fig, pipe>>

LeavePLR(p) ==
  /\ proc[p].pc = "plr" /\ Mine(p).insidePLR
  /\ shm' = [shm EXCEPT ![proc[p].maps].procs[proc[p].slot].insidePLR = FALSE]
  /\ proc' = [proc EXCEPT ![p].pc = "app", ![p].wait = NoWait]
  /\ UNCHANGED <<env, file, fig, pipe>>

\* The first use of the extra shared memory opens the file once more, by name,
\* at any time in the life of the program.
OpenExtraShm(p) ==
  /\ proc[p].pc = "plr" /\ ~Mine(p).open /\ env.extra
  /\ IF file = NoFile
       THEN proc' = Without(proc, p, "failed") /\ UNCHANGED shm
       ELSE /\ shm' = [shm EXCEPT ![proc[p].maps].procs[proc[p].slot].open = TRUE]
            /\ UNCHANGED proc
  /\ UNCHANGED <<env, file, fig, pipe>>

\* A good process in the barrier replaces the owner of slot s, which has died or
\* been condemned: it is killed, its slot freed, and a copy forked to own it.
plr_replaceProcessIdx(p, s) ==
  LET m == proc[p].maps
      victim == shm[m].procs[s].pid
  IN /\ proc[p].pc = "plr" /\ ~proc[p].faulty
     /\ s # proc[p].slot /\ victim # 0
     /\ proc[victim].pc \in {"dead", "failed"} \/ proc[victim].faulty
     /\ Room(1)
     /\ shm' = [shm EXCEPT ![m].procs[s] = FreeProcData]
     /\ proc' = [(IF Alive(victim) THEN Without(proc, victim, "dead") ELSE proc)
                   EXCEPT ![Used + 1] = [NoProc EXCEPT
                                           !.pc = "bornCopy", !.fig = proc[p].fig, !.parent = p,
                                           !.maps = m, !.slot = s, !.copy = Mine(p)]]
     /\ UNCHANGED <<env, file, fig, pipe>>

\* The copy takes the lock and fills in its slot.
BirthCopy(p) ==
  LET copy == proc[p].copy
  IN /\ proc[p].pc = "bornCopy"
     /\ shm' = [shm EXCEPT ![proc[p].maps].procs[proc[p].slot] = [copy EXCEPT !.pid = p]]
     /\ proc' = [proc EXCEPT ![p].pc = "plr", ![p].copy = FreeProcData]
     /\ UNCHANGED <<env, file, fig, pipe>>

Exit(p) ==
  /\ proc[p].pc = "app"
  /\ proc' = Without(proc, p, "done")
  /\ UNCHANGED <<env, file, fig, pipe, shm>>

\* A process dies, anywhere, or goes on in the program with wrong data.
Fault(p) ==
  /\ Alive(p) /\ env.crashes > 0
  /\ env' = [env EXCEPT !.crashes = @ - 1]
  /\ \/ proc' = Without(proc, p, "dead")
     \/ proc[p].pc = "app" /\ proc' = [proc EXCEPT ![p].faulty = TRUE]
  /\ UNCHANGED <<file, fig, pipe, shm>>

-----------------------------------------------------------------------------
FigureheadRuns(f) ==
  \/ plr_figureheadInit(f) \/ StartFirstProcess(f) \/ ReadExecPipe(f)
  \/ WaitLoopEnds(f) \/ atexit_cleanupShm(f)

\* What a process does on its way into the program, and the rest.
StartsUp(p) ==
  \/ Exec(p) \/ ExecFails(p) \/ ExitNoExec(p) \/ ProcessInit(p) \/ StartGroup(p)
  \/ BirthInit(p) \/ ApplicationStart(p) \/ BirthCopy(p)

ProcessRuns(p) ==
  \/ StartsUp(p) \/ EnterPLR(p) \/ LeavePLR(p) \/ OpenExtraShm(p) \/ Exit(p)
  \/ \E m \in Figureheads : proc[p].maps = m /\ \E s \in Slots(m) : plr_replaceProcessIdx(p, s)

GroupNext ==
  \/ \E f \in Figureheads : FigureheadRuns(f) \/ KillFigurehead(f)
  \/ \E p \in Pids : ProcessRuns(p) \/ Fault(p)

GroupSpec == Init /\ [][GroupNext]_groupVars

\* The kernel runs every process that can run. That a program ever leaves a
\* wrapper, or ends, is not assumed.
GroupFairness ==
  /\ \A f \in Figureheads : WF_groupVars(FigureheadRuns(f))
  /\ \A p \in Pids : WF_groupVars(StartsUp(p))

-----------------------------------------------------------------------------
(* Properties.                                                             *)

Shm == [nProc : 0 .. MaxPid, didProcessInit : BOOLEAN, insidePLRInitTrue : BOOLEAN,
        watchdogTimeout : Nat, procs : [0 .. MaxPid - 1 -> ProcData]]

Waits == [from : Timespec, until : Timespec]

Processes == [pc : PCs, fig : Figureheads \cup {NoFile},
              parent : Figureheads \cup Pids \cup {Outside},
              maps : Figureheads \cup {NoFile}, slot : Int, copy : ProcData,
              faulty : BOOLEAN, wait : Waits]

\* Types of the group's state.
GroupTypeOK ==
  /\ \E runs \in SUBSET Figureheads : env \in Environment(runs)
  /\ file \in Figureheads \cup {NoFile}
  /\ fig \in [Figureheads -> FigPCs]
  /\ pipe \in [Figureheads -> BOOLEAN]
  /\ shm \in [Figureheads -> Shm]
  /\ proc \in [Pids -> Processes]

\* While a process of the group runs, its name for the shared memory leads to
\* the memory of its own group, which it may yet have to open
\* (plrSharedData.c:64, 203, 225): not to none, nor to that of the next run in
\* the same process group. It holds whatever becomes of the first process,
\* which is the parent of the others, and of the figurehead.
FileOutlivesGroup ==
  \A p \in Pids : Alive(p) /\ proc[p].pc \notin {"fork", "noexec"} =>
    /\ file = proc[p].fig
    /\ proc[p].maps \in {NoFile, proc[p].fig}

\* No two processes of a group are to work for the same slot, so a group is
\* never larger than nProc; and a slot that is filled in belongs to the process
\* that works for it, or to one that has ended and is to be replaced
\* (plr.c:150-167, 549-594).
OneProcessPerSlot ==
  \A p \in Pids : Alive(p) /\ proc[p].slot # NoSlot =>
    /\ shm[proc[p].fig].procs[proc[p].slot].pid
         = IF proc[p].pc \in {"bornInit", "bornCopy"} THEN 0 ELSE p
    /\ \A q \in Pids : Alive(q) /\ q # p /\ proc[q].fig = proc[p].fig
                         => proc[q].slot # proc[p].slot

\* No process ends with an error but a first one that execvp failed in: each
\* that looks for the file, for the slot with its pid and for its insidePLR flag
\* finds them, in whatever order processes start and end (plr.c:65-87, 329,
\* plrSharedData.c:203).
EveryoneFindsItsPlace ==
  \A p \in Pids : proc[p].pc = "failed" => pipe[proc[p].fig]

\* The deadline of the barrier's timed wait is one the kernel takes, and is the
\* watchdog timeout away (plr.c:463-473): a pthread_cond_timedwait that refuses
\* its deadline returns at once, with the mutex held, for ever.
DeadlineKept ==
  \A p \in Pids : proc[p].wait # NoWait =>
    /\ Normal(proc[p].wait.until)
    /\ Nanos(proc[p].wait.until) - Nanos(proc[p].wait.from)
         = env.opts[proc[p].fig].watchdogTimeout * NsPerMs

\* The figurehead learns what became of execvp while the group runs on
\* (plrMain.c:194-200, 265-279).
LaunchCompletes == \A f \in Figureheads : fig[f] = "read" ~> fig[f] # "read"

\* Once all processes of a run have ended, or none came to be, its file goes, so
\* that another run can begin, unless the figurehead is killed or never got as
\* far as registering the removal (plrMain.c:149-180).
GroupOver(f) == /\ fig[f] \in {"read", "wait", "exit", "over"}
                /\ \A p \in Pids : proc[p].fig = f => ~Alive(p)
NameFreed ==
  \A f \in Figureheads : GroupOver(f) /\ file = f ~> file # f \/ fig[f] = "killed"
=============================================================================
