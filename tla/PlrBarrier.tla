------------------------------ MODULE PlrBarrier ------------------------------
(***************************************************************************)
(* The redundant processes of one PLR group and the barrier that keeps     *)
(* them together: plr_waitBarrier, its two actions (the vote over the call *)
(* arguments and the I/O the master performs), the watchdog, the killing   *)
(* and forking of replacement processes (plrCommon/plr.c), the per-process *)
(* slots they share (plrCommon/plrSharedData.c), and the sequence of       *)
(* barriers a wrapped library call goes through (plrPreload/*.c).          *)
(*                                                                         *)
(* A slot is an entry of allProcShm. The process of slot i is the one that *)
(* owns the slot or has been forked to own it; killing it and forking its  *)
(* replacement swap one for the other, so pc and local are indexed by slot.*)
(* A process that is stuck for good is a dead one: neither takes a step.   *)
(***************************************************************************)
EXTENDS Integers, Sequences, FiniteSets, PlrVote

CONSTANTS
  NProc,         \* plrShm->nProc
  Program,       \* the wrapped calls the program makes: a sequence of kinds
  Good,          \* the program data of a process no fault has hit
  Corruptions,   \* the program data a fault can leave behind
  CrashPoints,   \* where a process may die: <<slot, pc, phase>>
  MaxFaults,     \* how many faults a behaviour has
  MaxFaulty,     \* how many processes are faulty at the same time
  EagerTimer,    \* TRUE: a good process may be slower than the watchdog
  StreamErrors   \* TRUE: the master's stdio call may leave ferror() set

Slots == 0 .. NProc - 1
Nobody == NProc            \* the mutex is free
Master == 0                \* allProcShm[0] is the master's slot

\* What a wrapper does: only check its arguments (close, getpid), have the
\* master do the I/O (open, read, write, unlink, printf), or also compare the
\* stream state on the way out (fread, fwrite, fseek, fgetc, fputc, ...).
Kinds == {"local", "emulated", "stdio"}
\* The barrier a process is in or on its way to.
Phases == {"check", "master", "exitState"}
PCs == {"bornInit", "app", "lock", "top", "dog", "wait", "woken", "timeout",
        "bornVote", "bornDog", "past", "copied", "done", "dead", "failed"}

Calls == 1 .. Len(Program)
Data == {Good} \cup Corruptions

ASSUME NProcAssumption == NProc \in Nat \ {0}
ASSUME ProgramAssumption == Program \in Seq(Kinds)
ASSUME DataAssumption == Good \notin Corruptions
ASSUME CrashAssumption == CrashPoints \subseteq Slots \X PCs \X Phases
ASSUME FaultsAssumption == MaxFaults \in Nat /\ MaxFaulty \in Nat
ASSUME FlagsAssumption == EagerTimer \in BOOLEAN /\ StreamErrors \in BOOLEAN

VARIABLES
  lock,             \* plrShm->lock: the slot whose process holds it
  curWaitIdx,       \* plrShm->curWaitIdx
  condWaitCnt,      \* plrShm->condWaitCnt
  restoring,        \* plrShm->restoring
  allProcShm,       \* the slots
  extraShm,         \* the call whose result is in the extra shared memory
  pc,               \* where each process is
  local,            \* each process's own variables
  parentProcShmCpy, \* the copy of its parent's slot a newborn process carries
  log,              \* the I/O performed on the outside world, in order
  faults            \* the faults so far

vars == <<lock, curWaitIdx, condWaitCnt, restoring, allProcShm, extraShm, pc,
          local, parentProcShmCpy, log, faults>>

-----------------------------------------------------------------------------
(* Slots, arguments and the state of a process.                            *)

\* The two things syscallArgs_t is used for, told apart by sig: the arguments
\* of call c, and the stream state at the end of it. Zeroed memory is sig 0.
CallArgs(c, d) == [sig |-> c, data |-> d]
ExitState(c, d) == [sig |-> Len(Program) + c, data |-> d]
ArgBlocks == [sig : 0 .. 2 * Len(Program), data : Data]

\* perProcData_t; pid is 0 in a free slot and 1 in one with an owner.
ProcData == [pid : {0, 1}, waitIdx : {-1, 0, 1}, insidePLR : BOOLEAN,
             syscallArgs : ArgBlocks]

\* plrSD_freeProcData and fresh shared memory: all zeros, waitIdx included.
FreeProcData == [pid |-> 0, waitIdx |-> 0, insidePLR |-> FALSE,
                 syscallArgs |-> CallArgs(0, Good)]

\* plrSD_initProcData, over zeroed memory.
InitProcData == [FreeProcData EXCEPT !.pid = 1, !.waitIdx = -1]

\* Mutant: the copy forgets that it is inside a wrapper.
OutsideCopy(src) == [InitProcData EXCEPT !.syscallArgs = src.syscallArgs]

\* plrSD_initProcDataAsCopy.
InitProcDataAsCopy(src) ==
  [InitProcData EXCEPT !.insidePLR = src.insidePLR,
                       !.syscallArgs = src.syscallArgs]

\* A process's private state: the call it is at and the barrier of it, the
\* two locals of plr_waitBarrier, the waitIdx of plr_watchdogExpired, its
\* program data, the arguments it makes the call with, and the call whose result
\* it holds (0: none yet).
Locals == [call : 1 .. Len(Program) + 1, phase : Phases, waitIdx : {0, 1},
           watchdogExpired : BOOLEAN, dogIdx : {0, 1}, data : Data, arg : Data,
           ret : 0 .. Len(Program)]

\* The states in which a process holds the mutex.
Holding == {"top", "dog"}
\* The states in which a process will do nothing ever again.
Stopped == {"done", "dead", "failed"}

Init ==
  \* plr_processInit of the first process has just released the lock; the
  \* children it forked have yet to take it and fill in their slots.
  /\ lock = Nobody
  /\ curWaitIdx = 0
  /\ condWaitCnt = [x \in {0, 1} |-> 0]
  /\ restoring = FALSE
  /\ allProcShm = [i \in Slots |-> IF i = Master THEN InitProcData ELSE FreeProcData]
  /\ extraShm = 0
  /\ pc = [i \in Slots |-> IF i = Master THEN "app" ELSE "bornInit"]
  /\ local = [i \in Slots |->
                [call |-> 1, phase |-> "check", waitIdx |-> 0,
                 watchdogExpired |-> FALSE, dogIdx |-> 0, data |-> Good, arg |-> Good,
                 ret |-> 0]]
  /\ parentProcShmCpy = [i \in Slots |-> IF i = Master THEN FreeProcData ELSE InitProcData]
  /\ log = << >>
  /\ faults = 0

-----------------------------------------------------------------------------
(* Pieces of the barrier the actions below share.                          *)

\* Mutant: the wakeup goes to the other condition variable.
SignalOtherIdx(pcs, S, idx) ==
  [j \in Slots |->
     IF j \in S /\ pcs[j] = "wait" /\ local[j].waitIdx = 1 - idx THEN "woken" ELSE pcs[j]]

\* The processes among S blocked on condition variable idx wake up.
\* A signal nobody waits for is lost.
Signal(pcs, S, idx) ==
  [j \in Slots |->
     IF j \in S /\ pcs[j] = "wait" /\ local[j].waitIdx = idx THEN "woken" ELSE pcs[j]]

\* Mutant: the barrier opens one arrival early.
AlmostFull(i) == condWaitCnt[local[i].waitIdx] >= NProc - 1

\* The barrier's exit condition, and whether process i is still held in it.
BarrierFull(i) == condWaitCnt[local[i].waitIdx] = NProc
Unreleased(i) == allProcShm[i].waitIdx >= 0

\* Mutant: the master action is everybody's.
AnyoneActs(i) == local[i].phase \in Phases

\* Whether process i is the one to run the action of the barrier it is in.
RunsAction(i) == local[i].phase # "master" \/ i = Master

\* The verdict of plr_checkSyscallArgs_act.
Verdict == BadProc([p \in Voters |-> allProcShm[p].syscallArgs])

\* Mutant: the process that may not run the action wakes itself.
Itself(i) == i

\* The slot whose process is woken to rerun the action: the first other one.
NextInLine(i) == IF i = 0 THEN 1 ELSE 0

\* Mutant: waiting under index 0 is taken for not waiting.
NotWaitingOffByOne == {j \in Slots : allProcShm[j].waitIdx <= 0}

\* The processes that did not arrive, as plr_watchdogExpired looks for them.
NotWaiting == {j \in Slots : allProcShm[j].waitIdx < 0}
Victim == CHOOSE j \in NotWaiting : \A k \in NotWaiting : j <= k

\* Mutant: one missing process is too many.
AnyMissing == NProc - condWaitCnt[curWaitIdx] >= 1

\* More than one process is missing: nothing the watchdog can do.
TooManyMissing == NProc - condWaitCnt[curWaitIdx] > 1

\* Mutant: the copy takes along the slot of the process it replaces.
VictimCopied(i, v) == [parentProcShmCpy EXCEPT ![v] = allProcShm[v]]

\* plr_replaceProcessIdx(v) called by process i: v's process is killed, its
\* slot zeroed, and a copy of i forked that will own it once it gets the lock.
\* The copy takes along i's slot as it is now, whatever i does meanwhile.
Forked(f, i, v) == [f EXCEPT ![v] = f[i]]
ParentCopied(i, v) == [parentProcShmCpy EXCEPT ![v] = allProcShm[i]]

\* Mutant: the index does not wrap around.
CompleteNoWrap(i, pcs, slots) ==
  /\ curWaitIdx' = 1 + curWaitIdx
  /\ allProcShm' = [j \in Slots |-> [slots[j] EXCEPT !.waitIdx = -1]]
  /\ condWaitCnt' = [condWaitCnt EXCEPT ![local[i].waitIdx] = @ - 1]
  /\ pc' = [Signal(pcs, Slots, local[i].waitIdx) EXCEPT ![i] = "past"]
  /\ lock' = Nobody

\* The action succeeded: turn to the other index, release every process and
\* wake those that wait, leave and unlock.
Complete(i, pcs, slots) ==
  /\ curWaitIdx' = 1 - curWaitIdx
  /\ allProcShm' = [j \in Slots |-> [slots[j] EXCEPT !.waitIdx = -1]]
  /\ condWaitCnt' = [condWaitCnt EXCEPT ![local[i].waitIdx] = @ - 1]
  /\ pc' = [Signal(pcs, Slots, local[i].waitIdx) EXCEPT ![i] = "past"]
  /\ lock' = Nobody

\* Mutant: the arrival is not taken back.
ExitUncounted(i) ==
  /\ allProcShm' = [allProcShm EXCEPT ![i].waitIdx = -1]
  /\ pc' = [pc EXCEPT ![i] = "failed"]
  /\ lock' = Nobody
  /\ UNCHANGED <<curWaitIdx, condWaitCnt, restoring, extraShm, local,
                 parentProcShmCpy, log, faults>>

\* The action or the watchdog failed: take back the arrival, unlock, exit(1).
ExitWithError(i) ==
  /\ allProcShm' = [allProcShm EXCEPT ![i].waitIdx = -1]
  /\ condWaitCnt' = [condWaitCnt EXCEPT ![local[i].waitIdx] = @ - 1]
  /\ pc' = [pc EXCEPT ![i] = "failed"]
  /\ lock' = Nobody
  /\ UNCHANGED <<curWaitIdx, restoring, extraShm, local, parentProcShmCpy, log, faults>>

-----------------------------------------------------------------------------
(* A wrapped call, from its entry to its return.                           *)

\* The wrapper sets insidePLR and publishes its arguments, without the lock.
\* A faulty process need not show its fault in the arguments of this call.
BeginCall(i) ==
  /\ pc[i] = "app" /\ local[i].call \in Calls
  /\ \E d \in {local[i].data, Good} :
       /\ allProcShm' = [allProcShm EXCEPT ![i].insidePLR = TRUE,
                                           ![i].syscallArgs = CallArgs(local[i].call, d)]
       /\ local' = [local EXCEPT ![i].arg = d, ![i].ret = 0]
  /\ pc' = [pc EXCEPT ![i] = "lock"]
  /\ UNCHANGED <<lock, curWaitIdx, condWaitCnt, restoring, extraShm,
                 parentProcShmCpy, log, faults>>

\* The checked call goes on to the barrier of its master action.
BeginMasterAction(i) ==
  /\ pc[i] = "past" /\ local[i].phase = "check"
  /\ Program[local[i].call] # "local"
  /\ local' = [local EXCEPT ![i].phase = "master"]
  /\ pc' = [pc EXCEPT ![i] = "lock"]
  /\ UNCHANGED <<lock, curWaitIdx, condWaitCnt, restoring, allProcShm, extraShm,
                 parentProcShmCpy, log, faults>>

\* Slaves copy the result from the extra shared memory, without the lock. The
\* master has it already.
CopyResult(i) ==
  /\ pc[i] = "past" /\ local[i].phase = "master"
  /\ local' = IF i = Master THEN local ELSE [local EXCEPT ![i].ret = extraShm]
  /\ pc' = [pc EXCEPT ![i] = "copied"]
  /\ UNCHANGED <<lock, curWaitIdx, condWaitCnt, restoring, allProcShm, extraShm,
                 parentProcShmCpy, log, faults>>

\* A stdio wrapper has the state of the stream compared before it returns.
BeginExitState(i) ==
  /\ pc[i] = "copied" /\ Program[local[i].call] = "stdio"
  /\ \E d \in {local[i].data, Good} :
       allProcShm' = [allProcShm EXCEPT ![i].syscallArgs = ExitState(local[i].call, d)]
  /\ local' = [local EXCEPT ![i].phase = "exitState"]
  /\ pc' = [pc EXCEPT ![i] = "lock"]
  /\ UNCHANGED <<lock, curWaitIdx, condWaitCnt, restoring, extraShm,
                 parentProcShmCpy, log, faults>>

\* The call is over once it is past the last of its barriers.
CallOver(i) ==
  \/ pc[i] = "past" /\ local[i].phase = "check" /\ Program[local[i].call] = "local"
  \/ pc[i] = "copied" /\ Program[local[i].call] = "emulated"
  \/ pc[i] = "past" /\ local[i].phase = "exitState"

\* The wrapper clears insidePLR and returns.
EndCall(i) ==
  /\ CallOver(i)
  /\ allProcShm' = [allProcShm EXCEPT ![i].insidePLR = FALSE]
  /\ local' = [local EXCEPT ![i].call = @ + 1, ![i].phase = "check"]
  /\ pc' = [pc EXCEPT ![i] = "app"]
  /\ UNCHANGED <<lock, curWaitIdx, condWaitCnt, restoring, extraShm,
                 parentProcShmCpy, log, faults>>

\* The program ends. Nothing synchronises the exit.
ExitProgram(i) ==
  /\ pc[i] = "app" /\ local[i].call \notin Calls
  /\ pc' = [pc EXCEPT ![i] = "done"]
  /\ UNCHANGED <<lock, curWaitIdx, condWaitCnt, restoring, allProcShm, extraShm,
                 local, parentProcShmCpy, log, faults>>

-----------------------------------------------------------------------------
(* plr_waitBarrier, between acquiring the lock and releasing it.           *)

\* Take the lock and arrive. Neither the first nor the last to arrive wakes
\* the others, so that their timers restart.
EnterBarrier(i) ==
  /\ pc[i] = "lock" /\ lock = Nobody
  /\ condWaitCnt[curWaitIdx] <= NProc
  /\ lock' = i
  /\ local' = [local EXCEPT ![i].waitIdx = curWaitIdx, ![i].watchdogExpired = FALSE]
  /\ allProcShm' = [allProcShm EXCEPT ![i].waitIdx = curWaitIdx]
  /\ condWaitCnt' = [condWaitCnt EXCEPT ![curWaitIdx] = @ + 1]
  /\ pc' = [Signal(pc, IF condWaitCnt'[curWaitIdx] \in 2 .. NProc - 1 THEN Slots ELSE {},
                   curWaitIdx) EXCEPT ![i] = "top"]
  /\ UNCHANGED <<curWaitIdx, restoring, extraShm, parentProcShmCpy, log, faults>>

\* More arrivals are counted than there are processes: the assertion at the head
\* of the barrier ends the process, lock in hand.
ArrivalAborts(i) ==
  /\ pc[i] = "lock" /\ lock = Nobody
  /\ condWaitCnt[curWaitIdx] > NProc
  /\ lock' = i
  /\ pc' = [pc EXCEPT ![i] = "failed"]
  /\ UNCHANGED <<curWaitIdx, condWaitCnt, restoring, allProcShm, extraShm, local,
                 parentProcShmCpy, log, faults>>

\* Mutants: leaving without unlocking, and without being counted out.
LeaveLocked(i) ==
  /\ pc[i] = "top" /\ ~Unreleased(i)
  /\ condWaitCnt' = [condWaitCnt EXCEPT ![local[i].waitIdx] = @ - 1]
  /\ pc' = [pc EXCEPT ![i] = "past"]
  /\ UNCHANGED <<lock, curWaitIdx, restoring, allProcShm, extraShm, local,
                 parentProcShmCpy, log, faults>>

LeaveUncounted(i) ==
  /\ pc[i] = "top" /\ ~Unreleased(i)
  /\ pc' = [pc EXCEPT ![i] = "past"]
  /\ lock' = Nobody
  /\ UNCHANGED <<curWaitIdx, condWaitCnt, restoring, allProcShm, extraShm, local,
                 parentProcShmCpy, log, faults>>

\* Someone ran the action and released everybody.
LeaveReleased(i) ==
  /\ pc[i] = "top" /\ ~Unreleased(i)
  /\ condWaitCnt' = [condWaitCnt EXCEPT ![local[i].waitIdx] = @ - 1]
  /\ pc' = [pc EXCEPT ![i] = "past"]
  /\ lock' = Nobody
  /\ UNCHANGED <<curWaitIdx, restoring, allProcShm, extraShm, local,
                 parentProcShmCpy, log, faults>>

\* Everybody is here and it is up to process i to run the action. The vote
\* asserts nProc == 3: in a group of any other size the process that runs it is
\* aborted, lock in hand, and never takes another step.
AtAction(i) == pc[i] = "top" /\ Unreleased(i) /\ BarrierFull(i) /\ RunsAction(i)
AtVote(i) == AtAction(i) /\ local[i].phase # "master" /\ NProc = 3
AtMasterAct(i) == AtAction(i) /\ local[i].phase = "master"

VoteAgrees(i) ==
  /\ AtVote(i) /\ Verdict = AllAgree
  /\ Complete(i, pc, allProcShm)
  /\ UNCHANGED <<restoring, extraShm, local, parentProcShmCpy, log, faults>>

\* The running process is the odd one out: another has to run the action.
VoteNamesSelf(i) ==
  /\ AtVote(i) /\ Verdict = i
  /\ pc' = [Signal(pc, {NextInLine(i)}, local[i].waitIdx) EXCEPT ![i] = "dog"]
  /\ UNCHANGED <<lock, curWaitIdx, condWaitCnt, restoring, allProcShm, extraShm,
                 local, parentProcShmCpy, log, faults>>

\* Replace the odd one out by a copy of the running process; the copy comes
\* out of the barrier as its parent does.
VoteReplaces(i) ==
  /\ AtVote(i) /\ Verdict \in Voters \ {i}
  /\ allProcShm[Verdict].pid # 0
  /\ local' = Forked(local, i, Verdict)
  /\ parentProcShmCpy' = ParentCopied(i, Verdict)
  /\ Complete(i, [pc EXCEPT ![Verdict] = "bornVote"],
              [allProcShm EXCEPT ![Verdict] = FreeProcData])
  /\ UNCHANGED <<restoring, extraShm, log, faults>>

VoteFails(i) ==
  /\ AtVote(i) /\ Verdict = NoMajority
  /\ ExitWithError(i)

\* The master performs the I/O of the call, stores the result for the slaves
\* and lets everybody go.
MasterActs(i) ==
  /\ AtMasterAct(i)
  /\ log' = Append(log, [call |-> local[i].call, data |-> local[i].arg])
  /\ extraShm' = local[i].call
  /\ local' = [local EXCEPT ![i].ret = local[i].call]
  /\ Complete(i, pc, allProcShm)
  /\ UNCHANGED <<restoring, parentProcShmCpy, faults>>

\* The I/O leaves the stream's error indicator set: the master exits at once,
\* from inside the action, and the lock stays locked.
MasterExits(i) ==
  /\ AtMasterAct(i) /\ StreamErrors /\ Program[local[i].call] = "stdio"
  /\ log' = Append(log, [call |-> local[i].call, data |-> local[i].arg])
  /\ extraShm' = local[i].call
  /\ pc' = [pc EXCEPT ![i] = "failed"]
  /\ UNCHANGED <<lock, curWaitIdx, condWaitCnt, restoring, allProcShm, local,
                 parentProcShmCpy, faults>>

\* Everybody is here, but the action is the master's: wake it.
SummonMaster(i) ==
  /\ pc[i] = "top" /\ Unreleased(i) /\ BarrierFull(i) /\ ~RunsAction(i)
  /\ pc' = [Signal(pc, {Master}, local[i].waitIdx) EXCEPT ![i] = "dog"]
  /\ UNCHANGED <<lock, curWaitIdx, condWaitCnt, restoring, allProcShm, extraShm,
                 local, parentProcShmCpy, log, faults>>

NotFull(i) ==
  /\ pc[i] = "top" /\ Unreleased(i) /\ ~BarrierFull(i)
  /\ pc' = [pc EXCEPT ![i] = "dog"]
  /\ UNCHANGED <<lock, curWaitIdx, condWaitCnt, restoring, allProcShm, extraShm,
                 local, parentProcShmCpy, log, faults>>

\* Wait on the condition variable: the timer is not over, or the missing
\* process is being replaced already.
Park(i) ==
  /\ pc[i] = "dog" /\ (local[i].watchdogExpired => restoring)
  /\ pc' = [pc EXCEPT ![i] = "wait"]
  /\ lock' = Nobody
  /\ UNCHANGED <<curWaitIdx, condWaitCnt, restoring, allProcShm, extraShm,
                 local, parentProcShmCpy, log, faults>>

\* The timer is over and nobody is replacing the missing process yet.
AtWatchdog(i) == pc[i] = "dog" /\ local[i].watchdogExpired /\ ~restoring

\* plr_watchdogExpired returns -1: more than one is missing, or nobody is.
WatchdogGivesUp(i) ==
  /\ AtWatchdog(i) /\ (TooManyMissing \/ NotWaiting = {})
  /\ ExitWithError(i)

\* Kill the missing process and fork a replacement. Both parent and child go
\* on at the top of the loop, the child once it has the lock. It takes along which
\* index was the current one when its parent looked.
WatchdogReplaces(i) ==
  /\ AtWatchdog(i) /\ ~TooManyMissing /\ NotWaiting # {}
  /\ allProcShm[Victim].pid # 0
  /\ restoring' = TRUE
  /\ allProcShm' = [allProcShm EXCEPT ![Victim] = FreeProcData]
  /\ local' = [Forked(local, i, Victim) EXCEPT ![Victim].dogIdx = curWaitIdx]
  /\ parentProcShmCpy' = ParentCopied(i, Victim)
  /\ pc' = [pc EXCEPT ![i] = "top", ![Victim] = "bornDog"]
  /\ UNCHANGED <<lock, curWaitIdx, condWaitCnt, extraShm, log, faults>>

\* plr_replaceProcessIdx on a slot that has no owner yet: kill(0, SIGKILL) takes
\* the whole process group, the caller included.
KillsGroup ==
  /\ pc' = [j \in Slots |-> IF pc[j] \in Stopped THEN pc[j] ELSE "dead"]
  /\ UNCHANGED <<lock, curWaitIdx, condWaitCnt, restoring, allProcShm, extraShm,
                 local, parentProcShmCpy, log, faults>>

VoteKillsGroup(i) ==
  /\ AtVote(i) /\ Verdict \in Voters \ {i}
  /\ allProcShm[Verdict].pid = 0
  /\ KillsGroup

WatchdogKillsGroup(i) ==
  /\ AtWatchdog(i) /\ ~TooManyMissing /\ NotWaiting # {}
  /\ allProcShm[Victim].pid = 0
  /\ KillsGroup

-----------------------------------------------------------------------------
(* Waking up, being born, dying.                                           *)

\* The condition wait is over: take the lock back, look at the loop again.
Reacquire(i) ==
  /\ pc[i] \in {"woken", "timeout"} /\ lock = Nobody
  /\ lock' = i
  /\ pc' = [pc EXCEPT ![i] = "top"]
  /\ local' = IF pc[i] = "timeout"
                THEN [local EXCEPT ![i].watchdogExpired = TRUE] ELSE local
  /\ UNCHANGED <<curWaitIdx, condWaitCnt, restoring, allProcShm, extraShm,
                 parentProcShmCpy, log, faults>>

\* pthread_cond_timedwait may return for no reason at all.
SpuriousWakeup(i) ==
  /\ pc[i] = "wait"
  /\ pc' = [pc EXCEPT ![i] = "woken"]
  /\ UNCHANGED <<lock, curWaitIdx, condWaitCnt, restoring, allProcShm, extraShm,
                 local, parentProcShmCpy, log, faults>>

\* Nobody has anything left to do but wait, or to find that its timer, started
\* with the others', is over as well.
Quiet ==
  \A j \in Slots : pc[j] \in Stopped \cup {"wait"} \/ (pc[j] = "timeout" /\ Unreleased(j))

\* The watchdog timer fires. A timer that is not eager never overtakes a
\* process that can still move.
Timeout(i) ==
  /\ pc[i] = "wait" /\ (EagerTimer \/ Quiet)
  /\ pc' = [pc EXCEPT ![i] = "timeout"]
  /\ UNCHANGED <<lock, curWaitIdx, condWaitCnt, restoring, allProcShm, extraShm,
                 local, parentProcShmCpy, log, faults>>

\* A newborn process gets the lock and fills in its slot from the copy of its
\* parent's slot. What it does then depends on where it was forked.
Born(i) == InitProcDataAsCopy(parentProcShmCpy[i])

\* ... in plr_processInit: it enters the program.
BirthInit(i) ==
  /\ pc[i] = "bornInit" /\ lock = Nobody
  /\ allProcShm' = [allProcShm EXCEPT ![i] = Born(i)]
  /\ pc' = [pc EXCEPT ![i] = "app"]
  /\ UNCHANGED <<lock, curWaitIdx, condWaitCnt, restoring, extraShm, local,
                 parentProcShmCpy, log, faults>>

\* ... in the vote: it is released already, so it leaves the barrier.
BirthVote(i) ==
  /\ pc[i] = "bornVote" /\ lock = Nobody
  /\ allProcShm' = [allProcShm EXCEPT ![i] = Born(i)]
  /\ condWaitCnt' = [condWaitCnt EXCEPT ![local[i].waitIdx] = @ - 1]
  /\ pc' = [pc EXCEPT ![i] = "past"]
  /\ UNCHANGED <<lock, curWaitIdx, restoring, extraShm, local,
                 parentProcShmCpy, log, faults>>

\* Mutants: the replacement leaves restoring set, and does not count itself in.
BirthDogRestoring(i) ==
  /\ pc[i] = "bornDog" /\ lock = Nobody
  /\ lock' = i
  /\ allProcShm' = [allProcShm EXCEPT ![i] = [Born(i) EXCEPT !.waitIdx = curWaitIdx]]
  /\ condWaitCnt' = [condWaitCnt EXCEPT ![local[i].dogIdx] = @ + 1]
  /\ pc' = [pc EXCEPT ![i] = "top"]
  /\ UNCHANGED <<curWaitIdx, restoring, extraShm, local, parentProcShmCpy, log, faults>>

BirthDogUncounted(i) ==
  /\ pc[i] = "bornDog" /\ lock = Nobody
  /\ lock' = i
  /\ allProcShm' = [allProcShm EXCEPT ![i] = [Born(i) EXCEPT !.waitIdx = curWaitIdx]]
  /\ restoring' = FALSE
  /\ pc' = [pc EXCEPT ![i] = "top"]
  /\ UNCHANGED <<curWaitIdx, condWaitCnt, extraShm, local, parentProcShmCpy, log, faults>>

\* ... by the watchdog: it arrives in place of the process it replaces, under the
\* index that is the current one now, counted under the one that was when it was
\* forked; and goes on in the loop under that of its parent's barrier.
BirthDog(i) ==
  /\ pc[i] = "bornDog" /\ lock = Nobody
  /\ lock' = i
  /\ allProcShm' = [allProcShm EXCEPT ![i] = [Born(i) EXCEPT !.waitIdx = curWaitIdx]]
  /\ condWaitCnt' = [condWaitCnt EXCEPT ![local[i].dogIdx] = @ + 1]
  /\ restoring' = FALSE
  /\ pc' = [pc EXCEPT ![i] = "top"]
  /\ UNCHANGED <<curWaitIdx, extraShm, local, parentProcShmCpy, log, faults>>

\* The processes that are not as the program made them.
Faulty == {i \in Slots : local[i].data # Good \/ pc[i] \in {"dead", "failed"}}
MayFault(i) == faults < MaxFaults /\ Cardinality(Faulty \cup {i}) <= MaxFaulty

\* A process dies, or gets stuck for good.
Crash(i) ==
  /\ <<i, pc[i], local[i].phase>> \in CrashPoints /\ pc[i] \notin Stopped /\ MayFault(i)
  /\ pc' = [pc EXCEPT ![i] = "dead"]
  /\ faults' = faults + 1
  /\ UNCHANGED <<lock, curWaitIdx, condWaitCnt, restoring, allProcShm, extraShm,
                 local, parentProcShmCpy, log>>

\* A transient fault changes the program data of a running process.
Corrupt(i) ==
  /\ pc[i] = "app" /\ local[i].data = Good /\ MayFault(i)
  /\ \E d \in Corruptions : local' = [local EXCEPT ![i].data = d]
  /\ faults' = faults + 1
  /\ UNCHANGED <<lock, curWaitIdx, condWaitCnt, restoring, allProcShm, extraShm,
                 pc, parentProcShmCpy, log>>

-----------------------------------------------------------------------------
\* What process i does by itself: the steps fairness is about.
Step(i) ==
  \/ BeginCall(i) \/ BeginMasterAction(i) \/ CopyResult(i) \/ BeginExitState(i)
  \/ EndCall(i) \/ ExitProgram(i)
  \/ EnterBarrier(i) \/ ArrivalAborts(i) \/ LeaveReleased(i)
  \/ VoteAgrees(i) \/ VoteNamesSelf(i) \/ VoteReplaces(i) \/ VoteFails(i)
  \/ MasterActs(i) \/ SummonMaster(i) \/ NotFull(i)
  \/ Park(i) \/ WatchdogGivesUp(i) \/ WatchdogReplaces(i) \/ VoteKillsGroup(i) \/ WatchdogKillsGroup(i)
  \/ Reacquire(i) \/ BirthInit(i) \/ BirthVote(i) \/ BirthDog(i)

\* Everything has come to its end.
Terminated == (\A i \in Slots : pc[i] \in Stopped) /\ UNCHANGED vars

Next ==
  \/ \E i \in Slots : Step(i) \/ MasterExits(i) \/ Timeout(i) \/ SpuriousWakeup(i)
                        \/ Crash(i) \/ Corrupt(i)
  \/ Terminated

Spec == Init /\ [][Next]_vars

\* The scheduler runs every process, a watchdog timer that may fire does, and
\* spurious wakeups do not restart the timers for ever. No fault and no stream
\* error has to happen.
Fairness ==
  /\ \A i \in Slots : WF_vars(Step(i)) /\ WF_vars(Timeout(i))
  /\ <>[][\A i \in Slots : ~SpuriousWakeup(i)]_vars
FairSpec == Spec /\ Fairness

-----------------------------------------------------------------------------
(* Properties.                                                             *)

TypeOK ==
  /\ lock \in Slots \cup {Nobody}
  /\ curWaitIdx \in {0, 1}
  /\ condWaitCnt \in [{0, 1} -> Int]
  /\ restoring \in BOOLEAN
  /\ allProcShm \in [Slots -> ProcData]
  /\ extraShm \in 0 .. Len(Program)
  /\ pc \in [Slots -> PCs]
  /\ local \in [Slots -> Locals]
  /\ parentProcShmCpy \in [Slots -> ProcData]
  /\ log \in Seq([call : Calls, data : Data])
  /\ faults \in 0 .. MaxFaults

\* plrShm->lock excludes: the process between pthread_mutex_lock and
\* pthread_mutex_unlock or pthread_cond_timedwait is the one that holds it,
\* and a locked mutex has a process in there, or one that died in there.
MutexExcludes ==
  /\ \A i \in Slots : pc[i] \in Holding => lock = i
  /\ lock # Nobody => pc[lock] \in Holding \cup {"dead", "failed"}

\* The processes that have arrived under an index and not left yet: those in
\* the loop of plr_waitBarrier and a newborn that will leave with its parent;
\* and those, with the ones that stopped in there with the lock in hand.
InLoop == {"top", "dog", "wait", "woken", "timeout"}
Inside(x) == {i \in Slots : pc[i] \in InLoop \cup {"bornVote"} /\ local[i].waitIdx = x}
Arrived(x) == Inside(x) \cup {i \in Slots : lock = i /\ local[i].waitIdx = x}

\* condWaitCnt[x] is the number of processes that have arrived under index x and
\* not left, through every release, replacement and failed exit.
ArrivalsCounted == \A x \in {0, 1} : condWaitCnt[x] = Cardinality(Arrived(x))

\* Whoever is killed wherever, and under whichever index a replacement is counted that
\* is born too late for the barrier it was forked in: the two counts together never
\* miss a process that is in one of the barriers.
NobodyUncounted == condWaitCnt[0] + condWaitCnt[1] >= Cardinality(Inside(0) \cup Inside(1))

\* restoring, which the watchdog's parent sets and only its child takes back, is set
\* exactly while there is a child that has yet to be born, and there is only one: a
\* replacement is never replaced itself before it can say that it is there. (When
\* all have ended, nobody is left to take it back.)
Unborn == {i \in Slots : pc[i] = "bornDog"}
WatchdogsTakeTurns ==
  /\ Unborn # {} => restoring
  /\ restoring => Unborn # {} \/ \A i \in Slots : pc[i] \in Stopped
  /\ \A i, j \in Unborn : i = j

\* The action of a barrier runs only when every process of the group is held
\* in that very barrier ("once processes have all reached the barrier").
OpensWhenAllArrived ==
  \A i \in Slots : AtAction(i) =>
    \A j \in Slots : /\ pc[j] \in InLoop /\ Unreleased(j)
                     /\ local[j].call = local[i].call
                     /\ local[j].phase = local[i].phase

\* A process held in the current barrier; one that has been let out of the last
\* one and has not left yet.
Held(i) == pc[i] \in InLoop /\ Unreleased(i)
Leaving(i) == pc[i] = "bornVote" \/ (pc[i] \in InLoop /\ ~Unreleased(i))
Alive(i) == pc[i] \notin {"dead", "failed"}

\* Once processes have all reached the barrier: one that has died may have reached it
\* before, but none that lives is still on its way when the action runs.
NobodyLeftBehind ==
  \A i \in Slots : AtAction(i) =>
    \A j \in Slots : Alive(j) => /\ pc[j] \in InLoop
                                /\ local[j].call = local[i].call
                                /\ local[j].phase = local[i].phase

\* The barrier that follows that of phase ph of call c, and the first one that
\* process i has not been let through.
After(c, ph) ==
  IF ph = "check" /\ Program[c] # "local" THEN <<c, "master">>
  ELSE IF ph = "master" /\ Program[c] = "stdio" THEN <<c, "exitState">>
  ELSE <<c + 1, "check">>
Through(i) == Leaving(i) \/ pc[i] \in {"past", "copied"}
NextBarrier(i) ==
  IF Through(i) THEN After(local[i].call, local[i].phase)
                ELSE <<local[i].call, local[i].phase>>

\* Processes go from barrier to barrier together: "once processes have all reached
\* the barrier" they are let out of it together, and no replacement, failed
\* action or death puts one of them a barrier ahead of another.
Lockstep == \A i, j \in Slots : Alive(i) /\ Alive(j) => NextBarrier(i) = NextBarrier(j)

\* Nobody sleeps on after its barrier has been opened: no signal gets lost
\* between a process's look at the exit condition and its wait.
NobodyLeftAsleep == \A i \in Slots : pc[i] = "wait" => Unreleased(i)

\* When all processes are in the barrier and none has the lock, one of them at
\* least is on its way to run the action: the barrier need not wait for a timer.
SomebodyOpens ==
  (lock = Nobody /\ \A i \in Slots : pc[i] \in InLoop /\ Unreleased(i))
    => \E i \in Slots : pc[i] \in {"woken", "timeout"}

\* A live process that has been born owns its slot: the test for a wrong pid at
\* the top of plr_waitBarrier never lets a call slip through unchecked, and the
\* assertions on insidePLR in plr_setInsidePLR and plr_clearInsidePLR hold,
\* for replacements forked anywhere inside a wrapper too.
SlotInStep ==
  \A i \in Slots :
    pc[i] \notin Stopped \cup {"bornInit", "bornVote", "bornDog"} =>
      allProcShm[i].pid = 1 /\ (allProcShm[i].insidePLR <=> pc[i] # "app")

\* A process comes out of a call with the result of that call, whether it
\* performed it, copied it out of shared memory, or was forked on the way.
ResultIsOwn == \A i \in Slots : pc[i] = "copied" => local[i].ret = local[i].call

\* No process gives up on the group while the faults stay within what PLR
\* tolerates.
NobodyGivesUp == \A i \in Slots : pc[i] # "failed"

\* Only a process that has suffered a fault is ever killed and replaced.
OnlyFaultyReplaced ==
  [][ \A i \in Slots :
        pc[i] \notin {"bornVote", "bornDog"} /\ pc'[i] \in {"bornVote", "bornDog"}
          => i \in Faulty ]_vars

\* plr_replaceProcessIdx kills "the process at the given index": no step makes an
\* end of two processes.
ReplacesOneProcess ==
  [][ \A i, j \in Slots :
        /\ pc[i] # "dead" /\ pc'[i] = "dead"
        /\ pc[j] # "dead" /\ pc'[j] = "dead"
        => i = j ]_vars

\* "'nProc' good processes will always exit" a check, "even if a faulted process
\* enters": every slot gets past every call that another call follows, by its
\* first process or a replacement.
EverybodyExits ==
  \A c \in 1 .. Len(Program) - 1 : <>(\A i \in Slots : local[i].call > c)

\* The program ends, in every process that no fault has hit since the last call.
GroupFinishes == <>[](\A i \in Slots : pc[i] = "done" \/ i \in Faulty)

\* Effects happen in program order and never twice.
EffectsInOrder == \A k, l \in DOMAIN log : k < l => log[k].call < log[l].call

\* To the outside the group is one fault-free process.
Virtual == INSTANCE VirtualProcess
             WITH Replicas <- Slots, out <- log,
                  returned <- [i \in Slots |-> local[i].call - 1]
ActsAsOne == Virtual!VSpec
=============================================================================
