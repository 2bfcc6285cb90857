----------------------------- MODULE FaultInject -----------------------------
(***************************************************************************)
(* A group run under the fault injection tool (pinFaultInject.cpp). Pin    *)
(* calls the tool before each trace or instruction of the program; there   *)
(* it decides, over counters in the group's shared memory, whether to end  *)
(* the process or flip a bit in it. A process in the tool does not go on   *)
(* with the program. The group is PlrGroup's; the tool supplies its faults.*)
(***************************************************************************)
EXTENDS PlrGroup

CONSTANT Targets   \* the event counts the tool draws

ASSUME TargetsAssumption == Targets \subseteq Nat

VARIABLES
  tool,  \* the tool's part of plrData_t, for each shared memory
  tpc    \* where each process is in the tool

vars == <<groupVars, tool, tpc>>

\* first: to make the initial call of updateNextProcToFault. suspect: a fault was
\* injected, to take toolLock. locked, update: has it. decide, inject: without.
ToolPCs == {"idle", "first", "suspect", "locked", "update", "decide", "inject"}

ToolInit ==
  /\ Init
  /\ tool = [m \in Figureheads |->
               [toolLock |-> 0, faultInjected |-> FALSE, nextFaultIdx |-> 0,
                nextFaultPid |-> 0, eventCount |-> 0, targetCount |-> 0]]
  /\ tpc = [p \in Pids |-> "idle"]

Mode(m) == IF m \in DOMAIN env.opts THEN env.opts[m].pintoolMode ELSE "off"

-----------------------------------------------------------------------------
(* Choosing the process to hit.                                            *)

\* Mutant: the flag keeps its value.
StillInjected(t, pid, idx) == [t EXCEPT !.nextFaultPid = pid, !.nextFaultIdx = idx]

\* Mutant: pid and index change places.
TargetingSwapped(t, pid, idx) ==
  [t EXCEPT !.nextFaultPid = idx, !.nextFaultIdx = pid, !.faultInjected = FALSE]

Targeting(t, pid, idx) ==
  [t EXCEPT !.nextFaultPid = pid, !.nextFaultIdx = idx, !.faultInjected = FALSE]

\* The slot drawn must have an owner, and not the process hit last.
Drawn(m, idx) ==
  LET nextPid == shm[m].procs[idx].pid
  IN IF nextPid \notin {0, tool[m].nextFaultPid} THEN Targeting(tool[m], nextPid, idx)
     ELSE tool[m]

\* Mutant: a choice is made in the later calls only.
Repeated(m, initialCall) == ~initialCall

\* Whether updateNextProcToFault chooses.
Chooses(m, initialCall) == tool[m].nextFaultPid = 0 \/ ~initialCall

\* updateNextProcToFault with toolLock held, until it is released.
updateNextProcToFault(m, initialCall) ==
  \E t \in IF Chooses(m, initialCall) THEN {Drawn(m, idx) : idx \in Slots(m)} ELSE {tool[m]},
     n \in Targets :
    tool' = [tool EXCEPT ![m] = [t EXCEPT !.eventCount = 0, !.targetCount = n, !.toolLock = 0]]

Goto(p, where) == tpc' = [tpc EXCEPT ![p] = where]

\* Inserted after plr_processInit: each process of the group comes here once.
InitialCall(p) ==
  /\ tpc[p] = "first" /\ tool[proc[p].fig].toolLock = 0
  /\ updateNextProcToFault(proc[p].fig, TRUE)
  /\ Goto(p, "idle")
  /\ UNCHANGED groupVars

-----------------------------------------------------------------------------
(* shouldInjectFault, and what follows.                                    *)

\* Code that Pin runs: of the program and of the libraries, inside of wrappers too.
Instrumented(p) ==
  /\ Alive(p) /\ Mode(proc[p].fig) # "off"
  /\ proc[p].pc \in {"app", "plr"} \/ (proc[p].pc = "image" /\ proc[p].slot # NoSlot)

\* Only the process to be hit counts, and only outside of the wrappers.
Counts(p) ==
  LET m == proc[p].fig
  IN tool[m].nextFaultPid = p /\ ~shm[m].procs[proc[p].slot].insidePLR

\* A trace or an instruction is next. faultInjected is read without the lock.
\* A call that would find neither a fault injected nor this process the one to be
\* hit has no effect and is not a step.
Event(p) ==
  /\ tpc[p] = "idle" /\ Instrumented(p)
  /\ \/ tool[proc[p].fig].faultInjected /\ Goto(p, "suspect")
     \/ ~tool[proc[p].fig].faultInjected /\ Counts(p) /\ Goto(p, "decide")
  /\ UNCHANGED <<groupVars, tool>>

TakeToolLock(p) ==
  /\ tpc[p] = "suspect" /\ tool[proc[p].fig].toolLock = 0
  /\ tool' = [tool EXCEPT ![proc[p].fig].toolLock = p]
  /\ Goto(p, "locked")
  /\ UNCHANGED groupVars

\* Mutant: the process hit is not looked for.
AlwaysReplaced(m) == TRUE

\* The process hit last is no longer in its slot.
VictimReplaced(m) == shm[m].procs[tool[m].nextFaultIdx].pid # tool[m].nextFaultPid

CheckVictim(p) ==
  LET m == proc[p].fig
  IN /\ tpc[p] = "locked"
     /\ IF VictimReplaced(m)
          THEN Goto(p, "update") /\ UNCHANGED tool
          ELSE Goto(p, "decide") /\ tool' = [tool EXCEPT ![m].toolLock = 0]
     /\ UNCHANGED groupVars

Update(p) ==
  /\ tpc[p] = "update"
  /\ updateNextProcToFault(proc[p].fig, FALSE)
  /\ Goto(p, "decide")
  /\ UNCHANGED groupVars

Decide(p) ==
  LET m == proc[p].fig
      t == tool[m]
  IN /\ tpc[p] = "decide"
     /\ IF Counts(p)
          THEN /\ tool' = [tool EXCEPT ![m].eventCount = @ + 1]
               /\ Goto(p, IF t.targetCount > 0 /\ t.eventCount + 1 >= t.targetCount
                            THEN "inject" ELSE "idle")
          ELSE Goto(p, "idle") /\ UNCHANGED tool
     /\ UNCHANGED groupVars

\* injectFault_trace: the process ends.
InjectTrace(p) ==
  LET m == proc[p].fig
  IN /\ tpc[p] = "inject" /\ Mode(m) = "trace"
     /\ tool' = [tool EXCEPT ![m].faultInjected = TRUE]
     /\ proc' = Without(proc, p, "dead")
     /\ Goto(p, "idle")
     /\ UNCHANGED <<env, file, fig, pipe, shm>>

\* injectFault_ins: a bit of a register is flipped, and the next such event drawn.
InjectIns(p) ==
  LET m == proc[p].fig
  IN /\ tpc[p] = "inject" /\ Mode(m) = "ins"
     /\ \E n \in Targets :
          tool' = [tool EXCEPT ![m].faultInjected = TRUE, ![m].eventCount = 0,
                               ![m].targetCount = n]
     /\ proc' = [proc EXCEPT ![p].faulty = TRUE]
     /\ Goto(p, "idle")
     /\ UNCHANGED <<env, file, fig, pipe, shm>>

\* The flipped bit makes the process crash.
DieOfFault(p) ==
  /\ tpc[p] = "idle" /\ Alive(p) /\ proc[p].faulty
  /\ proc' = Without(proc, p, "dead")
  /\ UNCHANGED <<env, file, fig, pipe, shm, tool, tpc>>

-----------------------------------------------------------------------------
(* The tool and the group together.                                        *)

\* After a step of process p: one that is killed leaves the tool where it was, and
\* toolLock locked if it held it; the program's plr_processInit ends in the tool.
ToolFollows(p) ==
  /\ tpc' = [q \in Pids |->
               IF proc'[q].pc \in Ended THEN "idle"
               ELSE IF q = p /\ Instrumented(p) /\ proc[p].pc = "image" THEN "first"
               ELSE tpc[q]]
  /\ UNCHANGED tool

ProgramRuns(p) == tpc[p] = "idle" /\ ProcessRuns(p) /\ ToolFollows(p)

ToolRuns(p) ==
  \/ InitialCall(p) \/ TakeToolLock(p) \/ CheckVictim(p) \/ Update(p) \/ Decide(p)
  \/ InjectTrace(p) \/ InjectIns(p)

ToolNext ==
  \/ \E f \in Figureheads :
       (FigureheadRuns(f) \/ KillFigurehead(f)) /\ UNCHANGED <<tool, tpc>>
  \/ \E p \in Pids : \/ ProgramRuns(p) \/ ToolRuns(p) \/ Event(p) \/ DieOfFault(p)
                     \/ Fault(p) /\ ToolFollows(p)

ToolSpec == ToolInit /\ [][ToolNext]_vars

\* The figureheads run, processes start up, and the tool's calls return. Barriers
\* open (what PlrBarrier has EverybodyExits for), also to the process to be hit. A
\* stay in the program, however short, runs at least one trace. The slot drawn is
\* not for ever one that does not count.
Leaves(p) == tpc[p] = "idle" /\ LeavePLR(p) /\ ToolFollows(p)
ToolFairness ==
  /\ \A f \in Figureheads : WF_vars(FigureheadRuns(f) /\ UNCHANGED <<tool, tpc>>)
  /\ WF_vars(\E p \in Pids : tpc[p] = "idle" /\ StartsUp(p) /\ ToolFollows(p))
  /\ WF_vars(\E p \in Pids : ToolRuns(p))
  /\ WF_vars(\E p \in Pids : Leaves(p))
  /\ WF_vars(\E p \in Pids : Leaves(p) /\ tool[proc[p].fig].nextFaultPid = p)
  /\ SF_vars(\E p \in Pids : Event(p) /\ proc[p].pc = "app")
  /\ SF_vars(\E p \in Pids : Update(p) /\ ~tool'[proc[p].fig].faultInjected)

ToolFairSpec == ToolSpec /\ ToolFairness

-----------------------------------------------------------------------------
(* Properties.                                                             *)

\* Types of the group and of the tool.
TypeOK ==
  /\ GroupTypeOK
  /\ tool \in [Figureheads ->
                 [toolLock : 0 .. MaxPid, faultInjected : BOOLEAN,
                  nextFaultIdx : Nat, nextFaultPid : 0 .. MaxPid,
                  eventCount : Nat, targetCount : Nat]]
  /\ \A m \in Figureheads : tool[m].nextFaultIdx \in Slots(m) \cup {0}
  /\ tpc \in [Pids -> ToolPCs]

\* The tool keeps within what the vote and the watchdog can repair: no second
\* process is hit before the one hit last has been replaced
\* (pinFaultInject.cpp:76-84), although the counters and the slots are read
\* without a common lock. Scenarios with other faults are not meant.
OneFaultyAtATime ==
  \A m \in Figureheads : Mode(m) # "off" =>
    Cardinality({s \in Slots(m) :
                   LET v == shm[m].procs[s].pid
                   IN v # 0 /\ (proc[v].pc = "dead" \/ proc[v].faulty)}) <= 1

EndedAs(m, how) == \E p \in Pids : proc[p].fig = m /\ proc[p].pc = how

\* A group started under the tool gets hit, unless its program ends first: the
\* initial choices of processes that start at their own pace leave one chosen
\* (pinFaultInject.cpp:51-61, 86-107).
SomebodyIsHit ==
  \A m \in Figureheads :
    shm[m].didProcessInit /\ Mode(m) # "off" ~> tool[m].faultInjected \/ EndedAs(m, "done")

\* When the process hit has been replaced, the tool turns to another
\* (pinFaultInject.cpp:76-84). In trace mode: in instruction mode a faulty
\* process may be killed with toolLock in hand.
NextVictimChosen ==
  \A m \in Figureheads :
    Mode(m) = "trace" /\ tool[m].faultInjected /\ VictimReplaced(m)
      ~> ~tool[m].faultInjected \/ EndedAs(m, "done")
=============================================================================
