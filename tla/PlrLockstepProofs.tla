-------------------------- MODULE PlrLockstepProofs --------------------------
(***************************************************************************)
(* Theorems about the barrier of a group whose timers are patient. The     *)
(* first part: the processes go from barrier to barrier together, whatever *)
(* faults hit how many of them, and even if the I/O fails.                 *)
(***************************************************************************)
EXTENDS PlrBarrierProofs

USE NProcAssumption, ProgramAssumption, FaultsAssumption, FlagsAssumption

\* No watchdog overtakes a process that can still move.
PatientTimers == ~EagerTimer

\* A process dies before it is counted in, after it has been counted out, or with
\* the lock in hand; not while it waits in the barrier for the others.
DiesAwake ==
  CrashPoints \cap (Slots \X {"wait", "woken", "timeout", "bornVote"} \X Phases) = {}

-----------------------------------------------------------------------------
(* The inductive invariant.                                                *)

\* Everybody is held in the current barrier.
AllHeld == \A i \in Slots : Held(i)

\* The phase tells how far a process outside the barriers has got.
PhaseInv ==
  \A i \in Slots : /\ pc[i] = "copied" => local[i].phase = "master"
                   /\ pc[i] \in {"app", "bornInit", "done"} => local[i].phase = "check"

\* Those held are under the current index, those leaving under the other one; the
\* slot of a process on its way into the loop is taken for one that waits, and
\* the index it will be counted under is that of the barrier its parent is in.
IndexAt(i) ==
  /\ Held(i) \/ pc[i] = "bornDog" => local[i].waitIdx = curWaitIdx
  /\ Leaving(i) => local[i].waitIdx = 1 - curWaitIdx
  /\ pc[i] = "bornDog" => Unreleased(i) /\ local[i].dogIdx = curWaitIdx
IndexInv == \A i \in Slots : IndexAt(i)

\* A process whose timer is over, or the copy of one. By then everybody else has
\* arrived, or never will.
Overdue(i) ==
  pc[i] = "bornDog" \/ (Held(i) /\ (pc[i] = "timeout" \/ local[i].watchdogExpired))
Accounted(j) == pc[j] \in Stopped \cup {"bornDog"} \/ Held(j)
Settled == (\E i \in Slots : Overdue(i)) => \A j \in Slots : Accounted(j)

\* When everybody is held, somebody is on the way to the top of the loop.
Up(i) == pc[i] \in {"top", "woken", "timeout"}
OnTheWay == AllHeld => \E i \in Slots : Up(i)

\* A slot without an owner is not taken for that of a process that has not arrived.
UnownedAt(i) == allProcShm[i].pid = 0 => pc[i] = "bornVote" \/ Unreleased(i)
UnownedHeld == \A i \in Slots : UnownedAt(i)

\* What holds whatever the timers and the faults do, and the whole.
BaseInv == TypeInv /\ MutexInv /\ SlotInv /\ PhaseInv
GroupInv ==
  /\ BaseInv
  /\ ArrivalsCounted /\ IndexInv /\ NobodyLeftAsleep /\ Settled /\ OnTheWay
  /\ UnownedHeld /\ Lockstep

-----------------------------------------------------------------------------
(* Phases.                                                                 *)

LEMMA PhaseStep == TypeInv /\ MutexInv /\ PhaseInv /\ [Next]_vars => PhaseInv'
<1> SUFFICES ASSUME TypeInv, MutexInv, PhaseInv, [Next]_vars
             PROVE  PhaseInv'
  OBVIOUS
<1>1. ASSUME NEW i \in Slots, BeginCall(i)
      PROVE  PhaseInv'
  <2>1. OnlyMove({i}) /\ pc'[i] = "lock"
    BY <1>1, BeginCallEffect
  <2>. QED
    BY <2>1 DEF PhaseInv, OnlyMove
<1>2. ASSUME NEW i \in Slots, BeginMasterAction(i)
      PROVE  PhaseInv'
  BY <1>2, BeginMasterEffect DEF PhaseInv, OnlyMove
<1>3. ASSUME NEW i \in Slots, CopyResult(i)
      PROVE  PhaseInv'
  BY <1>3, CopyResultEffect DEF PhaseInv, OnlyMove, KeepsPlace
<1>4. ASSUME NEW i \in Slots, BeginExitState(i)
      PROVE  PhaseInv'
  BY <1>4, BeginExitEffect DEF PhaseInv, OnlyMove
<1>5. ASSUME NEW i \in Slots, EndCall(i)
      PROVE  PhaseInv'
  <2>1. OnlyMove({i}) /\ pc'[i] = "app" /\ local'[i].phase = "check"
    BY <1>5, EndCallEffect
  <2>. QED
    BY <2>1 DEF PhaseInv, OnlyMove
<1>6. ASSUME NEW i \in Slots, ExitProgram(i)
      PROVE  PhaseInv'
  BY <1>6, MoveEffect DEF ExitProgram, AtVote, AtAction, AtMasterAct, PhaseInv, Stopped, OnlyMove, Quietly, Signal, TypeInv, TypeOK
<1>7. ASSUME NEW i \in Slots, EnterBarrier(i)
      PROVE  PhaseInv'
  <2>1. \A j \in Slots \ {i} : /\ pc'[j] = pc[j] \/ pc'[j] = "woken"
                               /\ local'[j] = local[j]
    BY <1>7, EnterEffect DEF OnlyMove
  <2>2. pc'[i] = "top"
    BY <1>7, EnterEffect
  <2>. QED
    BY <2>1, <2>2 DEF PhaseInv
<1>8. ASSUME NEW i \in Slots, ArrivalAborts(i)
      PROVE  PhaseInv'
  BY <1>8, MoveEffect DEF ArrivalAborts, AtVote, AtAction, AtMasterAct, PhaseInv, Stopped, OnlyMove, Quietly, Signal, TypeInv, TypeOK
<1>9. ASSUME NEW i \in Slots, LeaveReleased(i)
      PROVE  PhaseInv'
  BY <1>9, MoveEffect DEF LeaveReleased, AtVote, AtAction, AtMasterAct, PhaseInv, Stopped, OnlyMove, Quietly, Signal, TypeInv, TypeOK
<1>10. ASSUME NEW i \in Slots, VoteAgrees(i)
      PROVE  PhaseInv'
  <2>1. Complete(i, pc, allProcShm)
    BY <1>10 DEF VoteAgrees
  <2>2. pc'[i] = "past" /\ \A j \in Slots \ {i} : pc'[j] = pc[j] \/ pc'[j] = "woken"
    BY <2>1, OpenEffect
  <2>3. \A j \in Slots : local'[j].phase = local[j].phase
    BY <1>10 DEF VoteAgrees
  <2>. QED
    BY <2>2, <2>3 DEF PhaseInv
<1>11. ASSUME NEW i \in Slots, VoteNamesSelf(i)
      PROVE  PhaseInv'
  BY <1>11, MoveEffect DEF VoteNamesSelf, AtVote, AtAction, AtMasterAct, PhaseInv, Stopped, OnlyMove, Quietly, Signal, TypeInv, TypeOK
<1>12. ASSUME NEW i \in Slots, VoteReplaces(i)
      PROVE  PhaseInv'
  <2>1. /\ pc'[i] = "past" /\ pc'[Verdict] = "bornVote"
        /\ \A j \in Slots \ {i, Verdict} : (pc'[j] = pc[j] \/ pc'[j] = "woken") /\ local'[j] = local[j]
    BY <1>12, VoteReplacesEffect
  <2>. QED
    BY <2>1 DEF PhaseInv
<1>13. ASSUME NEW i \in Slots, VoteFails(i)
      PROVE  PhaseInv'
  <2>1. OnlyMove({i}) /\ pc'[i] = "failed"
    BY <1>13, ExitEffect DEF VoteFails
  <2>. QED
    BY <2>1 DEF PhaseInv, OnlyMove
<1>14. ASSUME NEW i \in Slots, MasterActs(i)
      PROVE  PhaseInv'
  <2>1. Complete(i, pc, allProcShm)
    BY <1>14 DEF MasterActs
  <2>2. pc'[i] = "past" /\ \A j \in Slots \ {i} : pc'[j] = pc[j] \/ pc'[j] = "woken"
    BY <2>1, OpenEffect
  <2>3. \A j \in Slots : local'[j].phase = local[j].phase
    BY <1>14, MasterActsEffect DEF KeepsPlace
  <2>. QED
    BY <2>2, <2>3 DEF PhaseInv
<1>15. ASSUME NEW i \in Slots, MasterExits(i)
      PROVE  PhaseInv'
  BY <1>15, MoveEffect DEF MasterExits, AtVote, AtAction, AtMasterAct, PhaseInv, Stopped, OnlyMove, Quietly, Signal, TypeInv, TypeOK
<1>16. ASSUME NEW i \in Slots, SummonMaster(i)
      PROVE  PhaseInv'
  BY <1>16, MoveEffect DEF SummonMaster, AtVote, AtAction, AtMasterAct, PhaseInv, Stopped, OnlyMove, Quietly, Signal, TypeInv, TypeOK
<1>17. ASSUME NEW i \in Slots, NotFull(i)
      PROVE  PhaseInv'
  BY <1>17, MoveEffect DEF NotFull, AtVote, AtAction, AtMasterAct, PhaseInv, Stopped, OnlyMove, Quietly, Signal, TypeInv, TypeOK
<1>18. ASSUME NEW i \in Slots, Park(i)
      PROVE  PhaseInv'
  BY <1>18, MoveEffect DEF Park, AtVote, AtAction, AtMasterAct, PhaseInv, Stopped, OnlyMove, Quietly, Signal, TypeInv, TypeOK
<1>19. ASSUME NEW i \in Slots, WatchdogGivesUp(i)
      PROVE  PhaseInv'
  <2>1. OnlyMove({i}) /\ pc'[i] = "failed"
    BY <1>19, ExitEffect DEF WatchdogGivesUp
  <2>. QED
    BY <2>1 DEF PhaseInv, OnlyMove
<1>20. ASSUME NEW i \in Slots, WatchdogReplaces(i)
      PROVE  PhaseInv'
  <2>1. /\ pc'[i] = "top" /\ pc'[Victim] = "bornDog"
        /\ \A j \in Slots \ {i, Victim} : pc'[j] = pc[j] /\ local'[j] = local[j]
    BY <1>20, WatchdogReplacesEffect
  <2>. QED
    BY <2>1 DEF PhaseInv
<1>21. ASSUME NEW i \in Slots, VoteKillsGroup(i)
      PROVE  PhaseInv'
  <2>1. \A j \in Slots : pc'[j] \in {pc[j], "dead"} /\ local'[j] = local[j]
    BY <1>21, KillEffect DEF VoteKillsGroup, Quietly
  <2>. QED
    BY <2>1 DEF PhaseInv
<1>22. ASSUME NEW i \in Slots, WatchdogKillsGroup(i)
      PROVE  PhaseInv'
  <2>1. \A j \in Slots : pc'[j] \in {pc[j], "dead"} /\ local'[j] = local[j]
    BY <1>22, KillEffect DEF WatchdogKillsGroup, Quietly
  <2>. QED
    BY <2>1 DEF PhaseInv
<1>23. ASSUME NEW i \in Slots, Reacquire(i)
      PROVE  PhaseInv'
  <2>1. OnlyMove({i}) /\ pc'[i] = "top"
    BY <1>23, ReacquireEffect
  <2>. QED
    BY <2>1 DEF PhaseInv, OnlyMove
<1>24. ASSUME NEW i \in Slots, BirthInit(i)
      PROVE  PhaseInv'
  BY <1>24, BirthInitEffect DEF PhaseInv, OnlyMove
<1>25. ASSUME NEW i \in Slots, BirthVote(i)
      PROVE  PhaseInv'
  BY <1>25, BirthVoteEffect DEF PhaseInv, OnlyMove
<1>26. ASSUME NEW i \in Slots, BirthDog(i)
      PROVE  PhaseInv'
  BY <1>26, BirthDogEffect DEF PhaseInv, OnlyMove
<1>27. ASSUME NEW i \in Slots, Timeout(i)
      PROVE  PhaseInv'
  BY <1>27, MoveEffect DEF Timeout, AtVote, AtAction, AtMasterAct, PhaseInv, Stopped, OnlyMove, Quietly, Signal, TypeInv, TypeOK
<1>28. ASSUME NEW i \in Slots, SpuriousWakeup(i)
      PROVE  PhaseInv'
  BY <1>28, MoveEffect DEF SpuriousWakeup, AtVote, AtAction, AtMasterAct, PhaseInv, Stopped, OnlyMove, Quietly, Signal, TypeInv, TypeOK
<1>29. ASSUME NEW i \in Slots, Crash(i)
      PROVE  PhaseInv'
  BY <1>29, MoveEffect DEF Crash, AtVote, AtAction, AtMasterAct, PhaseInv, Stopped, OnlyMove, Quietly, Signal, TypeInv, TypeOK
<1>30. ASSUME NEW i \in Slots, Corrupt(i)
      PROVE  PhaseInv'
  BY <1>30, CorruptEffect DEF PhaseInv, OnlyMove
<1>31. CASE UNCHANGED vars
  BY <1>31 DEF vars, PhaseInv
<1>. QED
  BY <1>1, <1>2, <1>3, <1>4, <1>5, <1>6, <1>7, <1>8, <1>9, <1>10, <1>11,
     <1>12, <1>13, <1>14, <1>15, <1>16, <1>17, <1>18, <1>19, <1>20, <1>21,
     <1>22, <1>23, <1>24, <1>25, <1>26, <1>27, <1>28, <1>29, <1>30, <1>31
  DEF Next, Step, Terminated

LEMMA BaseStep == BaseInv /\ [Next]_vars => BaseInv'
BY TypeStep, MutexStep, SlotStep, PhaseStep DEF BaseInv

LEMMA InitBase == Init => BaseInv
<1> SUFFICES ASSUME Init
             PROVE  BaseInv
  OBVIOUS
<1>1. SlotInv
  BY DEF Init, SlotInv, SlotInStep, CopyInStep, Newborn, Stopped, InitProcData, FreeProcData
<1>2. PhaseInv
  BY DEF Init, PhaseInv
<1>. QED
  BY <1>1, <1>2, InitType, InitMutex DEF BaseInv

-----------------------------------------------------------------------------
(* What the invariant says of a full barrier.                              *)

\* When the barrier is full everybody is held in it, at the same place of the
\* program, and all but the process that finds out are waiting or about to look.
LEMMA EverybodyHeld ==
  ASSUME GroupInv, NEW i \in Slots, pc[i] = "top", Unreleased(i), BarrierFull(i)
  PROVE  /\ lock = i /\ local[i].waitIdx = curWaitIdx
         /\ \A j \in Slots : /\ Held(j) /\ Alive(j) /\ allProcShm[j].pid = 1
                             /\ local[j].waitIdx = curWaitIdx
                             /\ local[j].call = local[i].call
                             /\ local[j].phase = local[i].phase
                             /\ j # i => pc[j] \in {"wait", "woken", "timeout"}
<1>1. lock = i
  BY DEF GroupInv, BaseInv, MutexInv, MutexExcludes, Holding
<1>2. local[i].waitIdx = curWaitIdx /\ curWaitIdx \in {0, 1}
  BY DEF GroupInv, BaseInv, IndexInv, IndexAt, Held, InLoop, TypeInv, TypeOK
<1>3. Cardinality(Arrived(curWaitIdx)) = NProc
  BY <1>2 DEF GroupInv, ArrivalsCounted, BarrierFull
<1>4. Arrived(curWaitIdx) = Slots
  <2>1. Arrived(curWaitIdx) \in SUBSET Slots
    BY DEF Arrived, Inside
  <2>. QED
    BY <2>1, <1>3, SlotsCounted
<1>5. ASSUME NEW j \in Slots
      PROVE  Held(j) /\ local[j].waitIdx = curWaitIdx
  <2>1. CASE j = i
    BY <1>2, <2>1 DEF Held, InLoop
  <2>2. CASE j # i
    <3>1. pc[j] \in InLoop \cup {"bornVote"} /\ local[j].waitIdx = curWaitIdx
      BY <1>1, <1>4, <2>2 DEF Arrived, Inside
    <3>2. ~Leaving(j)
      BY <1>2, <3>1 DEF GroupInv, IndexInv, IndexAt
    <3>. QED
      BY <3>1, <3>2 DEF Held, Leaving
  <2>. QED
    BY <2>1, <2>2
<1>6. ASSUME NEW j \in Slots
      PROVE  /\ Alive(j) /\ allProcShm[j].pid = 1
             /\ local[j].call = local[i].call /\ local[j].phase = local[i].phase
             /\ j # i => pc[j] \in {"wait", "woken", "timeout"}
  <2>1. Held(j) /\ Held(i)
    BY <1>5
  <2>2. Alive(i) /\ Alive(j)
    BY <2>1 DEF Alive, Held, InLoop
  <2>3. /\ NextBarrier(i) = <<local[i].call, local[i].phase>>
        /\ NextBarrier(j) = <<local[j].call, local[j].phase>>
    BY <2>1 DEF NextBarrier, Through, Held, Leaving, InLoop
  <2>4. <<local[i].call, local[i].phase>> = <<local[j].call, local[j].phase>>
    BY <2>2, <2>3 DEF GroupInv, Lockstep
  <2>5. allProcShm[j].pid = 1
    BY <2>1 DEF GroupInv, BaseInv, SlotInv, SlotInStep, Held, InLoop, Stopped
  <2>6. j # i => pc[j] \in {"wait", "woken", "timeout"}
    BY <1>1, <2>1 DEF GroupInv, BaseInv, MutexInv, MutexExcludes, Holding, Held, InLoop
  <2>. QED
    BY <2>2, <2>4, <2>5, <2>6
<1>. QED
  BY <1>1, <1>2, <1>5, <1>6

\* The other way round: when everybody is held, whoever looks finds it full.
LEMMA FullWhenHeld ==
  ASSUME GroupInv, AllHeld
  PROVE  \A i \in Slots : BarrierFull(i) /\ local[i].waitIdx = curWaitIdx
<1>1. curWaitIdx \in {0, 1} /\ \A i \in Slots : local[i].waitIdx = curWaitIdx
  BY DEF GroupInv, BaseInv, IndexInv, IndexAt, AllHeld, TypeInv, TypeOK
<1>2. Arrived(curWaitIdx) = Slots
  BY <1>1 DEF Arrived, Inside, AllHeld, Held
<1>. QED
  BY <1>1, <1>2, SlotsCounted DEF GroupInv, ArrivalsCounted, BarrierFull

\* The head of the barrier never aborts: no more arrive than there are.
LEMMA NobodyAborts ==
  ASSUME GroupInv
  PROVE  condWaitCnt[curWaitIdx] <= NProc
<1>1. curWaitIdx \in {0, 1}
  BY DEF GroupInv, BaseInv, TypeInv, TypeOK
<1>2. Arrived(curWaitIdx) \in SUBSET Slots
  BY DEF Arrived, Inside
<1>. QED
  BY <1>1, <1>2, SlotsCounted DEF GroupInv, ArrivalsCounted

\* The process whose timer is over kills one that has stopped already.
LEMMA VictimStopped ==
  ASSUME GroupInv, NEW i \in Slots, AtWatchdog(i), NotWaiting # {}
  PROVE  /\ Overdue(i) /\ lock = i
         /\ Victim \in Slots /\ pc[Victim] \in Stopped /\ ~Unreleased(Victim)
<1>1. Victim \in Slots /\ allProcShm[Victim].waitIdx < 0
  BY VictimMissing DEF NotWaiting
<1>2. ~Unreleased(Victim)
  <2>1. allProcShm[Victim] \in ProcData
    BY <1>1 DEF GroupInv, BaseInv, TypeInv, TypeOK
  <2>. QED
    BY <1>1, <2>1 DEF Unreleased, ProcData
<1>3. Held(i) /\ Overdue(i) /\ lock = i
  BY DEF AtWatchdog, GroupInv, BaseInv, MutexInv, DogHeld, MutexExcludes, Holding, Held, InLoop, Overdue
<1>4. Accounted(Victim)
  BY <1>1, <1>3 DEF GroupInv, Settled
<1>5. pc[Victim] \in Stopped
  BY <1>1, <1>2, <1>4 DEF Accounted, Held, GroupInv, IndexInv, IndexAt
<1>. QED
  BY <1>1, <1>2, <1>3, <1>5

\* The whole group is never killed.
LEMMA GroupNotKilled ==
  ASSUME GroupInv, NEW i \in Slots
  PROVE  ~VoteKillsGroup(i) /\ ~WatchdogKillsGroup(i)
<1>1. ASSUME VoteKillsGroup(i)
      PROVE  FALSE
  <2>1. pc[i] = "top" /\ Unreleased(i) /\ BarrierFull(i) /\ Verdict \in Slots /\ allProcShm[Verdict].pid = 0
    BY <1>1 DEF VoteKillsGroup, AtVote, AtAction, Voters, Slots
  <2>2. allProcShm[Verdict].pid = 1
    BY <2>1, EverybodyHeld
  <2>. QED
    BY <2>1, <2>2
<1>2. ASSUME WatchdogKillsGroup(i)
      PROVE  FALSE
  <2>1. AtWatchdog(i) /\ NotWaiting # {} /\ allProcShm[Victim].pid = 0
    BY <1>2 DEF WatchdogKillsGroup
  <2>2. Victim \in Slots /\ pc[Victim] \in Stopped /\ ~Unreleased(Victim)
    BY <2>1, VictimStopped
  <2>3. UnownedAt(Victim)
    BY <2>2 DEF GroupInv, UnownedHeld
  <2>. QED
    BY <2>1, <2>2, <2>3 DEF UnownedAt, Stopped
<1>. QED
  BY <1>1, <1>2

-----------------------------------------------------------------------------
(* The kinds of step, seen from the barriers.                              *)

\* A process goes on between two barriers.
GoesOn(i) ==
  /\ pc[i] \in {"bornInit", "app", "lock", "past", "copied"}
  /\ pc'[i] \in {"app", "lock", "copied", "done"}
  /\ UNCHANGED <<lock, condWaitCnt>>
  /\ allProcShm'[i].pid = 1
  /\ NextBarrier(i)' = NextBarrier(i)
  /\ local'[i].data = local[i].data \/ Corrupt(i)
  /\ local'[i].call = local[i].call \/ EndCall(i)
  /\ pc'[i] = "copied" =>
       /\ pc[i] = "past" /\ KeepsPlace(i)
       /\ local'[i].ret = IF i = Master THEN local[i].ret ELSE extraShm

\* It arrives, by itself or in place of another.
Joins(i) ==
  /\ pc[i] \in {"lock", "bornDog"} /\ pc'[i] = "top" /\ lock = Nobody /\ lock' = i
  /\ local'[i].waitIdx = curWaitIdx /\ allProcShm'[i].waitIdx = curWaitIdx
  /\ allProcShm'[i].pid = 1
  /\ condWaitCnt' = [condWaitCnt EXCEPT ![curWaitIdx] = @ + 1]
  /\ NextBarrier(i)' = NextBarrier(i)
  /\ local'[i].watchdogExpired => pc[i] = "bornDog"
  /\ KeepsPlace(i)

\* It takes another turn in the loop.
Turns(i) ==
  /\ pc[i] \in InLoop /\ pc'[i] \in InLoop
  /\ allProcShm'[i] = allProcShm[i]
  /\ local'[i].waitIdx = local[i].waitIdx /\ local'[i].ret = local[i].ret
  /\ condWaitCnt' = condWaitCnt
  /\ \A j \in Slots \ {i} : lock' = j <=> lock = j
  /\ NextBarrier(i)' = NextBarrier(i) /\ KeepsPlace(i)
  /\ Overdue(i)' => Overdue(i) \/ Quiet
  /\ pc'[i] = "wait" => Unreleased(i)
  /\ AllHeld => \E j \in Slots : Up(j)'
  /\ AtAction(i) => VoteNamesSelf(i)

\* It leaves the barrier it has been let out of.
Departs(i) ==
  /\ Leaving(i) /\ pc'[i] = "past" /\ lock' = Nobody
  /\ local'[i] = local[i] /\ allProcShm'[i].pid = 1
  /\ \A j \in Slots \ {i} : lock # j
  /\ condWaitCnt' = [condWaitCnt EXCEPT ![local[i].waitIdx] = @ - 1]

\* It dies, or exits: outside the loop or with the lock in hand, or else it has
\* taken back its arrival.
Stops(i) ==
  /\ pc'[i] \in {"dead", "failed"} /\ local' = local /\ UnownedAt(i)'
  /\ pc'[i] = "dead" => Crash(i)
  /\ \/ /\ UNCHANGED <<lock, condWaitCnt>>
        /\ lock = i \/ pc[i] \notin InLoop \cup {"bornVote"}
     \/ /\ pc[i] \in InLoop /\ lock = i /\ lock' = Nobody
        /\ condWaitCnt' = [condWaitCnt EXCEPT ![local[i].waitIdx] = @ - 1]

Solo(i) ==
  /\ OnlyMove({i}) /\ curWaitIdx' = curWaitIdx
  /\ restoring' = restoring \/ pc[i] = "bornDog"
  /\ \/ /\ UNCHANGED <<extraShm, log>>
        /\ GoesOn(i) \/ Joins(i) \/ Turns(i) \/ Departs(i) \/ Stops(i)
     \/ MasterExits(i) /\ Stops(i)

\* The action succeeds: the barrier opens for all.
Opens(i) ==
  /\ VoteAgrees(i) \/ VoteReplaces(i) \/ MasterActs(i)
  /\ AtAction(i) /\ AllHeld
  /\ lock' = Nobody /\ curWaitIdx' = 1 - curWaitIdx
  /\ condWaitCnt' = [condWaitCnt EXCEPT ![curWaitIdx] = @ - 1]
  /\ pc'[i] = "past" /\ \A j \in Slots \ {i} : pc'[j] \in {"woken", "timeout", "bornVote"}
  /\ \A j \in Slots : /\ allProcShm'[j].waitIdx = -1
                      /\ allProcShm'[j].pid = 0 => pc'[j] = "bornVote"
                      /\ local'[j].waitIdx = curWaitIdx
                      /\ local'[j].call = local[i].call /\ local'[j].phase = local[i].phase
  /\ \/ local[i].phase # "master" /\ UNCHANGED <<extraShm, log>>
     \/ MasterActs(i)

\* The watchdog puts a copy of process i in the place of process v.
Restores(i, v) ==
  /\ WatchdogReplaces(i) /\ v = Victim
  /\ pc[i] = "dog" /\ Overdue(i) /\ lock = i
  /\ v # i /\ pc[v] \in Stopped /\ pc'[v] = "bornDog"
  /\ pc'[i] = "top" /\ \A j \in Slots \ {i, v} : pc'[j] = pc[j]
  /\ TakesAfter(v, i) /\ local'[v].dogIdx = curWaitIdx /\ allProcShm'[v].waitIdx = 0
  /\ \A j \in Slots \ {v} : local'[j] = local[j] /\ allProcShm'[j] = allProcShm[j]
  /\ ~restoring /\ restoring'
  /\ UNCHANGED <<lock, curWaitIdx, condWaitCnt, extraShm, log>>

AnyMove ==
  \/ \E i \in Slots : Solo(i)
  \/ \E i \in Slots : Opens(i)
  \/ \E i, v \in Slots : Restores(i, v)
  \/ UNCHANGED vars

\* Every step is of one of these kinds.
LEMMA StepKinds == GroupInv /\ PatientTimers /\ DiesAwake /\ [Next]_vars => AnyMove
<1> SUFFICES ASSUME GroupInv, PatientTimers, DiesAwake, [Next]_vars
             PROVE  AnyMove
  OBVIOUS
<1>0. /\ BaseInv /\ TypeInv /\ MutexInv /\ SlotInv /\ PhaseInv /\ OnTheWay
      /\ IndexInv /\ UnownedHeld
  BY DEF GroupInv, BaseInv
<1>1. ASSUME NEW i \in Slots, BeginCall(i)
      PROVE  AnyMove
  <2>1. /\ OnlyMove({i}) /\ pc[i] = "app" /\ pc'[i] = "lock" /\ allProcShm'[i].pid = allProcShm[i].pid
        /\ local'[i].call = local[i].call /\ local'[i].phase = local[i].phase /\ local'[i].data = local[i].data
    BY <1>0, <1>1, BeginCallEffect
  <2>2. NextBarrier(i)' = NextBarrier(i)
    BY <2>1 DEF NextBarrier, Through, Leaving, InLoop
  <2>3. UNCHANGED <<lock, condWaitCnt, curWaitIdx, extraShm, log, restoring>>
    BY <1>1 DEF BeginCall
  <2>4. allProcShm'[i].pid = 1
    BY <1>0, <1>1, <2>1 DEF SlotInv, SlotInStep, Stopped
  <2>5. GoesOn(i)
    BY <2>1, <2>2, <2>3, <2>4 DEF GoesOn
  <2>. QED
    BY <2>1, <2>3, <2>5 DEF AnyMove, Solo
<1>2. ASSUME NEW i \in Slots, BeginMasterAction(i)
      PROVE  AnyMove
  <2>1. /\ OnlyMove({i}) /\ pc[i] = "past" /\ pc'[i] = "lock" /\ allProcShm'[i].pid = allProcShm[i].pid
        /\ local[i].phase = "check" /\ local'[i].phase = "master"
        /\ Program[local[i].call] # "local" /\ local'[i].call = local[i].call
        /\ local'[i].data = local[i].data
    BY <1>0, <1>2, BeginMasterEffect
  <2>2. NextBarrier(i)' = NextBarrier(i)
    BY <2>1 DEF NextBarrier, Through, Leaving, InLoop, After
  <2>3. UNCHANGED <<lock, condWaitCnt, curWaitIdx, extraShm, log, restoring>>
    BY <1>2 DEF BeginMasterAction
  <2>4. allProcShm'[i].pid = 1
    BY <1>0, <1>2, <2>1 DEF SlotInv, SlotInStep, Stopped
  <2>5. GoesOn(i)
    BY <2>1, <2>2, <2>3, <2>4 DEF GoesOn
  <2>. QED
    BY <2>1, <2>3, <2>5 DEF AnyMove, Solo
<1>3. ASSUME NEW i \in Slots, CopyResult(i)
      PROVE  AnyMove
  <2>1. /\ OnlyMove({i}) /\ pc[i] = "past" /\ pc'[i] = "copied" /\ allProcShm'[i].pid = allProcShm[i].pid
        /\ KeepsPlace(i) /\ local'[i].ret = IF i = Master THEN local[i].ret ELSE extraShm
    BY <1>0, <1>3, CopyResultEffect
  <2>2. NextBarrier(i)' = NextBarrier(i)
    BY <2>1 DEF NextBarrier, Through, KeepsPlace
  <2>3. UNCHANGED <<lock, condWaitCnt, curWaitIdx, extraShm, log, restoring>>
    BY <1>3 DEF CopyResult
  <2>4. allProcShm'[i].pid = 1
    BY <1>0, <1>3, <2>1 DEF SlotInv, SlotInStep, Stopped
  <2>5. GoesOn(i)
    BY <2>1, <2>2, <2>3, <2>4 DEF GoesOn, KeepsPlace
  <2>. QED
    BY <2>1, <2>3, <2>5 DEF AnyMove, Solo
<1>4. ASSUME NEW i \in Slots, BeginExitState(i)
      PROVE  AnyMove
  <2>1. /\ OnlyMove({i}) /\ pc[i] = "copied" /\ pc'[i] = "lock" /\ allProcShm'[i].pid = allProcShm[i].pid
        /\ Program[local[i].call] = "stdio" /\ local'[i].phase = "exitState" /\ local'[i].call = local[i].call
        /\ local'[i].data = local[i].data
    BY <1>0, <1>4, BeginExitEffect
  <2>2. NextBarrier(i)' = NextBarrier(i)
    <3>1. local[i].phase = "master"
      BY <1>0, <2>1 DEF PhaseInv
    <3>. QED
      BY <2>1, <3>1 DEF NextBarrier, Through, Leaving, InLoop, After
  <2>3. UNCHANGED <<lock, condWaitCnt, curWaitIdx, extraShm, log, restoring>>
    BY <1>4 DEF BeginExitState
  <2>4. allProcShm'[i].pid = 1
    BY <1>0, <1>4, <2>1 DEF SlotInv, SlotInStep, Stopped
  <2>5. GoesOn(i)
    BY <2>1, <2>2, <2>3, <2>4 DEF GoesOn
  <2>. QED
    BY <2>1, <2>3, <2>5 DEF AnyMove, Solo
<1>5. ASSUME NEW i \in Slots, EndCall(i)
      PROVE  AnyMove
  <2>1. /\ OnlyMove({i}) /\ CallOver(i) /\ pc[i] \in {"past", "copied"} /\ pc'[i] = "app"
        /\ allProcShm'[i].pid = allProcShm[i].pid
        /\ local'[i].call = local[i].call + 1 /\ local'[i].phase = "check" /\ local'[i].data = local[i].data
    BY <1>0, <1>5, EndCallEffect DEF CallOver
  <2>2. NextBarrier(i)' = NextBarrier(i)
    <3>1. pc[i] = "copied" => local[i].phase = "master"
      BY <1>0 DEF PhaseInv
    <3>2. NextBarrier(i)' = <<local[i].call + 1, "check">>
      BY <2>1 DEF NextBarrier, Through, Leaving, InLoop
    <3>3. NextBarrier(i) = <<local[i].call + 1, "check">>
      BY <2>1, <3>1 DEF CallOver, NextBarrier, Through, After
    <3>. QED
      BY <3>2, <3>3
  <2>3. UNCHANGED <<lock, condWaitCnt, curWaitIdx, extraShm, log, restoring>>
    BY <1>5 DEF EndCall
  <2>4. allProcShm'[i].pid = 1
    BY <1>0, <1>5, <2>1 DEF SlotInv, SlotInStep, Stopped
  <2>5. GoesOn(i)
    BY <1>5, <2>1, <2>2, <2>3, <2>4 DEF GoesOn
  <2>. QED
    BY <2>1, <2>3, <2>5 DEF AnyMove, Solo
<1>6. ASSUME NEW i \in Slots, ExitProgram(i)
      PROVE  AnyMove
  <2>1. OnlyMove({i}) /\ Quietly /\ pc[i] = "app" /\ pc'[i] = "done"
    BY <1>0, <1>6, MoveEffect DEF ExitProgram, TypeInv, TypeOK
  <2>2. NextBarrier(i)' = NextBarrier(i)
    BY <2>1 DEF NextBarrier, Through, Leaving, InLoop, Quietly
  <2>3. UNCHANGED <<lock, condWaitCnt, curWaitIdx, extraShm, log, restoring>>
    BY <1>6 DEF ExitProgram
  <2>4. allProcShm'[i].pid = 1
    BY <1>0, <1>6, <2>1 DEF SlotInv, SlotInStep, Stopped, Quietly
  <2>5. GoesOn(i)
    BY <2>1, <2>2, <2>3, <2>4 DEF GoesOn, Quietly
  <2>. QED
    BY <2>1, <2>3, <2>5 DEF AnyMove, Solo
<1>7. ASSUME NEW i \in Slots, EnterBarrier(i)
      PROVE  AnyMove
  <2>1. /\ OnlyMove({i})
        /\ pc[i] = "lock" /\ pc'[i] = "top" /\ lock = Nobody /\ lock' = i
        /\ condWaitCnt' = [condWaitCnt EXCEPT ![curWaitIdx] = @ + 1]
        /\ KeepsSlot(i) /\ allProcShm'[i].waitIdx = curWaitIdx
        /\ local'[i].waitIdx = curWaitIdx /\ local'[i].watchdogExpired = FALSE
        /\ KeepsPlace(i)
    BY <1>0, <1>7, EnterEffect
  <2>2. NextBarrier(i)' = NextBarrier(i)
    <3>1. Unreleased(i)'
      BY <1>0, <2>1 DEF Unreleased, TypeInv, TypeOK
    <3>. QED
      BY <2>1, <3>1 DEF NextBarrier, Through, Leaving, InLoop, KeepsPlace
  <2>3. UNCHANGED <<curWaitIdx, extraShm, log, restoring>>
    BY <1>7 DEF EnterBarrier
  <2>4. Joins(i)
    <3>1. allProcShm'[i].pid = 1
      BY <1>0, <2>1 DEF SlotInv, SlotInStep, Stopped, KeepsSlot
    <3>. QED
      BY <2>1, <2>2, <3>1 DEF Joins
  <2>. QED
    BY <2>1, <2>3, <2>4 DEF AnyMove, Solo
<1>8. ASSUME NEW i \in Slots, ArrivalAborts(i)
      PROVE  AnyMove
  BY <1>0, <1>8, NobodyAborts DEF ArrivalAborts, TypeInv, TypeOK
<1>9. ASSUME NEW i \in Slots, LeaveReleased(i)
      PROVE  AnyMove
  <2>1. OnlyMove({i}) /\ Quietly /\ pc[i] = "top" /\ ~Unreleased(i) /\ pc'[i] = "past"
    BY <1>0, <1>9, MoveEffect DEF LeaveReleased, TypeInv, TypeOK
  <2>2. UNCHANGED <<curWaitIdx, extraShm, log, restoring>>
    BY <1>9 DEF LeaveReleased
  <2>3. lock = i /\ allProcShm'[i].pid = 1
    BY <1>0, <2>1 DEF MutexInv, MutexExcludes, Holding, SlotInv, SlotInStep, Stopped, Quietly
  <2>4. Departs(i)
    BY <1>9, <2>1, <2>3 DEF LeaveReleased, Departs, Leaving, InLoop, Quietly
  <2>. QED
    BY <2>1, <2>2, <2>4 DEF AnyMove, Solo
<1>10. ASSUME NEW i \in Slots, VoteAgrees(i)
      PROVE  AnyMove
  <2>1. pc[i] = "top" /\ Unreleased(i) /\ BarrierFull(i) /\ AtAction(i)
    BY <1>10 DEF VoteAgrees, AtVote, AtMasterAct, AtAction
  <2>2. /\ AllHeld /\ local[i].waitIdx = curWaitIdx
        /\ \A j \in Slots : /\ allProcShm[j].pid = 1 /\ local[j].waitIdx = curWaitIdx
                            /\ local[j].call = local[i].call /\ local[j].phase = local[i].phase
                            /\ j # i => pc[j] \in {"wait", "woken", "timeout"}
    BY <2>1, EverybodyHeld DEF AllHeld
  <2>3. Complete(i, pc, allProcShm)
    BY <1>10 DEF VoteAgrees
  <2>4. /\ lock' = Nobody /\ curWaitIdx' = 1 - curWaitIdx
        /\ condWaitCnt' = [condWaitCnt EXCEPT ![curWaitIdx] = @ - 1]
        /\ pc'[i] = "past"
    BY <1>0, <2>2, <2>3, OpenEffect
  <2>5. \A j \in Slots \ {i} : pc'[j] \in {"woken", "timeout", "bornVote"}
    <3>1. \A j \in Slots \ {i} :
            IF pc[j] = "wait" /\ local[j].waitIdx = local[i].waitIdx
              THEN pc'[j] = "woken" ELSE pc'[j] = pc[j]
      BY <1>0, <2>3, OpenEffect
    <3>. QED
      BY <2>2, <3>1
  <2>6. \A j \in Slots : /\ allProcShm'[j].waitIdx = -1
                         /\ allProcShm'[j].pid = 0 => pc'[j] = "bornVote"
    <3>1. \A j \in Slots : KeepsSlot(j) /\ allProcShm'[j].waitIdx = -1
      BY <1>0, <2>3, OpenEffect
    <3>. QED
      BY <2>2, <3>1 DEF KeepsSlot
  <2>7. /\ \A j \in Slots : /\ local'[j].waitIdx = curWaitIdx
                            /\ local'[j].call = local[i].call /\ local'[j].phase = local[i].phase
        /\ (local[i].phase # "master" /\ UNCHANGED <<extraShm, log>>) \/ MasterActs(i)
    BY <1>10, <2>2 DEF VoteAgrees, AtVote
  <2>8. Opens(i)
    BY <1>10, <2>1, <2>2, <2>3, <2>4, <2>5, <2>6, <2>7 DEF Opens
  <2>. QED
    BY <2>8 DEF AnyMove
<1>11. ASSUME NEW i \in Slots, VoteNamesSelf(i)
      PROVE  AnyMove
  <2>1. OnlyMove({i}) /\ Quietly /\ pc[i] = "top" /\ pc'[i] = "dog"
    BY <1>0, <1>11, MoveEffect DEF VoteNamesSelf, AtVote, AtAction, Signal, InLoop, TypeInv, TypeOK
  <2>2. UNCHANGED <<curWaitIdx, condWaitCnt, extraShm, log, restoring>>
    BY <1>11 DEF VoteNamesSelf
  <2>3. \A j \in Slots \ {i} : lock' = j <=> lock = j
    BY <1>0, <1>11, <2>1 DEF VoteNamesSelf, MutexInv, MutexExcludes, Holding, Nobody, Slots
  <2>4. /\ allProcShm'[i] = allProcShm[i] /\ KeepsPlace(i)
        /\ local'[i].waitIdx = local[i].waitIdx /\ local'[i].ret = local[i].ret
    BY <1>11, <2>1 DEF Quietly, KeepsPlace
  <2>5. NextBarrier(i)' = NextBarrier(i)
    BY <2>1, <2>4 DEF NextBarrier, Through, Leaving, InLoop, Unreleased, KeepsPlace
  <2>6. Overdue(i)' => Overdue(i) \/ Quiet
    BY <1>11, <2>1, <2>4 DEF VoteNamesSelf, Overdue, Held, InLoop, Unreleased, Quietly, PatientTimers
  <2>7. pc'[i] = "wait" => Unreleased(i)
    BY <1>0, <2>1 DEF MutexInv, DogHeld
  <2>8. AllHeld => \E j \in Slots : Up(j)'
    <3>1. HAVE AllHeld
    <3>2. NextInLine(i) \in Slots \ {i} /\ pc' = [Signal(pc, {NextInLine(i)}, local[i].waitIdx) EXCEPT ![i] = "dog"]
      BY <1>11 DEF VoteNamesSelf, AtVote, NextInLine, Slots
    <3>3. lock = i /\ Held(NextInLine(i)) /\ local[NextInLine(i)].waitIdx = local[i].waitIdx
      BY <1>0, <1>11, <3>1, <3>2, FullWhenHeld DEF AllHeld, VoteNamesSelf, AtVote, AtAction, MutexInv, MutexExcludes, Holding
    <3>4. pc[NextInLine(i)] \in {"wait", "woken", "timeout"}
      BY <1>0, <3>2, <3>3 DEF Held, InLoop, MutexInv, MutexExcludes, Holding
    <3>5. pc'[NextInLine(i)] \in {"woken", "timeout"}
      BY <1>0, <3>2, <3>3, <3>4, NudgeEffect
    <3>. QED
      BY <3>2, <3>5 DEF Up
  <2>9. Turns(i)
    BY <1>11, <2>1, <2>2, <2>3, <2>4, <2>5, <2>6, <2>7, <2>8 DEF Turns, InLoop, AtAction
  <2>. QED
    BY <2>1, <2>2, <2>9 DEF AnyMove, Solo
<1>12. ASSUME NEW i \in Slots, VoteReplaces(i)
      PROVE  AnyMove
  <2>1. pc[i] = "top" /\ Unreleased(i) /\ BarrierFull(i) /\ AtAction(i)
    BY <1>12 DEF VoteReplaces, AtVote, AtMasterAct, AtAction
  <2>2. /\ AllHeld /\ local[i].waitIdx = curWaitIdx
        /\ \A j \in Slots : /\ allProcShm[j].pid = 1 /\ local[j].waitIdx = curWaitIdx
                            /\ local[j].call = local[i].call /\ local[j].phase = local[i].phase
                            /\ j # i => pc[j] \in {"wait", "woken", "timeout"}
    BY <2>1, EverybodyHeld DEF AllHeld
  <2>3. Verdict \in Slots \ {i}
    BY <1>0, <1>12, VoteReplacesEffect
  <2>4. /\ lock' = Nobody /\ curWaitIdx' = 1 - curWaitIdx
        /\ condWaitCnt' = [condWaitCnt EXCEPT ![curWaitIdx] = @ - 1]
        /\ pc'[i] = "past"
    BY <1>0, <1>12, <2>2, VoteReplacesEffect
  <2>5. \A j \in Slots \ {i} : pc'[j] \in {"woken", "timeout", "bornVote"}
    <3>1. /\ pc'[Verdict] = "bornVote"
          /\ \A j \in Slots \ {i, Verdict} :
               IF pc[j] = "wait" /\ local[j].waitIdx = local[i].waitIdx
                 THEN pc'[j] = "woken" ELSE pc'[j] = pc[j]
      BY <1>0, <1>12, VoteReplacesEffect
    <3>. QED
      BY <2>2, <3>1
  <2>6. \A j \in Slots : /\ allProcShm'[j].waitIdx = -1
                         /\ allProcShm'[j].pid = 0 => pc'[j] = "bornVote"
    <3>1. \A j \in Slots : allProcShm'[j].waitIdx = -1
      BY <1>0, <1>12, VoteReplacesEffect
    <3>2. pc'[Verdict] = "bornVote" /\ \A j \in Slots \ {Verdict} : KeepsSlot(j)
      BY <1>0, <1>12, VoteReplacesEffect
    <3>. QED
      BY <2>2, <2>3, <3>1, <3>2 DEF KeepsSlot
  <2>7. /\ \A j \in Slots : /\ local'[j].waitIdx = curWaitIdx
                            /\ local'[j].call = local[i].call /\ local'[j].phase = local[i].phase
        /\ (local[i].phase # "master" /\ UNCHANGED <<extraShm, log>>) \/ MasterActs(i)
    <3>1. local'[Verdict] = local[i] /\ \A j \in Slots \ {Verdict} : local'[j] = local[j]
      BY <1>0, <1>12, VoteReplacesEffect
    <3>2. local[i].phase # "master" /\ UNCHANGED <<extraShm, log>>
      BY <1>12 DEF VoteReplaces, AtVote
    <3>. QED
      BY <2>2, <2>3, <3>1, <3>2
  <2>8. Opens(i)
    BY <1>12, <2>1, <2>2, <2>3, <2>4, <2>5, <2>6, <2>7 DEF Opens
  <2>. QED
    BY <2>8 DEF AnyMove
<1>13. ASSUME NEW i \in Slots, VoteFails(i)
      PROVE  AnyMove
  <2>1. ExitWithError(i) /\ pc[i] \in {"top", "dog"}
    BY <1>13 DEF VoteFails, AtVote, AtAction, AtWatchdog
  <2>2. OnlyMove({i}) /\ pc'[i] = "failed" /\ lock' = Nobody /\ local' = local /\ KeepsSlot(i)
    BY <1>0, <2>1, ExitEffect
  <2>3. UNCHANGED <<curWaitIdx, extraShm, log, restoring>>
    BY <2>1 DEF ExitWithError
  <2>4. lock = i /\ allProcShm'[i].pid = 1
    BY <1>0, <2>1, <2>2 DEF MutexInv, MutexExcludes, Holding, SlotInv, SlotInStep, Stopped, KeepsSlot
  <2>5. Stops(i)
    BY <2>1, <2>2, <2>4 DEF ExitWithError, Stops, UnownedAt, InLoop
  <2>. QED
    BY <2>2, <2>3, <2>5 DEF AnyMove, Solo
<1>14. ASSUME NEW i \in Slots, MasterActs(i)
      PROVE  AnyMove
  <2>1. pc[i] = "top" /\ Unreleased(i) /\ BarrierFull(i) /\ AtAction(i)
    BY <1>14 DEF MasterActs, AtVote, AtMasterAct, AtAction
  <2>2. /\ AllHeld /\ local[i].waitIdx = curWaitIdx
        /\ \A j \in Slots : /\ allProcShm[j].pid = 1 /\ local[j].waitIdx = curWaitIdx
                            /\ local[j].call = local[i].call /\ local[j].phase = local[i].phase
                            /\ j # i => pc[j] \in {"wait", "woken", "timeout"}
    BY <2>1, EverybodyHeld DEF AllHeld
  <2>3. Complete(i, pc, allProcShm)
    BY <1>14 DEF MasterActs
  <2>4. /\ lock' = Nobody /\ curWaitIdx' = 1 - curWaitIdx
        /\ condWaitCnt' = [condWaitCnt EXCEPT ![curWaitIdx] = @ - 1]
        /\ pc'[i] = "past"
    BY <1>0, <2>2, <2>3, OpenEffect
  <2>5. \A j \in Slots \ {i} : pc'[j] \in {"woken", "timeout", "bornVote"}
    <3>1. \A j \in Slots \ {i} :
            IF pc[j] = "wait" /\ local[j].waitIdx = local[i].waitIdx
              THEN pc'[j] = "woken" ELSE pc'[j] = pc[j]
      BY <1>0, <2>3, OpenEffect
    <3>. QED
      BY <2>2, <3>1
  <2>6. \A j \in Slots : /\ allProcShm'[j].waitIdx = -1
                         /\ allProcShm'[j].pid = 0 => pc'[j] = "bornVote"
    <3>1. \A j \in Slots : KeepsSlot(j) /\ allProcShm'[j].waitIdx = -1
      BY <1>0, <2>3, OpenEffect
    <3>. QED
      BY <2>2, <3>1 DEF KeepsSlot
  <2>7. /\ \A j \in Slots : /\ local'[j].waitIdx = curWaitIdx
                            /\ local'[j].call = local[i].call /\ local'[j].phase = local[i].phase
        /\ (local[i].phase # "master" /\ UNCHANGED <<extraShm, log>>) \/ MasterActs(i)
    BY <1>0, <1>14, <2>2, MasterActsEffect DEF KeepsPlace
  <2>8. Opens(i)
    BY <1>14, <2>1, <2>2, <2>3, <2>4, <2>5, <2>6, <2>7 DEF Opens
  <2>. QED
    BY <2>8 DEF AnyMove
<1>15. ASSUME NEW i \in Slots, MasterExits(i)
      PROVE  AnyMove
  <2>1. OnlyMove({i}) /\ Quietly /\ pc[i] = "top" /\ pc'[i] = "failed"
    BY <1>0, <1>15, MoveEffect DEF MasterExits, AtMasterAct, AtAction, TypeInv, TypeOK
  <2>2. UNCHANGED <<lock, curWaitIdx, condWaitCnt, restoring>>
    BY <1>15 DEF MasterExits
  <2>3. lock = i /\ allProcShm'[i].pid = 1
    BY <1>0, <2>1 DEF MutexInv, MutexExcludes, Holding, SlotInv, SlotInStep, Stopped, Quietly
  <2>4. Stops(i)
    BY <2>1, <2>2, <2>3 DEF Stops, UnownedAt, Quietly
  <2>. QED
    BY <1>15, <2>1, <2>2, <2>4 DEF AnyMove, Solo
<1>16. ASSUME NEW i \in Slots, SummonMaster(i)
      PROVE  AnyMove
  <2>1. OnlyMove({i}) /\ Quietly /\ pc[i] = "top" /\ pc'[i] = "dog"
    BY <1>0, <1>16, MoveEffect DEF SummonMaster, AtVote, AtAction, Signal, InLoop, TypeInv, TypeOK
  <2>2. UNCHANGED <<curWaitIdx, condWaitCnt, extraShm, log, restoring>>
    BY <1>16 DEF SummonMaster
  <2>3. \A j \in Slots \ {i} : lock' = j <=> lock = j
    BY <1>0, <1>16, <2>1 DEF SummonMaster, MutexInv, MutexExcludes, Holding, Nobody, Slots
  <2>4. /\ allProcShm'[i] = allProcShm[i] /\ KeepsPlace(i)
        /\ local'[i].waitIdx = local[i].waitIdx /\ local'[i].ret = local[i].ret
    BY <1>16, <2>1 DEF Quietly, KeepsPlace
  <2>5. NextBarrier(i)' = NextBarrier(i)
    BY <2>1, <2>4 DEF NextBarrier, Through, Leaving, InLoop, Unreleased, KeepsPlace
  <2>6. Overdue(i)' => Overdue(i) \/ Quiet
    BY <1>16, <2>1, <2>4 DEF SummonMaster, Overdue, Held, InLoop, Unreleased, Quietly, PatientTimers
  <2>7. pc'[i] = "wait" => Unreleased(i)
    BY <1>0, <2>1 DEF MutexInv, DogHeld
  <2>8. AllHeld => \E j \in Slots : Up(j)'
    <3>1. HAVE AllHeld
    <3>2. Master \in Slots \ {i} /\ pc' = [Signal(pc, {Master}, local[i].waitIdx) EXCEPT ![i] = "dog"]
      BY <1>16 DEF SummonMaster, AtVote, RunsAction, Master, Slots
    <3>3. lock = i /\ Held(Master) /\ local[Master].waitIdx = local[i].waitIdx
      BY <1>0, <1>16, <3>1, <3>2, FullWhenHeld DEF AllHeld, SummonMaster, AtVote, AtAction, MutexInv, MutexExcludes, Holding
    <3>4. pc[Master] \in {"wait", "woken", "timeout"}
      BY <1>0, <3>2, <3>3 DEF Held, InLoop, MutexInv, MutexExcludes, Holding
    <3>5. pc'[Master] \in {"woken", "timeout"}
      BY <1>0, <3>2, <3>3, <3>4, NudgeEffect
    <3>. QED
      BY <3>2, <3>5 DEF Up
  <2>9. Turns(i)
    BY <1>16, <2>1, <2>2, <2>3, <2>4, <2>5, <2>6, <2>7, <2>8 DEF Turns, InLoop, AtAction, SummonMaster
  <2>. QED
    BY <2>1, <2>2, <2>9 DEF AnyMove, Solo
<1>17. ASSUME NEW i \in Slots, NotFull(i)
      PROVE  AnyMove
  <2>1. OnlyMove({i}) /\ Quietly /\ pc[i] = "top" /\ pc'[i] = "dog"
    BY <1>0, <1>17, MoveEffect DEF NotFull, AtVote, AtAction, Signal, InLoop, TypeInv, TypeOK
  <2>2. UNCHANGED <<curWaitIdx, condWaitCnt, extraShm, log, restoring>>
    BY <1>17 DEF NotFull
  <2>3. \A j \in Slots \ {i} : lock' = j <=> lock = j
    BY <1>0, <1>17, <2>1 DEF NotFull, MutexInv, MutexExcludes, Holding, Nobody, Slots
  <2>4. /\ allProcShm'[i] = allProcShm[i] /\ KeepsPlace(i)
        /\ local'[i].waitIdx = local[i].waitIdx /\ local'[i].ret = local[i].ret
    BY <1>17, <2>1 DEF Quietly, KeepsPlace
  <2>5. NextBarrier(i)' = NextBarrier(i)
    BY <2>1, <2>4 DEF NextBarrier, Through, Leaving, InLoop, Unreleased, KeepsPlace
  <2>6. Overdue(i)' => Overdue(i) \/ Quiet
    BY <1>17, <2>1, <2>4 DEF NotFull, Overdue, Held, InLoop, Unreleased, Quietly, PatientTimers
  <2>7. pc'[i] = "wait" => Unreleased(i)
    BY <1>0, <2>1 DEF MutexInv, DogHeld
  <2>8. AllHeld => \E j \in Slots : Up(j)'
    BY <1>17, FullWhenHeld DEF NotFull
  <2>9. Turns(i)
    BY <1>17, <2>1, <2>2, <2>3, <2>4, <2>5, <2>6, <2>7, <2>8 DEF Turns, InLoop, AtAction, NotFull
  <2>. QED
    BY <2>1, <2>2, <2>9 DEF AnyMove, Solo
<1>18. ASSUME NEW i \in Slots, Park(i)
      PROVE  AnyMove
  <2>1. OnlyMove({i}) /\ Quietly /\ pc[i] = "dog" /\ pc'[i] = "wait"
    BY <1>0, <1>18, MoveEffect DEF Park, AtVote, AtAction, Signal, InLoop, TypeInv, TypeOK
  <2>2. UNCHANGED <<curWaitIdx, condWaitCnt, extraShm, log, restoring>>
    BY <1>18 DEF Park
  <2>3. \A j \in Slots \ {i} : lock' = j <=> lock = j
    BY <1>0, <1>18, <2>1 DEF Park, MutexInv, MutexExcludes, Holding, Nobody, Slots
  <2>4. /\ allProcShm'[i] = allProcShm[i] /\ KeepsPlace(i)
        /\ local'[i].waitIdx = local[i].waitIdx /\ local'[i].ret = local[i].ret
    BY <1>18, <2>1 DEF Quietly, KeepsPlace
  <2>5. NextBarrier(i)' = NextBarrier(i)
    BY <2>1, <2>4 DEF NextBarrier, Through, Leaving, InLoop, Unreleased, KeepsPlace
  <2>6. Overdue(i)' => Overdue(i) \/ Quiet
    BY <1>18, <2>1, <2>4 DEF Park, Overdue, Held, InLoop, Unreleased, Quietly, PatientTimers
  <2>7. pc'[i] = "wait" => Unreleased(i)
    BY <1>0, <2>1 DEF MutexInv, DogHeld
  <2>8. AllHeld => \E j \in Slots : Up(j)'
    <3>1. HAVE AllHeld
    <3>2. PICK j \in Slots : Up(j)
      BY <1>0, <3>1 DEF OnTheWay
    <3>3. Up(j)'
      BY <2>1, <3>2 DEF Up, OnlyMove
    <3>. QED
      BY <3>3
  <2>9. Turns(i)
    BY <1>18, <2>1, <2>2, <2>3, <2>4, <2>5, <2>6, <2>7, <2>8 DEF Turns, InLoop, AtAction
  <2>. QED
    BY <2>1, <2>2, <2>9 DEF AnyMove, Solo
<1>19. ASSUME NEW i \in Slots, WatchdogGivesUp(i)
      PROVE  AnyMove
  <2>1. ExitWithError(i) /\ pc[i] \in {"top", "dog"}
    BY <1>19 DEF WatchdogGivesUp, AtVote, AtAction, AtWatchdog
  <2>2. OnlyMove({i}) /\ pc'[i] = "failed" /\ lock' = Nobody /\ local' = local /\ KeepsSlot(i)
    BY <1>0, <2>1, ExitEffect
  <2>3. UNCHANGED <<curWaitIdx, extraShm, log, restoring>>
    BY <2>1 DEF ExitWithError
  <2>4. lock = i /\ allProcShm'[i].pid = 1
    BY <1>0, <2>1, <2>2 DEF MutexInv, MutexExcludes, Holding, SlotInv, SlotInStep, Stopped, KeepsSlot
  <2>5. Stops(i)
    BY <2>1, <2>2, <2>4 DEF ExitWithError, Stops, UnownedAt, InLoop
  <2>. QED
    BY <2>2, <2>3, <2>5 DEF AnyMove, Solo
<1>20. ASSUME NEW i \in Slots, WatchdogReplaces(i)
      PROVE  AnyMove
  <2>1. AtWatchdog(i) /\ NotWaiting # {} /\ pc[i] = "dog"
    BY <1>20 DEF WatchdogReplaces, AtWatchdog
  <2>2. Overdue(i) /\ lock = i /\ Victim \in Slots /\ pc[Victim] \in Stopped
    BY <2>1, VictimStopped
  <2>3. /\ Victim # i /\ pc'[i] = "top" /\ pc'[Victim] = "bornDog"
        /\ \A j \in Slots \ {i, Victim} : pc'[j] = pc[j]
    BY <1>0, <1>20, WatchdogReplacesEffect
  <2>4. /\ TakesAfter(Victim, i) /\ local'[Victim].dogIdx = curWaitIdx
        /\ allProcShm'[Victim].waitIdx = 0
        /\ \A j \in Slots \ {Victim} : local'[j] = local[j] /\ allProcShm'[j] = allProcShm[j]
    BY <1>0, <1>20, WatchdogReplacesEffect
  <2>5. UNCHANGED <<lock, curWaitIdx, condWaitCnt, extraShm, log>> /\ ~restoring /\ restoring'
    BY <1>20 DEF WatchdogReplaces, AtWatchdog
  <2>6. Restores(i, Victim)
    BY <1>20, <2>1, <2>2, <2>3, <2>4, <2>5 DEF Restores
  <2>. QED
    BY <2>2, <2>6 DEF AnyMove
<1>21. ASSUME NEW i \in Slots, VoteKillsGroup(i)
      PROVE  AnyMove
  BY <1>21, GroupNotKilled
<1>22. ASSUME NEW i \in Slots, WatchdogKillsGroup(i)
      PROVE  AnyMove
  BY <1>22, GroupNotKilled
<1>23. ASSUME NEW i \in Slots, Reacquire(i)
      PROVE  AnyMove
  <2>1. OnlyMove({i}) /\ pc[i] \in {"woken", "timeout"} /\ pc'[i] = "top"
    BY <1>0, <1>23, ReacquireEffect
  <2>2. UNCHANGED <<curWaitIdx, condWaitCnt, extraShm, log, restoring>>
    BY <1>23 DEF Reacquire
  <2>3. \A j \in Slots \ {i} : lock' = j <=> lock = j
    BY <1>0, <1>23, <2>1 DEF Reacquire, MutexInv, MutexExcludes, Holding, Nobody, Slots
  <2>4. /\ allProcShm'[i] = allProcShm[i] /\ KeepsPlace(i)
        /\ local'[i].waitIdx = local[i].waitIdx /\ local'[i].ret = local[i].ret
    BY <1>0, <1>23, <2>1, ReacquireEffect DEF Quietly, KeepsPlace
  <2>5. NextBarrier(i)' = NextBarrier(i)
    BY <2>1, <2>4 DEF NextBarrier, Through, Leaving, InLoop, Unreleased, KeepsPlace
  <2>6. Overdue(i)' => Overdue(i) \/ Quiet
    BY <1>0, <1>23, <2>1, <2>4, ReacquireEffect DEF Reacquire, Overdue, Held, InLoop, Unreleased, Quietly, PatientTimers
  <2>7. pc'[i] = "wait" => Unreleased(i)
    BY <1>0, <2>1 DEF MutexInv, DogHeld
  <2>8. AllHeld => \E j \in Slots : Up(j)'
    BY <2>1 DEF Up
  <2>9. Turns(i)
    BY <1>23, <2>1, <2>2, <2>3, <2>4, <2>5, <2>6, <2>7, <2>8 DEF Turns, InLoop, AtAction
  <2>. QED
    BY <2>1, <2>2, <2>9 DEF AnyMove, Solo
<1>24. ASSUME NEW i \in Slots, BirthInit(i)
      PROVE  AnyMove
  <2>1. OnlyMove({i}) /\ pc[i] = "bornInit" /\ pc'[i] = "app" /\ local' = local /\ allProcShm'[i].pid = 1
    BY <1>0, <1>24, BirthInitEffect
  <2>2. NextBarrier(i)' = NextBarrier(i)
    BY <2>1 DEF NextBarrier, Through, Leaving, InLoop
  <2>3. UNCHANGED <<lock, condWaitCnt, curWaitIdx, extraShm, log, restoring>>
    BY <1>24 DEF BirthInit
  <2>4. allProcShm'[i].pid = 1
    BY <1>0, <1>24, <2>1 DEF SlotInv, SlotInStep, Stopped
  <2>5. GoesOn(i)
    BY <2>1, <2>2, <2>3, <2>4 DEF GoesOn
  <2>. QED
    BY <2>1, <2>3, <2>5 DEF AnyMove, Solo
<1>25. ASSUME NEW i \in Slots, BirthVote(i)
      PROVE  AnyMove
  <2>1. /\ OnlyMove({i}) /\ pc[i] = "bornVote" /\ pc'[i] = "past" /\ local' = local
        /\ lock = Nobody /\ allProcShm'[i].pid = 1
    BY <1>0, <1>25, BirthVoteEffect
  <2>2. UNCHANGED <<lock, curWaitIdx, extraShm, log, restoring>>
    BY <1>25 DEF BirthVote
  <2>3. \A j \in Slots : lock # j
    BY <2>1 DEF Nobody, Slots
  <2>4. Departs(i)
    BY <1>25, <2>1, <2>2, <2>3 DEF BirthVote, Departs, Leaving
  <2>. QED
    BY <2>1, <2>2, <2>4 DEF AnyMove, Solo
<1>26. ASSUME NEW i \in Slots, BirthDog(i)
      PROVE  AnyMove
  <2>1. /\ OnlyMove({i})
        /\ pc[i] = "bornDog" /\ pc'[i] = "top" /\ lock = Nobody /\ lock' = i
        /\ local' = local /\ allProcShm'[i].pid = 1 /\ allProcShm'[i].waitIdx = curWaitIdx
    BY <1>0, <1>26, BirthDogEffect
  <2>2. NextBarrier(i)' = NextBarrier(i)
    <3>1. Unreleased(i)'
      BY <1>0, <2>1 DEF Unreleased, TypeInv, TypeOK
    <3>. QED
      BY <2>1, <3>1 DEF NextBarrier, Through, Leaving, InLoop
  <2>3. UNCHANGED <<curWaitIdx, extraShm, log>>
    BY <1>26 DEF BirthDog
  <2>4. Joins(i)
    <3>1. local[i].waitIdx = curWaitIdx /\ local[i].dogIdx = curWaitIdx
      BY <1>0, <2>1 DEF IndexInv, IndexAt
    <3>2. condWaitCnt' = [condWaitCnt EXCEPT ![curWaitIdx] = @ + 1]
      BY <1>26, <3>1 DEF BirthDog
    <3>. QED
      BY <2>1, <2>2, <3>1, <3>2 DEF Joins, KeepsPlace
  <2>. QED
    BY <2>1, <2>3, <2>4 DEF AnyMove, Solo
<1>27. ASSUME NEW i \in Slots, Timeout(i)
      PROVE  AnyMove
  <2>1. OnlyMove({i}) /\ Quietly /\ pc[i] = "wait" /\ pc'[i] = "timeout"
    BY <1>0, <1>27, MoveEffect DEF Timeout, AtVote, AtAction, Signal, InLoop, TypeInv, TypeOK
  <2>2. UNCHANGED <<curWaitIdx, condWaitCnt, extraShm, log, restoring>>
    BY <1>27 DEF Timeout
  <2>3. \A j \in Slots \ {i} : lock' = j <=> lock = j
    BY <1>0, <1>27, <2>1 DEF Timeout, MutexInv, MutexExcludes, Holding, Nobody, Slots
  <2>4. /\ allProcShm'[i] = allProcShm[i] /\ KeepsPlace(i)
        /\ local'[i].waitIdx = local[i].waitIdx /\ local'[i].ret = local[i].ret
    BY <1>27, <2>1 DEF Quietly, KeepsPlace
  <2>5. NextBarrier(i)' = NextBarrier(i)
    BY <2>1, <2>4 DEF NextBarrier, Through, Leaving, InLoop, Unreleased, KeepsPlace
  <2>6. Overdue(i)' => Overdue(i) \/ Quiet
    BY <1>27, <2>1, <2>4 DEF Timeout, Overdue, Held, InLoop, Unreleased, Quietly, PatientTimers
  <2>7. pc'[i] = "wait" => Unreleased(i)
    BY <1>0, <2>1 DEF MutexInv, DogHeld
  <2>8. AllHeld => \E j \in Slots : Up(j)'
    BY <2>1 DEF Up
  <2>9. Turns(i)
    BY <1>27, <2>1, <2>2, <2>3, <2>4, <2>5, <2>6, <2>7, <2>8 DEF Turns, InLoop, AtAction
  <2>. QED
    BY <2>1, <2>2, <2>9 DEF AnyMove, Solo
<1>28. ASSUME NEW i \in Slots, SpuriousWakeup(i)
      PROVE  AnyMove
  <2>1. OnlyMove({i}) /\ Quietly /\ pc[i] = "wait" /\ pc'[i] = "woken"
    BY <1>0, <1>28, MoveEffect DEF SpuriousWakeup, AtVote, AtAction, Signal, InLoop, TypeInv, TypeOK
  <2>2. UNCHANGED <<curWaitIdx, condWaitCnt, extraShm, log, restoring>>
    BY <1>28 DEF SpuriousWakeup
  <2>3. \A j \in Slots \ {i} : lock' = j <=> lock = j
    BY <1>0, <1>28, <2>1 DEF SpuriousWakeup, MutexInv, MutexExcludes, Holding, Nobody, Slots
  <2>4. /\ allProcShm'[i] = allProcShm[i] /\ KeepsPlace(i)
        /\ local'[i].waitIdx = local[i].waitIdx /\ local'[i].ret = local[i].ret
    BY <1>28, <2>1 DEF Quietly, KeepsPlace
  <2>5. NextBarrier(i)' = NextBarrier(i)
    BY <2>1, <2>4 DEF NextBarrier, Through, Leaving, InLoop, Unreleased, KeepsPlace
  <2>6. Overdue(i)' => Overdue(i) \/ Quiet
    BY <1>28, <2>1, <2>4 DEF SpuriousWakeup, Overdue, Held, InLoop, Unreleased, Quietly, PatientTimers
  <2>7. pc'[i] = "wait" => Unreleased(i)
    BY <1>0, <2>1 DEF MutexInv, DogHeld
  <2>8. AllHeld => \E j \in Slots : Up(j)'
    BY <2>1 DEF Up
  <2>9. Turns(i)
    BY <1>28, <2>1, <2>2, <2>3, <2>4, <2>5, <2>6, <2>7, <2>8 DEF Turns, InLoop, AtAction
  <2>. QED
    BY <2>1, <2>2, <2>9 DEF AnyMove, Solo
<1>29. ASSUME NEW i \in Slots, Crash(i)
      PROVE  AnyMove
  <2>1. OnlyMove({i}) /\ Quietly /\ pc'[i] = "dead" /\ local' = local
    BY <1>0, <1>29, MoveEffect DEF Crash, Quietly, TypeInv, TypeOK
  <2>2. UNCHANGED <<lock, curWaitIdx, condWaitCnt, extraShm, log, restoring>>
    BY <1>29 DEF Crash
  <2>3. pc[i] \notin {"wait", "woken", "timeout", "bornVote"}
    <3>1. <<i, pc[i], local[i].phase>> \in CrashPoints /\ local[i].phase \in Phases
      BY <1>0, <1>29 DEF Crash, TypeInv, TypeOK, Locals
    <3>. QED
      BY <3>1 DEF DiesAwake
  <2>4. lock = i \/ pc[i] \notin InLoop \cup {"bornVote"}
    BY <1>0, <2>3 DEF InLoop, MutexInv, MutexExcludes, Holding
  <2>5. UnownedAt(i)'
    BY <1>0, <2>1, <2>3 DEF UnownedHeld, UnownedAt, Unreleased, Quietly
  <2>6. Stops(i)
    BY <1>29, <2>1, <2>2, <2>4, <2>5 DEF Stops
  <2>. QED
    BY <2>1, <2>2, <2>6 DEF AnyMove, Solo
<1>30. ASSUME NEW i \in Slots, Corrupt(i)
      PROVE  AnyMove
  <2>1. /\ OnlyMove({i}) /\ pc[i] = "app" /\ pc'[i] = "app" /\ allProcShm' = allProcShm
        /\ local'[i].call = local[i].call /\ local'[i].phase = local[i].phase
    BY <1>0, <1>30, CorruptEffect
  <2>2. NextBarrier(i)' = NextBarrier(i)
    BY <2>1 DEF NextBarrier, Through, Leaving, InLoop
  <2>3. UNCHANGED <<lock, condWaitCnt, curWaitIdx, extraShm, log, restoring>>
    BY <1>30 DEF Corrupt
  <2>4. allProcShm'[i].pid = 1
    BY <1>0, <1>30, <2>1 DEF SlotInv, SlotInStep, Stopped
  <2>5. GoesOn(i)
    BY <1>30, <2>1, <2>2, <2>3, <2>4 DEF GoesOn
  <2>. QED
    BY <2>1, <2>3, <2>5 DEF AnyMove, Solo
<1>31. CASE UNCHANGED vars
  BY <1>31 DEF AnyMove
<1>. QED
  BY <1>1, <1>2, <1>3, <1>4, <1>5, <1>6, <1>7, <1>8, <1>9, <1>10, <1>11,
     <1>12, <1>13, <1>14, <1>15, <1>16, <1>17, <1>18, <1>19, <1>20, <1>21,
     <1>22, <1>23, <1>24, <1>25, <1>26, <1>27, <1>28, <1>29, <1>30, <1>31
  DEF Next, Step, Terminated

-----------------------------------------------------------------------------
(* Each part of the invariant is kept by each kind of step.                *)

\* Counting: nobody, one more, or one fewer in the barrier.
LEMMA SameArrived ==
  ASSUME TypeInv, ArrivalsCounted, condWaitCnt' = condWaitCnt,
         \A x \in {0, 1} : Arrived(x)' = Arrived(x)
  PROVE  ArrivalsCounted'
BY DEF ArrivalsCounted

LEMMA OneArrived ==
  ASSUME TypeInv, ArrivalsCounted, NEW i \in Slots, NEW y \in {0, 1},
         condWaitCnt' = [condWaitCnt EXCEPT ![y] = @ + 1], i \notin Arrived(y),
         \A x \in {0, 1} : Arrived(x)' = IF x = y THEN Arrived(x) \cup {i} ELSE Arrived(x)
  PROVE  ArrivalsCounted'
<1>1. Arrived(y) \in SUBSET Slots
  BY DEF Arrived, Inside
<1>2. Cardinality(Arrived(y) \cup {i}) = Cardinality(Arrived(y)) + 1
  BY <1>1, SlotsCounted, FS_AddElement
<1>3. condWaitCnt'[y] = condWaitCnt[y] + 1 /\ \A x \in {0, 1} \ {y} : condWaitCnt'[x] = condWaitCnt[x]
  BY DEF TypeInv, TypeOK
<1>4. ASSUME NEW x \in {0, 1}
      PROVE  condWaitCnt'[x] = Cardinality(Arrived(x)')
  <2>1. CASE x = y
    BY <1>2, <1>3, <2>1 DEF ArrivalsCounted
  <2>2. CASE x # y
    BY <1>3, <2>2 DEF ArrivalsCounted
  <2>. QED
    BY <2>1, <2>2
<1>. QED
  BY <1>4 DEF ArrivalsCounted

LEMMA OneLeft ==
  ASSUME TypeInv, ArrivalsCounted, NEW i \in Slots, NEW y \in {0, 1},
         condWaitCnt' = [condWaitCnt EXCEPT ![y] = @ - 1], i \in Arrived(y),
         \A x \in {0, 1} : Arrived(x)' = IF x = y THEN Arrived(x) \ {i} ELSE Arrived(x)
  PROVE  ArrivalsCounted'
<1>1. Arrived(y) \in SUBSET Slots
  BY DEF Arrived, Inside
<1>2. Cardinality(Arrived(y) \ {i}) = Cardinality(Arrived(y)) - 1
  BY <1>1, SlotsCounted, FS_RemoveElement
<1>3. condWaitCnt'[y] = condWaitCnt[y] - 1 /\ \A x \in {0, 1} \ {y} : condWaitCnt'[x] = condWaitCnt[x]
  BY DEF TypeInv, TypeOK
<1>4. ASSUME NEW x \in {0, 1}
      PROVE  condWaitCnt'[x] = Cardinality(Arrived(x)')
  <2>1. CASE x = y
    BY <1>2, <1>3, <2>1 DEF ArrivalsCounted
  <2>2. CASE x # y
    BY <1>3, <2>2 DEF ArrivalsCounted
  <2>. QED
    BY <2>1, <2>2
<1>. QED
  BY <1>4 DEF ArrivalsCounted

LEMMA ArrivalsStep ==
  ASSUME GroupInv, BaseInv', AnyMove
  PROVE  ArrivalsCounted'
<1>0. /\ ArrivalsCounted /\ TypeInv /\ MutexInv
      /\ lock # Nobody => pc[lock] \in Holding \cup {"dead", "failed"}
      /\ \A i \in Slots : local[i].waitIdx \in {0, 1}
      /\ curWaitIdx \in {0, 1} /\ Nobody \notin Slots
  <2>1. ArrivalsCounted /\ TypeInv /\ MutexInv /\ MutexExcludes
    BY DEF GroupInv, BaseInv, MutexInv
  <2>2. \A i \in Slots : local[i].waitIdx \in {0, 1}
    BY <2>1 DEF TypeInv, TypeOK, Locals
  <2>3. curWaitIdx \in {0, 1} /\ Nobody \notin Slots
    BY <2>1 DEF TypeInv, TypeOK, Nobody, Slots
  <2>. QED
    BY <2>1, <2>2, <2>3 DEF MutexExcludes
<1>1. ASSUME NEW i \in Slots, Solo(i)
      PROVE  ArrivalsCounted'
  <2>1. \A j \in Slots \ {i}, x \in {0, 1} : j \in Inside(x)' <=> j \in Inside(x)
    BY <1>1 DEF Solo, OnlyMove, Inside, InLoop
  <2>2. CASE GoesOn(i)
    <3>1. \A x \in {0, 1} : i \notin Inside(x)' /\ i \notin Inside(x)
      BY <2>2 DEF GoesOn, Inside, InLoop
    <3>2. lock # i
      BY <1>0, <2>2 DEF GoesOn, Holding
    <3>3. \A x \in {0, 1} : Arrived(x)' = Arrived(x)
      BY <1>1, <2>1, <2>2, <3>1, <3>2 DEF GoesOn, Arrived, Solo, OnlyMove, Inside
    <3>. QED
      BY <1>0, <2>2, <3>3, SameArrived DEF GoesOn
  <2>3. CASE Joins(i)
    <3>1. \A x \in {0, 1} : i \notin Arrived(x)
      BY <1>0, <2>3 DEF Joins, Arrived, Inside, InLoop
    <3>2. \A x \in {0, 1} : i \in Inside(x)' <=> x = curWaitIdx
      BY <1>0, <2>3 DEF Joins, Inside, InLoop
    <3>3. /\ \A j \in Slots \ {i} : lock # j /\ lock' # j
          /\ local'[i].waitIdx = curWaitIdx
      BY <1>0, <2>3 DEF Joins
    <3>4. \A x \in {0, 1} : Arrived(x)' = IF x = curWaitIdx THEN Arrived(x) \cup {i} ELSE Arrived(x)
      BY <1>0, <2>1, <3>1, <3>2, <3>3 DEF Arrived, Inside
    <3>. QED
      BY <1>0, <2>3, <3>1, <3>4, OneArrived DEF Joins
  <2>4. CASE Turns(i)
    <3>1. \A x \in {0, 1} : Arrived(x)' = Arrived(x)
      BY <1>0, <1>1, <2>1, <2>4 DEF Turns, Arrived, Inside, Solo, OnlyMove
    <3>. QED
      BY <1>0, <2>4, <3>1, SameArrived DEF Turns
  <2>5. CASE Departs(i)
    <3>1. \A x \in {0, 1} : i \in Arrived(x) <=> x = local[i].waitIdx
      BY <1>0, <2>5 DEF Departs, Leaving, Arrived, Inside
    <3>2. \A x \in {0, 1} : i \notin Arrived(x)'
      BY <1>0, <2>5 DEF Departs, Arrived, Inside, InLoop
    <3>3. \A j \in Slots \ {i} : lock # j /\ lock' # j
      BY <1>0, <2>5 DEF Departs
    <3>4. \A x \in {0, 1} : Arrived(x)' = IF x = local[i].waitIdx THEN Arrived(x) \ {i} ELSE Arrived(x)
      BY <1>0, <2>1, <2>5, <3>1, <3>2, <3>3 DEF Arrived, Inside, Departs
    <3>. QED
      BY <1>0, <2>5, <3>1, <3>4, OneLeft DEF Departs
  <2>6. CASE Stops(i)
    <3>1. CASE UNCHANGED <<lock, condWaitCnt>> /\ (lock = i \/ pc[i] \notin InLoop \cup {"bornVote"})
      <4>1. \A x \in {0, 1} : Arrived(x)' = Arrived(x)
        BY <1>0, <2>1, <2>6, <3>1 DEF Stops, Arrived, Inside, InLoop
      <4>. QED
        BY <1>0, <3>1, <4>1, SameArrived
    <3>2. CASE /\ pc[i] \in InLoop /\ lock = i /\ lock' = Nobody
               /\ condWaitCnt' = [condWaitCnt EXCEPT ![local[i].waitIdx] = @ - 1]
      <4>1. \A x \in {0, 1} : i \in Arrived(x) <=> x = local[i].waitIdx
        BY <1>0, <3>2 DEF Arrived, Inside
      <4>2. \A x \in {0, 1} : i \notin Arrived(x)'
        BY <1>0, <2>6, <3>2 DEF Stops, Arrived, Inside, InLoop
      <4>3. \A x \in {0, 1} : Arrived(x)' = IF x = local[i].waitIdx THEN Arrived(x) \ {i} ELSE Arrived(x)
        BY <1>0, <2>1, <2>6, <3>2, <4>1, <4>2 DEF Stops, Arrived, Inside
      <4>. QED
        BY <1>0, <3>2, <4>1, <4>3, OneLeft
    <3>. QED
      BY <2>6, <3>1, <3>2 DEF Stops
  <2>. QED
    BY <1>1, <2>2, <2>3, <2>4, <2>5, <2>6 DEF Solo
<1>2. ASSUME NEW i \in Slots, Opens(i)
      PROVE  ArrivalsCounted'
  <2>1. lock = i /\ \A j \in Slots : pc[j] \in InLoop /\ local[j].waitIdx = curWaitIdx
    BY <1>2, EverybodyHeld DEF Opens, AtAction, Held
  <2>2. \A x \in {0, 1} : Arrived(x) = IF x = curWaitIdx THEN Slots ELSE {}
    BY <1>0, <2>1 DEF Arrived, Inside
  <2>3. /\ \A j \in Slots \ {i} : pc'[j] \in InLoop \cup {"bornVote"}
        /\ pc'[i] \notin InLoop \cup {"bornVote"} /\ lock' = Nobody
        /\ \A j \in Slots : local'[j].waitIdx = curWaitIdx
    BY <1>2 DEF Opens, InLoop
  <2>4. \A x \in {0, 1} : Arrived(x)' = IF x = curWaitIdx THEN Slots \ {i} ELSE {}
    BY <1>0, <2>3 DEF Arrived, Inside
  <2>5. /\ condWaitCnt' = [condWaitCnt EXCEPT ![curWaitIdx] = @ - 1] /\ i \in Arrived(curWaitIdx)
        /\ \A x \in {0, 1} : Arrived(x)' = IF x = curWaitIdx THEN Arrived(x) \ {i} ELSE Arrived(x)
    BY <1>0, <1>2, <2>2, <2>4 DEF Opens
  <2>. QED
    BY <1>0, <2>5, OneLeft
<1>3. ASSUME NEW i \in Slots, NEW v \in Slots, Restores(i, v)
      PROVE  ArrivalsCounted'
  <2>1. \A x \in {0, 1} : v \notin Arrived(x) /\ v \notin Arrived(x)'
    BY <1>3 DEF Restores, Arrived, Inside, InLoop, Stopped
  <2>2. \A x \in {0, 1}, j \in Slots \ {v} : j \in Arrived(x)' <=> j \in Arrived(x)
    BY <1>3 DEF Restores, Arrived, Inside, InLoop
  <2>3. \A x \in {0, 1} : Arrived(x)' = Arrived(x)
    BY <2>1, <2>2 DEF Arrived, Inside
  <2>. QED
    BY <1>0, <1>3, <2>3, SameArrived DEF Restores
<1>4. CASE UNCHANGED vars
  BY <1>0, <1>4 DEF vars, ArrivalsCounted, Arrived, Inside
<1>. QED
  BY <1>1, <1>2, <1>3, <1>4 DEF AnyMove

\* What a step of process i alone leaves of the others.
LEMMA Others ==
  ASSUME NEW i \in Slots, Solo(i), NEW j \in Slots \ {i}
  PROVE  /\ Held(j)' <=> Held(j)
         /\ Leaving(j)' <=> Leaving(j)
         /\ Overdue(j)' <=> Overdue(j)
         /\ Accounted(j)' <=> Accounted(j)
         /\ UnownedAt(j)' <=> UnownedAt(j)
         /\ IndexAt(j)' <=> IndexAt(j)
         /\ Alive(j)' <=> Alive(j)
         /\ NextBarrier(j)' = NextBarrier(j)
         /\ Up(j) => Up(j)'
         /\ pc'[j] = "wait" => pc[j] = "wait"
<1>1. /\ pc'[j] = pc[j] \/ (pc[j] = "wait" /\ pc'[j] = "woken")
      /\ local'[j] = local[j] /\ allProcShm'[j] = allProcShm[j] /\ curWaitIdx' = curWaitIdx
  BY DEF Solo, OnlyMove
<1>2. Unreleased(j)' <=> Unreleased(j)
  BY <1>1 DEF Unreleased
<1>3. (Held(j)' <=> Held(j)) /\ (Leaving(j)' <=> Leaving(j))
  BY <1>1, <1>2 DEF Held, Leaving, InLoop
<1>4. (Overdue(j)' <=> Overdue(j)) /\ (Accounted(j)' <=> Accounted(j)) /\ (Alive(j)' <=> Alive(j))
  BY <1>1, <1>3 DEF Overdue, Accounted, Alive, Stopped
<1>5. (UnownedAt(j)' <=> UnownedAt(j)) /\ (IndexAt(j)' <=> IndexAt(j))
  BY <1>1, <1>2, <1>3 DEF UnownedAt, IndexAt
<1>6. NextBarrier(j)' = NextBarrier(j)
  BY <1>1, <1>3 DEF NextBarrier, Through
<1>7. (Up(j) => Up(j)') /\ (pc'[j] = "wait" => pc[j] = "wait")
  BY <1>1 DEF Up
<1>. QED
  BY <1>3, <1>4, <1>5, <1>6, <1>7

\* Nobody is held once the barrier has opened, and everybody else is leaving.
LEMMA NobodyHeld ==
  ASSUME GroupInv, BaseInv', NEW i \in Slots, Opens(i), NEW j \in Slots
  PROVE  /\ ~Held(j)' /\ ~Overdue(j)' /\ ~Unreleased(j)' /\ Through(j)'
         /\ (j = i /\ pc'[j] = "past") \/ (j # i /\ Leaving(j)')
<1>1. ~Unreleased(j)'
  BY DEF Opens, Unreleased
<1>2. pc'[j] \in {"past", "woken", "timeout", "bornVote"} /\ (j = i => pc'[j] = "past")
      /\ (j # i => pc'[j] # "past")
  BY DEF Opens
<1>. QED
  BY <1>1, <1>2 DEF Held, Overdue, Leaving, Through, InLoop

LEMMA IndexStep ==
  ASSUME GroupInv, BaseInv', AnyMove
  PROVE  IndexInv'
<1>0. /\ IndexInv /\ curWaitIdx \in {0, 1}
      /\ \A i \in Slots : allProcShm[i] \in ProcData
  BY DEF GroupInv, BaseInv, TypeInv, TypeOK
<1>1. ASSUME NEW i \in Slots, Solo(i)
      PROVE  IndexInv'
  <2>1. ASSUME IndexAt(i)'
        PROVE  IndexInv'
    BY <1>0, <1>1, <2>1, Others DEF IndexInv
  <2>2. curWaitIdx' = curWaitIdx
    BY <1>1 DEF Solo
  <2>3. CASE GoesOn(i)
    BY <2>1, <2>3 DEF GoesOn, IndexAt, Held, Leaving, InLoop
  <2>4. CASE Joins(i)
    <3>1. Unreleased(i)' /\ pc'[i] = "top" /\ local'[i].waitIdx = curWaitIdx
      BY <1>0, <2>4 DEF Joins, Unreleased
    <3>. QED
      BY <2>1, <2>2, <3>1 DEF IndexAt, Leaving
  <2>5. CASE Turns(i)
    <3>1. (Held(i)' <=> Held(i)) /\ (Leaving(i)' <=> Leaving(i)) /\ local'[i].waitIdx = local[i].waitIdx
      BY <2>5 DEF Turns, Held, Leaving, Unreleased, InLoop
    <3>2. pc'[i] # "bornDog" /\ IndexAt(i)
      BY <1>0, <2>5 DEF Turns, InLoop, IndexInv
    <3>. QED
      BY <2>1, <2>2, <3>1, <3>2 DEF IndexAt
  <2>6. CASE Departs(i)
    BY <2>1, <2>6 DEF Departs, IndexAt, Held, Leaving, InLoop
  <2>7. CASE Stops(i)
    BY <2>1, <2>7 DEF Stops, IndexAt, Held, Leaving, InLoop
  <2>. QED
    BY <1>1, <2>3, <2>4, <2>5, <2>6, <2>7 DEF Solo
<1>2. ASSUME NEW i \in Slots, Opens(i)
      PROVE  IndexInv'
  <2>1. \A j \in Slots : ~Held(j)' /\ pc'[j] # "bornDog"
    BY <1>2, NobodyHeld DEF Overdue
  <2>2. \A j \in Slots : local'[j].waitIdx = 1 - curWaitIdx'
    BY <1>0, <1>2 DEF Opens
  <2>. QED
    BY <2>1, <2>2 DEF IndexInv, IndexAt
<1>3. ASSUME NEW i \in Slots, NEW v \in Slots, Restores(i, v)
      PROVE  IndexInv'
  <2>1. curWaitIdx' = curWaitIdx /\ local[i].waitIdx = curWaitIdx
    BY <1>0, <1>3 DEF Restores, Overdue, IndexInv, IndexAt
  <2>2. IndexAt(v)'
    BY <1>3, <2>1 DEF Restores, TakesAfter, IndexAt, Held, Leaving, Unreleased, InLoop
  <2>3. ASSUME NEW j \in Slots \ {v}
        PROVE  IndexAt(j)'
    <3>1. /\ Unreleased(j)' <=> Unreleased(j)
          /\ pc'[j] = pc[j] \/ (pc[j] = "dog" /\ pc'[j] = "top")
          /\ local'[j] = local[j]
      BY <1>3, <2>3 DEF Restores, Unreleased
    <3>. QED
      BY <1>0, <2>1, <3>1 DEF IndexInv, IndexAt, Held, Leaving, InLoop
  <2>. QED
    BY <2>2, <2>3 DEF IndexInv
<1>4. CASE UNCHANGED vars
  BY <1>0, <1>4 DEF vars, IndexInv, IndexAt, Held, Leaving, Unreleased
<1>. QED
  BY <1>1, <1>2, <1>3, <1>4 DEF AnyMove

LEMMA AsleepStep ==
  ASSUME GroupInv, BaseInv', AnyMove
  PROVE  NobodyLeftAsleep'
<1>0. NobodyLeftAsleep
  BY DEF GroupInv
<1>1. ASSUME NEW i \in Slots, Solo(i)
      PROVE  NobodyLeftAsleep'
  <2>1. \A j \in Slots \ {i} : (pc'[j] = "wait" => pc[j] = "wait") /\ (Unreleased(j)' <=> Unreleased(j))
    BY <1>1 DEF Solo, OnlyMove, Unreleased
  <2>2. pc'[i] = "wait" => Turns(i)
    BY <1>1 DEF Solo, GoesOn, Joins, Departs, Stops
  <2>3. pc'[i] = "wait" => Unreleased(i)'
    BY <2>2 DEF Turns, Unreleased
  <2>. QED
    BY <1>0, <2>1, <2>3 DEF NobodyLeftAsleep
<1>2. ASSUME NEW i \in Slots, Opens(i)
      PROVE  NobodyLeftAsleep'
  BY <1>2 DEF Opens, NobodyLeftAsleep
<1>3. ASSUME NEW i \in Slots, NEW v \in Slots, Restores(i, v)
      PROVE  NobodyLeftAsleep'
  BY <1>0, <1>3 DEF Restores, NobodyLeftAsleep, Unreleased
<1>4. CASE UNCHANGED vars
  BY <1>0, <1>4 DEF vars, NobodyLeftAsleep, Unreleased
<1>. QED
  BY <1>1, <1>2, <1>3, <1>4 DEF AnyMove

LEMMA SettledStep ==
  ASSUME GroupInv, BaseInv', AnyMove
  PROVE  Settled'
<1>0. Settled /\ NobodyLeftAsleep /\ \A i \in Slots : allProcShm[i] \in ProcData
  BY DEF GroupInv, BaseInv, TypeInv, TypeOK
<1>1. ASSUME NEW i \in Slots, Solo(i)
      PROVE  Settled'
  <2>1. ASSUME NEW k \in Slots, Overdue(k)'
        PROVE  \A j \in Slots : Accounted(j)
    <3>1. CASE \E j \in Slots : Overdue(j)
      BY <1>0, <3>1 DEF Settled
    <3>2. CASE \A j \in Slots : ~Overdue(j)
      <4>1. k = i
        BY <1>1, <2>1, <3>2, Others
      <4>2. pc'[i] \in InLoop \cup {"bornDog"}
        BY <2>1, <4>1 DEF Overdue, Held
      <4>3. Joins(i) \/ Turns(i)
        BY <1>1, <4>2 DEF Solo, GoesOn, Departs, Stops, InLoop
      <4>4. ~Joins(i)
        BY <2>1, <3>2, <4>1 DEF Joins, Overdue
      <4>5. Quiet
        BY <2>1, <3>2, <4>1, <4>3, <4>4 DEF Turns
      <4>. QED
        BY <1>0, <4>5 DEF Quiet, Accounted, Held, InLoop, NobodyLeftAsleep
    <3>. QED
      BY <3>1, <3>2
  <2>2. Accounted(i) => Accounted(i)' \/ ~(\E k \in Slots : Overdue(k)')
    <3>1. CASE GoesOn(i)
      BY <3>1 DEF GoesOn, Accounted, Held, InLoop, Stopped
    <3>2. CASE Joins(i)
      <4>1. curWaitIdx \in {0, 1} /\ pc'[i] = "top" /\ allProcShm'[i].waitIdx = curWaitIdx
        BY <3>2 DEF Joins, GroupInv, BaseInv, TypeInv, TypeOK
      <4>. QED
        BY <4>1 DEF Accounted, Held, InLoop, Unreleased
    <3>3. CASE Turns(i)
      BY <3>3 DEF Turns, Accounted, Held, InLoop, Unreleased, Stopped
    <3>4. CASE Departs(i)
      BY <3>4 DEF Departs, Leaving, Accounted, Held, InLoop, Stopped
    <3>5. CASE Stops(i)
      BY <3>5 DEF Stops, Accounted, Stopped
    <3>. QED
      BY <1>1, <3>1, <3>2, <3>3, <3>4, <3>5 DEF Solo
  <2>3. \A j \in Slots \ {i} : Accounted(j)' <=> Accounted(j)
    BY <1>1, Others
  <2>. QED
    BY <2>1, <2>2, <2>3 DEF Settled
<1>2. ASSUME NEW i \in Slots, Opens(i)
      PROVE  Settled'
  BY <1>2, NobodyHeld DEF Settled
<1>3. ASSUME NEW i \in Slots, NEW v \in Slots, Restores(i, v)
      PROVE  Settled'
  <2>1. \A j \in Slots : Accounted(j)
    BY <1>0, <1>3 DEF Restores, Settled
  <2>2. Accounted(v)'
    BY <1>3 DEF Restores, Accounted
  <2>3. ASSUME NEW j \in Slots \ {v}
        PROVE  Accounted(j)'
    <3>1. /\ Unreleased(j)' <=> Unreleased(j)
          /\ pc'[j] = pc[j] \/ (pc[j] = "dog" /\ pc'[j] = "top")
      BY <1>3, <2>3 DEF Restores, Unreleased
    <3>. QED
      BY <2>1, <3>1 DEF Accounted, Held, InLoop, Stopped
  <2>. QED
    BY <2>2, <2>3 DEF Settled
<1>4. CASE UNCHANGED vars
  BY <1>0, <1>4 DEF vars, Settled, Overdue, Accounted, Held, Unreleased
<1>. QED
  BY <1>1, <1>2, <1>3, <1>4 DEF AnyMove

LEMMA OnTheWayStep ==
  ASSUME GroupInv, BaseInv', AnyMove
  PROVE  OnTheWay'
<1>0. OnTheWay
  BY DEF GroupInv
<1>1. ASSUME NEW i \in Slots, Solo(i)
      PROVE  OnTheWay'
  <2>1. CASE Joins(i)
    BY <2>1 DEF Joins, OnTheWay, Up
  <2>2. CASE Turns(i)
    <3>1. Held(i)' <=> Held(i)
      BY <2>2 DEF Turns, Held, Unreleased
    <3>2. AllHeld' => AllHeld
      BY <1>1, <3>1, Others DEF AllHeld
    <3>. QED
      BY <2>2, <3>2 DEF Turns, OnTheWay
  <2>3. CASE ~Joins(i) /\ ~Turns(i)
    <3>1. ~Held(i)'
      BY <1>1, <2>3 DEF Solo, GoesOn, Departs, Stops, Held, InLoop
    <3>. QED
      BY <3>1 DEF OnTheWay, AllHeld
  <2>. QED
    BY <2>1, <2>2, <2>3
<1>2. ASSUME NEW i \in Slots, Opens(i)
      PROVE  OnTheWay'
  BY <1>2, NobodyHeld DEF OnTheWay, AllHeld
<1>3. ASSUME NEW i \in Slots, NEW v \in Slots, Restores(i, v)
      PROVE  OnTheWay'
  BY <1>3 DEF Restores, OnTheWay, Up
<1>4. CASE UNCHANGED vars
  BY <1>0, <1>4 DEF vars, OnTheWay, AllHeld, Held, Up, Unreleased
<1>. QED
  BY <1>1, <1>2, <1>3, <1>4 DEF AnyMove

LEMMA UnownedStep ==
  ASSUME GroupInv, BaseInv', AnyMove
  PROVE  UnownedHeld'
<1>0. UnownedHeld /\ curWaitIdx \in {0, 1}
  BY DEF GroupInv, BaseInv, TypeInv, TypeOK
<1>1. ASSUME NEW i \in Slots, Solo(i)
      PROVE  UnownedHeld'
  <2>1. UnownedAt(i)'
    <3>1. CASE GoesOn(i) \/ Joins(i) \/ Departs(i)
      BY <3>1 DEF GoesOn, Joins, Departs, UnownedAt
    <3>2. CASE Turns(i)
      BY <1>0, <3>2 DEF Turns, UnownedHeld, UnownedAt, Unreleased, InLoop
    <3>3. CASE Stops(i)
      BY <3>3 DEF Stops
    <3>. QED
      BY <1>1, <3>1, <3>2, <3>3 DEF Solo
  <2>. QED
    BY <1>0, <1>1, <2>1, Others DEF UnownedHeld
<1>2. ASSUME NEW i \in Slots, Opens(i)
      PROVE  UnownedHeld'
  BY <1>2 DEF Opens, UnownedHeld, UnownedAt
<1>3. ASSUME NEW i \in Slots, NEW v \in Slots, Restores(i, v)
      PROVE  UnownedHeld'
  BY <1>0, <1>3 DEF Restores, UnownedHeld, UnownedAt, Unreleased
<1>4. CASE UNCHANGED vars
  BY <1>0, <1>4 DEF vars, UnownedHeld, UnownedAt, Unreleased
<1>. QED
  BY <1>1, <1>2, <1>3, <1>4 DEF AnyMove

\* A step of one process changes nobody's next barrier.
LEMMA NextStays ==
  ASSUME GroupInv, NEW i \in Slots, Solo(i), NEW j \in Slots, Alive(j)'
  PROVE  Alive(j) /\ NextBarrier(j)' = NextBarrier(j)
<1>1. CASE j # i
  BY <1>1, Others
<1>2. CASE j = i
  <2>1. ~Stops(i)
    BY <1>2 DEF Stops, Alive
  <2>2. Alive(i)
    BY <2>1 DEF Solo, GoesOn, Joins, Turns, Departs, Leaving, Alive, InLoop
  <2>3. CASE GoesOn(i) \/ Joins(i) \/ Turns(i)
    BY <2>3, <2>2, <1>2 DEF GoesOn, Joins, Turns
  <2>4. CASE Departs(i)
    <3>1. Through(i) /\ Through(i)' /\ local'[i] = local[i]
      BY <2>4 DEF Departs, Through
    <3>. QED
      BY <1>2, <2>2, <3>1 DEF NextBarrier
  <2>. QED
    BY <2>1, <2>3, <2>4 DEF Solo
<1>. QED
  BY <1>1, <1>2

\* The barrier opens for all at once.
LEMMA NextOpens ==
  ASSUME GroupInv, BaseInv', NEW i \in Slots, Opens(i), NEW j \in Slots
  PROVE  /\ Alive(j) /\ NextBarrier(j) = <<local[i].call, local[i].phase>>
         /\ NextBarrier(j)' = After(local[i].call, local[i].phase)
<1>1. /\ Alive(j) /\ Held(j)
      /\ local[j].call = local[i].call /\ local[j].phase = local[i].phase
  BY EverybodyHeld DEF Opens, AtAction
<1>2. ~Through(j)
  BY <1>1 DEF Through, Held, Leaving, InLoop
<1>3. Through(j)' /\ local'[j].call = local[i].call /\ local'[j].phase = local[i].phase
  BY NobodyHeld DEF Opens
<1>. QED
  BY <1>1, <1>2, <1>3 DEF NextBarrier

\* A replacement is where the process it is a copy of is.
LEMMA NextRestored ==
  ASSUME GroupInv, NEW i \in Slots, NEW v \in Slots, Restores(i, v), NEW j \in Slots, Alive(j)'
  PROVE  \E k \in Slots : Alive(k) /\ NextBarrier(j)' = NextBarrier(k)
<1>1. CASE j = v
  <2>1. Held(i) /\ Alive(i)
    BY DEF Restores, Overdue, Alive
  <2>2. ~Through(i) /\ ~Through(v)' /\ local'[v].call = local[i].call /\ local'[v].phase = local[i].phase
    BY <2>1 DEF Restores, TakesAfter, Through, Held, Leaving, InLoop
  <2>. QED
    BY <1>1, <2>1, <2>2 DEF NextBarrier
<1>2. CASE j # v
  <2>1. /\ Unreleased(j)' <=> Unreleased(j)
        /\ pc'[j] = pc[j] \/ (pc[j] = "dog" /\ pc'[j] = "top")
        /\ local'[j] = local[j]
    BY <1>2 DEF Restores, Unreleased
  <2>2. (Through(j)' <=> Through(j)) /\ Alive(j)
    BY <2>1 DEF Through, Leaving, InLoop, Alive
  <2>. QED
    BY <2>1, <2>2 DEF NextBarrier
<1>. QED
  BY <1>1, <1>2

LEMMA LockstepStep ==
  ASSUME GroupInv, BaseInv', AnyMove
  PROVE  Lockstep'
<1>0. Lockstep
  BY DEF GroupInv
<1>1. ASSUME NEW i \in Slots, Solo(i)
      PROVE  Lockstep'
  BY <1>0, <1>1, NextStays DEF Lockstep
<1>2. ASSUME NEW i \in Slots, Opens(i)
      PROVE  Lockstep'
  BY <1>2, NextOpens DEF Lockstep
<1>3. ASSUME NEW i \in Slots, NEW v \in Slots, Restores(i, v)
      PROVE  Lockstep'
  <2>1. \A j \in Slots : Alive(j)' => \E k \in Slots : Alive(k) /\ NextBarrier(j)' = NextBarrier(k)
    BY <1>3, NextRestored
  <2>. QED
    BY <1>0, <2>1 DEF Lockstep
<1>4. CASE UNCHANGED vars
  BY <1>0, <1>4 DEF vars, Lockstep, Alive, NextBarrier, Through, Leaving, Unreleased
<1>. QED
  BY <1>1, <1>2, <1>3, <1>4 DEF AnyMove

LEMMA GroupStep ==
  ASSUME PatientTimers, DiesAwake
  PROVE  GroupInv /\ [Next]_vars => GroupInv'
<1> SUFFICES ASSUME GroupInv, [Next]_vars
             PROVE  GroupInv'
  OBVIOUS
<1>1. BaseInv' /\ AnyMove
  BY BaseStep, StepKinds DEF GroupInv
<1>. QED
  BY <1>1, ArrivalsStep, IndexStep, AsleepStep, SettledStep, OnTheWayStep, UnownedStep, LockstepStep
  DEF GroupInv

LEMMA InitGroup == Init => GroupInv
<1> SUFFICES ASSUME Init
             PROVE  GroupInv
  OBVIOUS
<1>1. \A i \in Slots : /\ pc[i] \in {"app", "bornInit"} /\ ~Held(i) /\ ~Leaving(i) /\ ~Overdue(i)
                       /\ local[i].call = 1 /\ local[i].phase = "check"
  BY DEF Init, Held, Leaving, Overdue, InLoop
<1>2. ArrivalsCounted
  <2>1. \A x \in {0, 1} : Arrived(x) = {} /\ condWaitCnt[x] = 0
    BY DEF Init, Arrived, Inside, InLoop, Nobody, Slots
  <2>. QED
    BY <2>1, FS_EmptySet DEF ArrivalsCounted
<1>3. IndexInv /\ NobodyLeftAsleep /\ Settled /\ OnTheWay
  <2>1. Master \in Slots
    BY DEF Master, Slots
  <2>. QED
    BY <1>1, <2>1 DEF IndexInv, IndexAt, NobodyLeftAsleep, Settled, OnTheWay, AllHeld
<1>4. UnownedHeld
  BY DEF Init, UnownedHeld, UnownedAt, Unreleased, InitProcData, FreeProcData
<1>5. Lockstep
  BY <1>1 DEF Lockstep, NextBarrier, Through
<1>. QED
  BY <1>2, <1>3, <1>4, <1>5, InitBase DEF GroupInv

-----------------------------------------------------------------------------
(* Results.                                                                *)

\* The result in the extra shared memory is that of the call whose master action
\* has been run, for as long as somebody may still come to copy it.
ResultAt(i) ==
  /\ local[i].phase = "master" /\ (Leaving(i) \/ pc[i] = "past")
       => extraShm = local[i].call /\ (i = Master => local[i].ret = local[i].call)
  /\ pc[i] = "copied" => local[i].ret = local[i].call
ResultInv == \A i \in Slots : ResultAt(i)

LEMMA ResultStep ==
  ASSUME GroupInv, BaseInv', ResultInv, AnyMove
  PROVE  ResultInv'
<1>0. PhaseInv /\ PhaseInv' /\ curWaitIdx \in {0, 1}
  BY DEF GroupInv, BaseInv, TypeInv, TypeOK
<1>1. ASSUME NEW i \in Slots, Solo(i)
      PROVE  ResultInv'
  <2>1. \A j \in Slots \ {i} : /\ Leaving(j)' <=> Leaving(j)
                               /\ pc'[j] \in {"past", "copied"} <=> pc[j] \in {"past", "copied"}
                               /\ pc'[j] \in {"past", "copied"} => pc'[j] = pc[j]
                               /\ local'[j] = local[j]
    BY <1>1, Others DEF Solo, OnlyMove
  <2>2. CASE MasterExits(i) /\ Stops(i)
    <3>1. \A j \in Slots : Held(j)
      BY <2>2, EverybodyHeld DEF MasterExits, AtMasterAct, AtAction
    <3>2. \A j \in Slots : ~Leaving(j) /\ pc[j] \notin {"past", "copied"}
      BY <3>1 DEF Held, Leaving, InLoop
    <3>3. ~Leaving(i)' /\ pc'[i] \notin {"past", "copied"}
      BY <2>2 DEF Stops, Leaving, InLoop
    <3>. QED
      BY <2>1, <3>2, <3>3 DEF ResultInv, ResultAt
  <2>3. CASE extraShm' = extraShm /\ (GoesOn(i) \/ Joins(i) \/ Turns(i) \/ Departs(i) \/ Stops(i))
    <3>1. ASSUME ResultAt(i)'
          PROVE  ResultInv'
      BY <2>1, <2>3, <3>1 DEF ResultInv, ResultAt
    <3>2. CASE GoesOn(i)
      <4>1. ~Leaving(i)' /\ pc'[i] # "past"
        BY <3>2 DEF GoesOn, Leaving, InLoop
      <4>2. ASSUME pc'[i] = "copied"
            PROVE  local'[i].ret = local'[i].call
        <5>1. /\ pc[i] = "past" /\ KeepsPlace(i)
              /\ local'[i].ret = IF i = Master THEN local[i].ret ELSE extraShm
          BY <3>2, <4>2 DEF GoesOn
        <5>2. local[i].phase = "master"
          BY <1>0, <4>2, <5>1 DEF PhaseInv, KeepsPlace
        <5>3. extraShm = local[i].call /\ (i = Master => local[i].ret = local[i].call)
          BY <5>1, <5>2 DEF ResultInv, ResultAt
        <5>. QED
          BY <5>1, <5>3 DEF KeepsPlace
      <4>. QED
        BY <3>1, <4>1, <4>2 DEF ResultAt
    <3>3. CASE Joins(i)
      <4>1. ~Leaving(i)' /\ pc'[i] = "top"
        BY <1>0, <3>3 DEF Joins, Leaving, Unreleased
      <4>. QED
        BY <3>1, <4>1 DEF ResultAt
    <3>4. CASE Turns(i)
      <4>1. /\ Leaving(i)' => Leaving(i)
            /\ pc'[i] \notin {"past", "copied"}
            /\ KeepsPlace(i) /\ local'[i].ret = local[i].ret
        BY <3>4 DEF Turns, Leaving, Unreleased, InLoop
      <4>. QED
        BY <2>3, <3>1, <4>1 DEF ResultInv, ResultAt, KeepsPlace
    <3>5. CASE Departs(i)
      <4>1. Leaving(i) /\ pc'[i] = "past" /\ local'[i] = local[i]
        BY <3>5 DEF Departs
      <4>. QED
        BY <2>3, <3>1, <4>1 DEF ResultInv, ResultAt
    <3>6. CASE Stops(i)
      <4>1. ~Leaving(i)' /\ pc'[i] \notin {"past", "copied"}
        BY <3>6 DEF Stops, Leaving, InLoop
      <4>. QED
        BY <3>1, <4>1 DEF ResultAt
    <3>. QED
      BY <2>3, <3>2, <3>3, <3>4, <3>5, <3>6
  <2>. QED
    BY <1>1, <2>2, <2>3 DEF Solo
<1>2. ASSUME NEW i \in Slots, Opens(i)
      PROVE  ResultInv'
  <2>1. \A j \in Slots : /\ pc'[j] # "copied"
                         /\ local'[j].call = local[i].call /\ local'[j].phase = local[i].phase
    BY <1>2 DEF Opens
  <2>2. CASE local[i].phase # "master"
    BY <2>1, <2>2 DEF ResultInv, ResultAt
  <2>3. CASE MasterActs(i)
    <3>1. extraShm' = local[i].call /\ local'[i].ret = local[i].call
      BY <2>3, MasterActsEffect DEF MasterActs, GroupInv, BaseInv
    <3>2. i = Master
      BY <2>3 DEF MasterActs, AtMasterAct, AtAction, RunsAction
    <3>. QED
      BY <2>1, <3>1, <3>2 DEF ResultInv, ResultAt
  <2>. QED
    BY <1>2, <2>2, <2>3 DEF Opens
<1>3. ASSUME NEW i \in Slots, NEW v \in Slots, Restores(i, v)
      PROVE  ResultInv'
  <2>1. ResultAt(v)'
    BY <1>3 DEF Restores, ResultAt, Leaving, InLoop
  <2>2. ASSUME NEW j \in Slots \ {v}
        PROVE  ResultAt(j)'
    <3>1. /\ Unreleased(j)' <=> Unreleased(j)
          /\ pc'[j] = pc[j] \/ (pc[j] = "dog" /\ pc'[j] = "top")
          /\ local'[j] = local[j] /\ extraShm' = extraShm
      BY <1>3, <2>2 DEF Restores, Unreleased
    <3>. QED
      BY <3>1 DEF ResultInv, ResultAt, Leaving, InLoop
  <2>. QED
    BY <2>1, <2>2 DEF ResultInv
<1>4. CASE UNCHANGED vars
  BY <1>4 DEF vars, ResultInv, ResultAt, Leaving, Unreleased
<1>. QED
  BY <1>1, <1>2, <1>3, <1>4 DEF AnyMove

-----------------------------------------------------------------------------
(* Effects.                                                                *)

\* The barrier is locked for good: the process that held the lock is gone.
Jammed == lock # Nobody /\ ~Alive(lock)

\* The effect of call c comes before a process on its way to barrier b has any.
Before(c, b) == c < b[1] \/ (c = b[1] /\ b[2] = "exitState")

\* As long as anybody can still perform a call, all there is in the log is older
\* than what any process is about to do.
LogInv ==
  Jammed \/ \A k \in DOMAIN log, i \in Slots : Alive(i) => Before(log[k].call, NextBarrier(i))

LEMMA OlderThanNext ==
  ASSUME NEW c \in Nat, NEW n \in Nat, NEW ph \in Phases, Before(c, <<n, ph>>)
  PROVE  Before(c, After(n, ph))
<1>1. c < n \/ (c = n /\ ph = "exitState")
  BY DEF Before
<1>2. After(n, ph) \in {<<n, "master">>, <<n, "exitState">>, <<n + 1, "check">>}
      /\ (ph = "exitState" => After(n, ph) = <<n + 1, "check">>)
  BY DEF After
<1>. QED
  BY <1>1, <1>2 DEF Before

LEMMA PerformedIsOlder ==
  ASSUME NEW n \in Nat
  PROVE  Before(n, After(n, "master"))
<1>1. After(n, "master") \in {<<n, "exitState">>, <<n + 1, "check">>}
  BY DEF After
<1>. QED
  BY <1>1 DEF Before

\* One more effect, of a call younger than all before it.
LEMMA AppendInOrder ==
  ASSUME TypeInv, EffectsInOrder, NEW e \in [call : Calls, data : Data],
         \A k \in DOMAIN log : log[k].call < e.call, log' = Append(log, e)
  PROVE  EffectsInOrder'
<1>1. log \in Seq([call : Calls, data : Data])
  BY DEF TypeInv, TypeOK
<1>2. /\ Len(log) \in Nat /\ DOMAIN log = 1 .. Len(log) /\ DOMAIN log' = 1 .. Len(log) + 1
      /\ \A k \in 1 .. Len(log) : log'[k] = log[k]
      /\ log'[Len(log) + 1] = e
  BY <1>1
<1>3. ASSUME NEW k \in DOMAIN log', NEW l \in DOMAIN log', k < l
      PROVE  log'[k].call < log'[l].call
  <2>1. k \in DOMAIN log /\ log'[k] = log[k]
    BY <1>2, <1>3
  <2>2. CASE l \in DOMAIN log
    BY <1>2, <1>3, <2>1, <2>2 DEF EffectsInOrder
  <2>3. CASE l = Len(log) + 1
    BY <1>2, <2>1, <2>3
  <2>. QED
    BY <1>2, <2>2, <2>3
<1>. QED
  BY <1>3 DEF EffectsInOrder

LEMMA InSequence ==
  ASSUME NEW S, NEW s \in Seq(S)
  PROVE  \A k \in DOMAIN s : s[k] \in S
OBVIOUS

LEMMA LogTypes ==
  ASSUME TypeInv
  PROVE  /\ Calls \subseteq Nat
         /\ \A k \in DOMAIN log : log[k].call \in Nat
         /\ \A i \in Slots : local[i].call \in Nat /\ local[i].phase \in Phases
<1>1. Calls \subseteq Nat
  BY DEF Calls
<1>2. log \in Seq([call : Calls, data : Data])
  BY DEF TypeInv, TypeOK
<1>3. \A k \in DOMAIN log : log[k] \in [call : Calls, data : Data]
  BY <1>2, InSequence
<1>4. \A i \in Slots : local[i].call \in Nat /\ local[i].phase \in Phases
  BY LenType DEF TypeInv, TypeOK, Locals
<1>. QED
  BY <1>1, <1>3, <1>4

\* Whoever performs a call is the first to.
LEMMA PerformsFirst ==
  ASSUME GroupInv, LogInv, EffectsInOrder, NEW i \in Slots, AtMasterAct(i),
         log' = Append(log, [call |-> local[i].call, data |-> local[i].arg])
  PROVE  EffectsInOrder'
<1>1. TypeInv /\ pc[i] = "top" /\ lock = i /\ Held(i) /\ local[i].phase = "master"
  BY EverybodyHeld DEF AtMasterAct, AtAction, GroupInv, BaseInv
<1>2. Alive(i) /\ ~Jammed /\ NextBarrier(i) = <<local[i].call, "master">>
  BY <1>1 DEF Alive, Jammed, NextBarrier, Through, Held, Leaving
<1>3. \A k \in DOMAIN log : Before(log[k].call, <<local[i].call, "master">>)
  BY <1>2 DEF LogInv
<1>4. \A k \in DOMAIN log : log[k].call < local[i].call
  BY <1>3 DEF Before
<1>5. local[i].call \in Calls /\ local[i].arg \in Data
  BY <1>1 DEF TypeInv, TypeOK, InCall, Locals, Stopped
<1>. QED
  BY <1>1, <1>4, <1>5, AppendInOrder

LEMMA JammedStays ==
  ASSUME GroupInv, NEW i \in Slots, Solo(i), Jammed
  PROVE  Jammed'
<1>1. lock \in Slots /\ lock # Nobody /\ pc[lock] \in {"dead", "failed"} /\ Nobody \notin Slots
  BY DEF Jammed, Alive, GroupInv, BaseInv, TypeInv, TypeOK, Nobody, Slots
<1>2. pc'[lock] \in {"dead", "failed"}
  BY <1>1 DEF Solo, OnlyMove, GoesOn, Joins, Turns, Departs, Leaving, Stops, InLoop
<1>3. lock' = lock
  BY <1>1 DEF Solo, GoesOn, Joins, Turns, Departs, Leaving, Stops, InLoop
<1>. QED
  BY <1>1, <1>2, <1>3 DEF Jammed, Alive

LEMMA LogStep ==
  ASSUME GroupInv, BaseInv', LogInv, EffectsInOrder, AnyMove
  PROVE  LogInv' /\ EffectsInOrder'
<1>0. TypeInv
  BY DEF GroupInv, BaseInv
<1>1. ASSUME NEW i \in Slots, Solo(i), log' = log
      PROVE  LogInv' /\ EffectsInOrder'
  <2>1. EffectsInOrder'
    BY <1>1 DEF EffectsInOrder
  <2>2. CASE Jammed
    BY <1>1, <2>1, <2>2, JammedStays DEF LogInv
  <2>3. CASE ~Jammed
    BY <1>1, <2>1, <2>3, NextStays DEF LogInv
  <2>. QED
    BY <2>2, <2>3
<1>2. ASSUME NEW i \in Slots, Solo(i), MasterExits(i)
      PROVE  LogInv' /\ EffectsInOrder'
  <2>1. /\ AtMasterAct(i) /\ lock' = lock /\ pc'[i] = "failed"
        /\ log' = Append(log, [call |-> local[i].call, data |-> local[i].arg])
    BY <1>0, <1>2 DEF MasterExits, TypeInv, TypeOK
  <2>2. lock = i /\ lock # Nobody
    BY <2>1, EverybodyHeld DEF AtMasterAct, AtAction, Nobody, Slots
  <2>. QED
    BY <2>1, <2>2, PerformsFirst DEF LogInv, Jammed, Alive
<1>3. ASSUME NEW i \in Slots, Opens(i)
      PROVE  LogInv' /\ EffectsInOrder'
  <2>1. pc[i] = "top" /\ lock = i
    BY <1>3, EverybodyHeld DEF Opens, AtAction
  <2>2. ~Jammed /\ Alive(i)
    BY <2>1 DEF Jammed, Alive
  <2>3. \A k \in DOMAIN log : Before(log[k].call, <<local[i].call, local[i].phase>>)
    BY <1>3, <2>2, NextOpens DEF LogInv
  <2>4. local[i].call \in Nat /\ local[i].phase \in Phases /\ \A k \in DOMAIN log : log[k].call \in Nat
    BY <1>0, LogTypes
  <2>5. \A k \in DOMAIN log : Before(log[k].call, After(local[i].call, local[i].phase))
    BY <2>3, <2>4, OlderThanNext
  <2>6. \A j \in Slots : NextBarrier(j)' = After(local[i].call, local[i].phase)
    BY <1>3, NextOpens
  <2>7. CASE log' = log
    BY <2>5, <2>6, <2>7 DEF LogInv, EffectsInOrder
  <2>8. CASE MasterActs(i)
    <3>1. AtMasterAct(i) /\ log' = Append(log, [call |-> local[i].call, data |-> local[i].arg])
      BY <2>8 DEF MasterActs
    <3>2. local[i].phase = "master"
      BY <3>1 DEF AtMasterAct
    <3>3. Before(local[i].call, After(local[i].call, local[i].phase))
      BY <2>4, <3>2, PerformedIsOlder
    <3>4. \A k \in DOMAIN log' : (k \in DOMAIN log /\ log'[k] = log[k]) \/ log'[k].call = local[i].call
      <4>1. log \in Seq([call : Calls, data : Data])
        BY <1>0 DEF TypeInv, TypeOK
      <4>2. \A k \in DOMAIN log' : IF k \in DOMAIN log
                                     THEN log'[k] = log[k]
                                     ELSE log'[k] = [call |-> local[i].call, data |-> local[i].arg]
        BY <3>1, <4>1
      <4>. QED
        BY <4>2
    <3>5. \A k \in DOMAIN log', j \in Slots : Before(log'[k].call, NextBarrier(j)')
      BY <2>5, <2>6, <3>3, <3>4
    <3>. QED
      BY <3>1, <3>5, PerformsFirst DEF LogInv
  <2>. QED
    BY <1>3, <2>7, <2>8 DEF Opens
<1>4. ASSUME NEW i \in Slots, NEW v \in Slots, Restores(i, v)
      PROVE  LogInv' /\ EffectsInOrder'
  <2>1. ~Jammed /\ log' = log
    BY <1>4 DEF Restores, Jammed, Alive
  <2>2. \A j \in Slots : Alive(j)' => \E k \in Slots : Alive(k) /\ NextBarrier(j)' = NextBarrier(k)
    BY <1>4, NextRestored
  <2>. QED
    BY <2>1, <2>2 DEF LogInv, EffectsInOrder
<1>5. CASE UNCHANGED vars
  BY <1>5 DEF vars, LogInv, EffectsInOrder, Jammed, Alive, NextBarrier, Through, Leaving, Unreleased
<1>. QED
  BY <1>1, <1>2, <1>3, <1>4, <1>5 DEF AnyMove, Solo

-----------------------------------------------------------------------------
(* The theorems.                                                           *)

LEMMA GroupInvariant ==
  ASSUME PatientTimers, DiesAwake
  PROVE  Spec => [](GroupInv /\ ResultInv /\ LogInv /\ EffectsInOrder)
<1>1. Init => GroupInv /\ ResultInv /\ LogInv /\ EffectsInOrder
  <2> SUFFICES ASSUME Init
               PROVE  ResultInv /\ LogInv /\ EffectsInOrder
    BY InitGroup
  <2>1. ResultInv
    BY DEF Init, ResultInv, ResultAt
  <2>2. DOMAIN log = {}
    BY DEF Init
  <2>. QED
    BY <2>1, <2>2 DEF LogInv, EffectsInOrder
<1>2. GroupInv /\ ResultInv /\ LogInv /\ EffectsInOrder /\ [Next]_vars
        => GroupInv' /\ ResultInv' /\ LogInv' /\ EffectsInOrder'
  <2> SUFFICES ASSUME GroupInv, ResultInv, LogInv, EffectsInOrder, [Next]_vars
               PROVE  GroupInv' /\ ResultInv' /\ LogInv' /\ EffectsInOrder'
    OBVIOUS
  <2>1. BaseInv' /\ AnyMove
    BY BaseStep, StepKinds DEF GroupInv
  <2>. QED
    BY <2>1, GroupStep, ResultStep, LogStep
<1>. QED
  BY <1>1, <1>2, PTL DEF Spec

\* condWaitCnt, read by the exit condition and by the watchdog, is exact: no
\* release, replacement, failed exit or death outside the wait leaves an arrival
\* behind or takes one away that is not there.
THEOREM CountsAreExact ==
  ASSUME PatientTimers, DiesAwake
  PROVE  Spec => []ArrivalsCounted
<1>1. GroupInv => ArrivalsCounted
  BY DEF GroupInv
<1>. QED
  BY <1>1, GroupInvariant, PTL

\* Whoever runs the action of a barrier has everybody with it, in that barrier: the
\* vote compares the arguments of the same call, and the master performs a call all
\* have been checked for.
THEOREM OpensTogether ==
  ASSUME PatientTimers, DiesAwake
  PROVE  Spec => []OpensWhenAllArrived
<1>1. GroupInv => OpensWhenAllArrived
  <2> SUFFICES ASSUME GroupInv, NEW i \in Slots, AtAction(i)
               PROVE  \A j \in Slots : /\ pc[j] \in InLoop /\ Unreleased(j)
                                       /\ local[j].call = local[i].call
                                       /\ local[j].phase = local[i].phase
    BY DEF OpensWhenAllArrived
  <2>. QED
    BY EverybodyHeld DEF AtAction, Held
<1>. QED
  BY <1>1, GroupInvariant, PTL

\* No wakeup is lost: a process that waits is held in a barrier still closed.
THEOREM NobodyOversleeps ==
  ASSUME PatientTimers, DiesAwake
  PROVE  Spec => []NobodyLeftAsleep
<1>1. GroupInv => NobodyLeftAsleep
  BY DEF GroupInv
<1>. QED
  BY <1>1, GroupInvariant, PTL

\* A barrier everybody has reached always has a process on its way to open it,
\* though the vote and the master action are each some processes' only.
THEOREM FullBarrierIsSeen ==
  ASSUME PatientTimers, DiesAwake
  PROVE  Spec => []SomebodyOpens
<1>1. GroupInv => SomebodyOpens
  <2> SUFFICES ASSUME GroupInv, lock = Nobody, \A i \in Slots : pc[i] \in InLoop /\ Unreleased(i)
               PROVE  \E i \in Slots : pc[i] \in {"woken", "timeout"}
    BY DEF SomebodyOpens
  <2>1. PICK i \in Slots : Up(i)
    BY DEF GroupInv, OnTheWay, AllHeld, Held
  <2>2. pc[i] # "top"
    BY DEF GroupInv, BaseInv, MutexInv, MutexExcludes, Holding, Nobody, Slots
  <2>. QED
    BY <2>1, <2>2 DEF Up
<1>. QED
  BY <1>1, GroupInvariant, PTL

\* Processes that are alive are never a barrier apart: each is on the way to the
\* same one, in it, or just out of the one before.
THEOREM GroupInLockstep ==
  ASSUME PatientTimers, DiesAwake
  PROVE  Spec => []Lockstep
<1>1. GroupInv => Lockstep
  BY DEF GroupInv
<1>. QED
  BY <1>1, GroupInvariant, PTL

\* Every process, replacements included, returns from a call with its result,
\* though slaves copy it without the lock: the extra shared memory is not
\* overwritten before the last of them has.
THEOREM OwnResults ==
  ASSUME PatientTimers, DiesAwake
  PROVE  Spec => []ResultIsOwn
<1>1. ResultInv => ResultIsOwn
  BY DEF ResultInv, ResultAt, ResultIsOwn
<1>. QED
  BY <1>1, GroupInvariant, PTL

\* The outside sees the calls in program order and none of them twice, whoever is
\* replaced, and if the master exits from inside one.
THEOREM EffectsOrdered ==
  ASSUME PatientTimers, DiesAwake
  PROVE  Spec => []EffectsInOrder
BY GroupInvariant, PTL

-----------------------------------------------------------------------------
(***************************************************************************)
(* The second part: the group's faults stay within what PLR tolerates. One *)
(* process at a time shows other arguments than it should or dies outside  *)
(* of the barriers' loop. Only it is replaced, nobody gives up, and to the *)
(* outside the group is one fault-free process.                            *)
(***************************************************************************)

\* One process is faulty at a time. It dies in the program or in the wrapper, with
\* its slot its own and nobody counting on it, and no slave dies between the check
\* of a call and the master's barrier. The master's calls set no error indicator,
\* and no watchdog overtakes a process that can still move.
WithinTolerance ==
  /\ PatientTimers /\ ~StreamErrors /\ MaxFaulty <= 1
  /\ \A i \in Slots, p \in PCs, ph \in Phases :
       <<i, p, ph>> \in CrashPoints =>
         /\ p \in {"app", "lock", "past", "copied"}
         /\ i # Master => <<p, ph>> \notin {<<"past", "check">>, <<"lock", "master">>}

\* Such processes die awake, so that all of the first part is about them.
LEMMA ToleratedDieAwake == WithinTolerance => DiesAwake
<1> SUFFICES ASSUME WithinTolerance, NEW i \in Slots, NEW p \in {"wait", "woken", "timeout", "bornVote"},
                    NEW ph \in Phases, <<i, p, ph>> \in CrashPoints
             PROVE  FALSE
  BY DEF DiesAwake
<1>1. p \in PCs
  BY DEF PCs
<1>. QED
  BY <1>1 DEF WithinTolerance

-----------------------------------------------------------------------------
(* The inductive invariant.                                                *)

\* Inside a wrapper; the argument block a process shows there, or, newly forked,
\* will show; what the block is about.
Calling(i) == pc[i] \notin {"app", "bornInit"} \cup Stopped
Shown(i) == IF pc[i] \in {"bornVote", "bornDog"} THEN parentProcShmCpy[i].syscallArgs
                                                 ELSE allProcShm[i].syscallArgs
Subject(i) == IF local[i].phase = "exitState" THEN Len(Program) + local[i].call
                                              ELSE local[i].call

\* A process shows its own arguments, at the place it is at; unless a fault has hit
\* it they are the right ones. Wrong ones do not get past the check.
ShowsOwn(i) ==
  /\ Shown(i).sig = Subject(i)
  /\ local[i].phase # "exitState" => Shown(i).data = local[i].arg
  /\ local[i].data = Good => Shown(i).data = Good
  /\ \/ local[i].arg = Good
     \/ local[i].phase = "check" /\ (Held(i) \/ pc[i] \in {"lock", "bornDog"})

\* Outside of the loop a process is not taken for one that waits; it ends with the
\* program or by a fault.
ReplicaAt(i) ==
  /\ pc[i] # "failed"
  /\ pc[i] \in {"app", "lock", "past", "copied", "done", "dead"} => ~Unreleased(i)
  /\ pc[i] = "done" => local[i].call \notin Calls
  /\ Calling(i) => ShowsOwn(i)
ReplicaInv == \A i \in Slots : ReplicaAt(i)

OneFaulty == \A i, j \in Faulty : i = j

\* The watchdog restores one process at a time.
OneNewborn ==
  \A i \in Slots : pc[i] = "bornDog" => restoring /\ \A j \in Slots : pc[j] = "bornDog" => i = j

\* While a process is dead the others stay at the barrier after the one it has been
\* let through last, which is not the master's unless it is the master.
DeadBehind ==
  \A s, r \in Slots : pc[s] = "dead" /\ Alive(r) =>
    /\ NextBarrier(r)[1] <= local[s].call + 1
    /\ s # Master => NextBarrier(r)[2] # "master"

\* So only the master is ever restored at the master's barrier.
MasterRestored == \A i \in Slots : pc[i] = "bornDog" /\ local[i].phase = "master" => i = Master

\* A timer goes off only for want of a dead process; all others are sound then.
SoundOverdue ==
  (\E i \in Slots : Overdue(i)) => \A j \in Slots : pc[j] \notin Stopped => local[j].data = Good

\* When the process in whose place all had to wait arrives, it runs the action
\* before anyone whose timer is over gets to look.
RestoredActs ==
  (\E i \in Slots : Overdue(i)) /\ AllHeld =>
    lock \in Slots /\ pc[lock] = "top" /\ RunsAction(lock)

\* A call with an effect has happened once the group is past its master's barrier,
\* and only such calls have a master's barrier.
MasterNext ==
  \A i \in Slots : Alive(i) /\ NextBarrier(i)[2] = "master" => Program[NextBarrier(i)[1]] # "local"
Performed(c) == \E k \in DOMAIN log : log[k].call = c
PerformedInv ==
  \A i \in Slots, c \in Calls :
    Alive(i) /\ Program[c] # "local" /\ Before(c, NextBarrier(i)) => Performed(c)

ToleranceInv ==
  /\ ReplicaInv /\ OneFaulty /\ OneNewborn
  /\ DeadBehind /\ MasterRestored /\ SoundOverdue /\ RestoredActs
  /\ MasterNext /\ PerformedInv

-----------------------------------------------------------------------------
(* The vote.                                                               *)

\* The mask of two blocks about the same thing shows whether their data agree.
LEMMA MaskOfData ==
  ASSUME NEW a \in ArgBlocks, NEW b \in ArgBlocks, a.sig = b.sig
  PROVE  CompareArgs(a, b) = {} <=> a.data = b.data
<1>1. DOMAIN a = {"sig", "data"}
  BY DEF ArgBlocks
<1>2. a["sig"] = a.sig /\ b["sig"] = b.sig /\ a["data"] = a.data /\ b["data"] = b.data
  OBVIOUS
<1>. QED
  BY <1>1, <1>2 DEF CompareArgs

\* What the verdict says of three blocks about the same thing.
LEMMA VerdictOnData ==
  ASSUME NEW args \in [Voters -> ArgBlocks], \A p, q \in Voters : args[p].sig = args[q].sig
  PROVE  /\ BadProc(args) = AllAgree => \A p, q \in Voters : args[p].data = args[q].data
         /\ \A v \in Voters : BadProc(args) = v =>
              /\ \A p \in Voters \ {v} : args[p].data # args[v].data
              /\ \A p, q \in Voters \ {v} : args[p].data = args[q].data
         /\ BadProc(args) = NoMajority =>
              \A p, q \in Voters : p # q => args[p].data # args[q].data
<1> DEFINE d(p) == args[p].data
<1>1. Voters = {0, 1, 2}
  BY DEF Voters
<1>2. /\ CompareArgs(args[0], args[1]) = {} <=> d(0) = d(1)
      /\ CompareArgs(args[1], args[2]) = {} <=> d(1) = d(2)
      /\ CompareArgs(args[0], args[2]) = {} <=> d(0) = d(2)
  BY <1>1, MaskOfData
<1>3. /\ BadProc(args) = AllAgree => d(0) = d(1) /\ d(1) = d(2)
      /\ BadProc(args) = 0 => d(0) # d(1) /\ d(1) = d(2)
      /\ BadProc(args) = 1 => d(0) # d(1) /\ d(1) # d(2) /\ d(0) = d(2)
      /\ BadProc(args) = 2 => d(0) # d(2) /\ d(1) # d(2) /\ d(0) = d(1)
      /\ BadProc(args) = NoMajority => d(0) # d(1) /\ d(1) # d(2) /\ d(0) # d(2)
  BY <1>2 DEF BadProc, AllAgree, NoMajority
<1> HIDE DEF d
<1>4. BadProc(args) = AllAgree => \A p, q \in Voters : d(p) = d(q)
  BY <1>1, <1>3
<1>5. ASSUME NEW v \in Voters, BadProc(args) = v
      PROVE  /\ \A p \in Voters \ {v} : d(p) # d(v)
             /\ \A p, q \in Voters \ {v} : d(p) = d(q)
  BY <1>1, <1>3, <1>5
<1>6. BadProc(args) = NoMajority => \A p, q \in Voters : p # q => d(p) # d(q)
  BY <1>1, <1>3
<1>. QED
  BY <1>4, <1>5, <1>6 DEF d

\* At the vote everybody shows what it should, but for a faulty process.
LEMMA ShownAtVote ==
  ASSUME GroupInv, ToleranceInv, NEW i \in Slots, AtVote(i), NEW j \in Slots
  PROVE  /\ Held(j) /\ Calling(j) /\ ShowsOwn(j)
         /\ Shown(j) = allProcShm[j].syscallArgs /\ Shown(j) \in ArgBlocks
         /\ Shown(j).sig = Subject(i)
         /\ j \notin Faulty => Shown(j).data = Good
<1>1. /\ Held(j) /\ local[j].call = local[i].call /\ local[j].phase = local[i].phase
      /\ pc[j] \in InLoop
  BY EverybodyHeld DEF AtVote, AtAction, Held
<1>2. Calling(j) /\ ShowsOwn(j)
  BY <1>1 DEF Calling, InLoop, Stopped, ToleranceInv, ReplicaInv, ReplicaAt
<1>3. Shown(j) = allProcShm[j].syscallArgs
  BY <1>1 DEF Shown, InLoop
<1>4. Shown(j) \in ArgBlocks
  BY <1>3 DEF GroupInv, BaseInv, TypeInv, TypeOK, ProcData
<1>5. Shown(j).sig = Subject(i)
  BY <1>1, <1>2 DEF ShowsOwn, Subject
<1>6. j \notin Faulty => Shown(j).data = Good
  BY <1>2 DEF Faulty, ShowsOwn
<1>. QED
  BY <1>1, <1>2, <1>3, <1>4, <1>5, <1>6

\* The vote finds the faulty process if its fault shows, and nobody else. All that
\* is left to go on shows the right arguments.
LEMMA VoteIsRight ==
  ASSUME GroupInv, ToleranceInv, NEW i \in Slots, AtVote(i)
  PROVE  /\ Verdict # NoMajority
         /\ Verdict \in Voters => Verdict \in Faulty
         /\ \A j \in Slots : j # Verdict => allProcShm[j].syscallArgs.data = Good
<1> DEFINE args == [p \in Voters |-> allProcShm[p].syscallArgs]
<1>1. Slots = Voters /\ Voters = {0, 1, 2}
  BY DEF AtVote, Slots, Voters
<1>2. \A j \in Slots : /\ args[j] \in ArgBlocks /\ args[j].sig = Subject(i)
                       /\ j \notin Faulty => args[j].data = Good
                       /\ args[j] = allProcShm[j].syscallArgs
  <2> TAKE j \in Slots
  <2>1. /\ Shown(j) = allProcShm[j].syscallArgs /\ Shown(j) \in ArgBlocks
        /\ Shown(j).sig = Subject(i) /\ (j \notin Faulty => Shown(j).data = Good)
    BY ShownAtVote
  <2>. QED
    BY <1>1, <2>1
<1>3. args \in [Voters -> ArgBlocks] /\ \A p, q \in Voters : args[p].sig = args[q].sig
  BY <1>1, <1>2
<1>4. Verdict = BadProc(args)
  BY DEF Verdict
<1> HIDE DEF args
<1>5. /\ Verdict = AllAgree => \A p, q \in Voters : args[p].data = args[q].data
      /\ \A v \in Voters : Verdict = v =>
           /\ \A p \in Voters \ {v} : args[p].data # args[v].data
           /\ \A p, q \in Voters \ {v} : args[p].data = args[q].data
      /\ Verdict = NoMajority =>
           \A p, q \in Voters : p # q => args[p].data # args[q].data
  BY <1>3, <1>4, VerdictOnData
<1>6. Verdict \in Voters \cup {AllAgree, NoMajority}
  BY <1>4 DEF BadProc, Voters
<1>7. \A p, q \in Voters : p \in Faulty /\ q \in Faulty => p = q
  BY DEF ToleranceInv, OneFaulty
<1>8. Verdict # NoMajority
  <2>1. \E p, q \in Voters : p # q /\ p \notin Faulty /\ q \notin Faulty
    BY <1>1, <1>7
  <2>. QED
    BY <1>1, <1>2, <1>5, <2>1
<1>9. Verdict \in Voters => Verdict \in Faulty
  <2> SUFFICES ASSUME Verdict \in Voters, Verdict \notin Faulty
               PROVE  FALSE
    OBVIOUS
  <2>1. \E p \in Voters \ {Verdict} : p \notin Faulty
    BY <1>1, <1>7
  <2>. QED
    BY <1>1, <1>2, <1>5, <2>1
<1>10. ASSUME NEW j \in Slots, j # Verdict
       PROVE  args[j].data = Good
  <2>1. CASE Verdict = AllAgree
    <3>1. \E p \in Voters : p \notin Faulty
      BY <1>1, <1>7
    <3>. QED
      BY <1>1, <1>2, <1>5, <2>1, <3>1
  <2>2. CASE Verdict \in Voters
    <3>1. j \notin Faulty
      BY <1>1, <1>7, <1>9, <1>10, <2>2
    <3>. QED
      BY <1>2, <3>1
  <2>. QED
    BY <1>6, <1>8, <2>1, <2>2
<1>. QED
  BY <1>2, <1>8, <1>9, <1>10

-----------------------------------------------------------------------------
(* The watchdog.                                                           *)

\* No process has ended with the program while another waits in a barrier.
LEMMA NobodyDone ==
  ASSUME GroupInv, ToleranceInv, NEW i \in Slots, NEW j \in Slots, Held(j)
  PROVE  pc[i] # "done"
<1> SUFFICES ASSUME pc[i] = "done"
             PROVE  FALSE
  OBVIOUS
<1>1. /\ NextBarrier(i) = <<local[i].call, local[i].phase>>
      /\ NextBarrier(j) = <<local[j].call, local[j].phase>>
  BY DEF NextBarrier, Through, Leaving, Held, InLoop
<1>2. NextBarrier(i) = NextBarrier(j)
  BY DEF Alive, Held, InLoop, GroupInv, Lockstep
<1>3. local[i].call \notin Calls
  BY DEF ToleranceInv, ReplicaInv, ReplicaAt
<1>4. local[j].call \in Calls
  BY DEF GroupInv, BaseInv, TypeInv, InCall, Held, InLoop, Stopped
<1>. QED
  BY <1>1, <1>2, <1>3, <1>4

\* So whoever has stopped by then is dead.
LEMMA StoppedIsDead ==
  ASSUME GroupInv, ToleranceInv, NEW i \in Slots, NEW j \in Slots, Held(j), pc[i] \in Stopped
  PROVE  pc[i] = "dead"
BY NobodyDone DEF Stopped, ToleranceInv, ReplicaInv, ReplicaAt

\* When the timer of a process is over and nobody is being restored, exactly one
\* process is missing.
LEMMA OneMissing ==
  ASSUME GroupInv, ToleranceInv, NEW i \in Slots, AtWatchdog(i)
  PROVE  NotWaiting # {} /\ ~TooManyMissing
<1>1. Held(i) /\ Overdue(i) /\ lock = i
  BY DEF AtWatchdog, GroupInv, BaseInv, MutexInv, DogHeld, MutexExcludes, Holding, Held, InLoop, Overdue
<1>2. \A j \in Slots : Held(j) \/ pc[j] = "dead"
  <2> TAKE j \in Slots
  <2>1. Accounted(j)
    BY <1>1 DEF GroupInv, Settled
  <2>2. pc[j] # "bornDog"
    BY DEF AtWatchdog, ToleranceInv, OneNewborn
  <2>. QED
    BY <1>1, <2>1, <2>2, StoppedIsDead DEF Accounted
<1>3. NotWaiting # {}
  <2> SUFFICES ASSUME NotWaiting = {}
               PROVE  FALSE
    OBVIOUS
  <2>1. ASSUME NEW j \in Slots
        PROVE  Held(j)
    <3>1. allProcShm[j].waitIdx \in {-1, 0, 1}
      BY DEF GroupInv, BaseInv, TypeInv, TypeOK, ProcData
    <3>2. Unreleased(j)
      BY <3>1 DEF NotWaiting, Unreleased
    <3>3. pc[j] # "dead"
      BY <3>2 DEF ToleranceInv, ReplicaInv, ReplicaAt
    <3>. QED
      BY <1>2, <3>3
  <2>2. pc[lock] = "top"
    BY <1>1, <2>1 DEF AllHeld, ToleranceInv, RestoredActs
  <2>. QED
    BY <1>1, <2>2 DEF AtWatchdog
<1>4. ~TooManyMissing
  <2>1. curWaitIdx \in {0, 1}
    BY DEF GroupInv, BaseInv, TypeInv, TypeOK
  <2>2. PICK d \in Slots : \A j \in Slots \ {d} : Held(j)
    <3>1. \A j, k \in Slots : pc[j] = "dead" /\ pc[k] = "dead" => j = k
      BY DEF ToleranceInv, OneFaulty, Faulty
    <3>. QED
      BY <1>2, <3>1
  <2>3. Arrived(curWaitIdx) \in SUBSET Slots /\ Slots \ {d} \subseteq Arrived(curWaitIdx)
    <3>1. \A j \in Slots \ {d} : pc[j] \in InLoop /\ local[j].waitIdx = curWaitIdx
      BY <2>2 DEF Held, GroupInv, IndexInv, IndexAt
    <3>. QED
      BY <3>1 DEF Arrived, Inside
  <2>4. Slots \subseteq Arrived(curWaitIdx) \cup {d}
    BY <2>3
  <2>5. Cardinality(Slots) <= Cardinality(Arrived(curWaitIdx)) + 1
    BY <2>3, <2>4, OneMore
  <2>6. condWaitCnt[curWaitIdx] = Cardinality(Arrived(curWaitIdx))
    BY <2>1 DEF GroupInv, ArrivalsCounted
  <2>7. Cardinality(Arrived(curWaitIdx)) \in Int
    BY <2>3, SlotsCounted
  <2>. QED
    BY <2>5, <2>6, <2>7, SlotsCounted DEF TooManyMissing
<1>. QED
  BY <1>3, <1>4

\* The process it kills is a dead one.
LEMMA VictimDead ==
  ASSUME GroupInv, ToleranceInv, NEW i \in Slots, AtWatchdog(i)
  PROVE  Victim \in Slots /\ pc[Victim] = "dead" /\ Victim \in Faulty
<1>1. NotWaiting # {}
  BY OneMissing
<1>2. Victim \in Slots /\ pc[Victim] \in Stopped
  BY <1>1, VictimStopped
<1>3. Held(i)
  BY DEF AtWatchdog, GroupInv, BaseInv, MutexInv, DogHeld, Held, InLoop
<1>. QED
  BY <1>2, <1>3, StoppedIsDead DEF Faulty

\* Nothing fails.
LEMMA NothingFails ==
  ASSUME GroupInv, ToleranceInv, WithinTolerance, NEW i \in Slots
  PROVE  /\ ~ArrivalAborts(i) /\ ~VoteFails(i) /\ ~MasterExits(i) /\ ~WatchdogGivesUp(i)
         /\ ~VoteKillsGroup(i) /\ ~WatchdogKillsGroup(i)
<1>1. ~ArrivalAborts(i)
  <2>1. condWaitCnt[curWaitIdx] <= NProc /\ condWaitCnt[curWaitIdx] \in Int
    BY NobodyAborts DEF GroupInv, BaseInv, TypeInv, TypeOK
  <2>. QED
    BY <2>1 DEF ArrivalAborts
<1>2. ~VoteFails(i)
  BY VoteIsRight DEF VoteFails
<1>3. ~MasterExits(i)
  BY DEF MasterExits, WithinTolerance
<1>4. ~WatchdogGivesUp(i)
  BY OneMissing DEF WatchdogGivesUp
<1>. QED
  BY <1>1, <1>2, <1>3, <1>4, GroupNotKilled

-----------------------------------------------------------------------------
(* What each process shows, step by step.                                  *)

\* A process shows what it showed before, or what the process it copies does.
LEMMA ReplicaKept ==
  ASSUME NEW j \in Slots, NEW k \in Slots, ShowsOwn(k),
         pc'[j] \notin {"app", "bornInit", "done", "dead", "failed"},
         local'[j].call = local[k].call,
         local'[j].phase = "exitState" <=> local[k].phase = "exitState",
         local'[j].data = local[k].data, local'[j].arg = local[k].arg,
         Shown(j)' = Shown(k),
         pc'[j] \in {"lock", "past", "copied"} => ~Unreleased(j)',
         \/ local[k].arg = Good
         \/ local'[j].phase = "check" /\ (Held(j)' \/ pc'[j] \in {"lock", "bornDog"})
  PROVE  ReplicaAt(j)'
<1>1. Subject(j)' = Subject(k)
  BY DEF Subject
<1>2. ShowsOwn(j)'
  BY <1>1 DEF ShowsOwn
<1>. QED
  BY <1>2 DEF ReplicaAt

LEMMA ReplicaSolo ==
  ASSUME ReplicaInv, NEW i \in Slots, OnlyMove({i}), ReplicaAt(i)'
  PROVE  ReplicaInv'
<1> SUFFICES ASSUME NEW j \in Slots \ {i}
             PROVE  ReplicaAt(j)'
  BY DEF ReplicaInv
<1>1. /\ pc'[j] = pc[j] \/ (pc[j] = "wait" /\ pc'[j] = "woken")
      /\ local'[j] = local[j] /\ allProcShm'[j] = allProcShm[j]
      /\ parentProcShmCpy'[j] = parentProcShmCpy[j]
  BY DEF OnlyMove
<1>2. /\ Unreleased(j)' <=> Unreleased(j)
      /\ Held(j)' <=> Held(j)
      /\ Calling(j)' <=> Calling(j)
  BY <1>1 DEF Unreleased, Held, InLoop, Calling, Stopped
<1>3. Shown(j)' = Shown(j) /\ Subject(j)' = Subject(j)
  BY <1>1 DEF Shown, Subject
<1>4. ReplicaAt(j)
  BY DEF ReplicaInv
<1>5. ShowsOwn(j) => ShowsOwn(j)'
  BY <1>1, <1>2, <1>3 DEF ShowsOwn
<1>. QED
  BY <1>1, <1>2, <1>4, <1>5 DEF ReplicaAt

\* Where a process may die.
LEMMA CrashPlace ==
  ASSUME TypeInv, WithinTolerance, NEW i \in Slots, Crash(i)
  PROVE  /\ pc[i] \in {"app", "lock", "past", "copied"}
         /\ i # Master => ~(pc[i] = "past" /\ local[i].phase = "check")
         /\ i # Master => ~(pc[i] = "lock" /\ local[i].phase = "master")
<1>1. pc[i] \in PCs /\ local[i].phase \in Phases /\ <<i, pc[i], local[i].phase>> \in CrashPoints
  BY DEF Crash, TypeInv, TypeOK, Locals
<1>. QED
  BY <1>1 DEF WithinTolerance

LEMMA ReplicaStep == GroupInv /\ ToleranceInv /\ WithinTolerance /\ [Next]_vars => ReplicaInv'
<1> SUFFICES ASSUME GroupInv, ToleranceInv, WithinTolerance, [Next]_vars
             PROVE  ReplicaInv'
  OBVIOUS
<1>0. /\ GroupInv /\ TypeInv /\ MutexInv /\ PhaseInv
      /\ ToleranceInv /\ WithinTolerance /\ ReplicaInv
  BY DEF GroupInv, BaseInv, ToleranceInv
<1>1. ASSUME NEW i \in Slots, BeginCall(i)
      PROVE  ReplicaInv'
  <2>1. /\ OnlyMove({i}) /\ pc[i] = "app" /\ pc'[i] = "lock"
        /\ allProcShm'[i].waitIdx = allProcShm[i].waitIdx
        /\ local'[i].arg \in {local[i].data, Good} /\ local'[i].data = local[i].data
        /\ allProcShm'[i].syscallArgs = CallArgs(local[i].call, local'[i].arg)
        /\ local'[i].call = local[i].call /\ local'[i].phase = local[i].phase
    BY <1>0, <1>1, BeginCallEffect
  <2>2. local[i].phase = "check" /\ ~Unreleased(i)
    BY <1>0, <2>1 DEF PhaseInv, ReplicaInv, ReplicaAt
  <2>3. Shown(i)' = CallArgs(local[i].call, local'[i].arg) /\ Subject(i)' = local[i].call
    BY <2>1, <2>2 DEF Shown, Subject
  <2>4. ShowsOwn(i)'
    BY <2>1, <2>2, <2>3 DEF ShowsOwn, CallArgs
  <2>5. ReplicaAt(i)'
    BY <2>1, <2>2, <2>4 DEF ReplicaAt, Unreleased
  <2>. QED
    BY <1>0, <2>1, <2>5, ReplicaSolo
<1>2. ASSUME NEW i \in Slots, BeginMasterAction(i)
      PROVE  ReplicaInv'
  <2>1. /\ OnlyMove({i}) /\ pc[i] = "past" /\ pc'[i] \in {"lock", "copied"} /\ allProcShm'[i] = allProcShm[i]
        /\ local'[i].call = local[i].call /\ local'[i].data = local[i].data /\ local'[i].arg = local[i].arg
        /\ local[i].phase # "exitState" /\ local'[i].phase # "exitState"
    BY <1>0, <1>2, BeginMasterEffect DEF KeepsPlace
  <2>2. Calling(i) /\ ShowsOwn(i) /\ Shown(i)' = Shown(i) /\ ~Unreleased(i)
    BY <1>0, <2>1 DEF Calling, Stopped, Shown, ReplicaInv, ReplicaAt
  <2>3. local[i].arg = Good
    BY <2>1, <2>2 DEF ShowsOwn, Held, InLoop
  <2>4. ReplicaAt(i)'
    BY <2>1, <2>2, <2>3, ReplicaKept DEF Unreleased
  <2>. QED
    BY <1>0, <2>1, <2>4, ReplicaSolo
<1>3. ASSUME NEW i \in Slots, CopyResult(i)
      PROVE  ReplicaInv'
  <2>1. /\ OnlyMove({i}) /\ pc[i] = "past" /\ pc'[i] \in {"lock", "copied"} /\ allProcShm'[i] = allProcShm[i]
        /\ local'[i].call = local[i].call /\ local'[i].data = local[i].data /\ local'[i].arg = local[i].arg
        /\ local[i].phase # "exitState" /\ local'[i].phase # "exitState"
    BY <1>0, <1>3, CopyResultEffect DEF KeepsPlace
  <2>2. Calling(i) /\ ShowsOwn(i) /\ Shown(i)' = Shown(i) /\ ~Unreleased(i)
    BY <1>0, <2>1 DEF Calling, Stopped, Shown, ReplicaInv, ReplicaAt
  <2>3. local[i].arg = Good
    BY <2>1, <2>2 DEF ShowsOwn, Held, InLoop
  <2>4. ReplicaAt(i)'
    BY <2>1, <2>2, <2>3, ReplicaKept DEF Unreleased
  <2>. QED
    BY <1>0, <2>1, <2>4, ReplicaSolo
<1>4. ASSUME NEW i \in Slots, BeginExitState(i)
      PROVE  ReplicaInv'
  <2>1. /\ OnlyMove({i}) /\ pc[i] = "copied" /\ pc'[i] = "lock"
        /\ allProcShm'[i].waitIdx = allProcShm[i].waitIdx
        /\ local'[i].phase = "exitState" /\ local'[i].call = local[i].call
        /\ local'[i].data = local[i].data /\ local'[i].arg = local[i].arg
    BY <1>0, <1>4, BeginExitEffect
  <2>2. PICK d \in {local[i].data, Good} : allProcShm'[i].syscallArgs = ExitState(local[i].call, d)
    <3>1. PICK d \in {local[i].data, Good} :
            allProcShm' = [allProcShm EXCEPT ![i].syscallArgs = ExitState(local[i].call, d)]
      BY <1>4 DEF BeginExitState
    <3>. QED
      BY <1>0, <3>1 DEF TypeInv, TypeOK, ProcData
  <2>3. Calling(i) /\ ShowsOwn(i) /\ ~Unreleased(i)
    BY <1>0, <2>1 DEF Calling, Stopped, ReplicaInv, ReplicaAt
  <2>4. local[i].arg = Good
    BY <2>1, <2>3 DEF ShowsOwn, Held, InLoop
  <2>5. Shown(i)' = ExitState(local[i].call, d) /\ Subject(i)' = Len(Program) + local[i].call
    BY <2>1, <2>2 DEF Shown, Subject
  <2>6. ShowsOwn(i)'
    BY <2>1, <2>2, <2>4, <2>5 DEF ShowsOwn, ExitState
  <2>7. ReplicaAt(i)'
    BY <2>1, <2>3, <2>6 DEF ReplicaAt, Unreleased
  <2>. QED
    BY <1>0, <2>1, <2>7, ReplicaSolo
<1>5. ASSUME NEW i \in Slots, EndCall(i)
      PROVE  ReplicaInv'
  <2>1. /\ OnlyMove({i}) /\ pc[i] \in {"past", "copied"} /\ pc'[i] = "app"
        /\ allProcShm'[i].waitIdx = allProcShm[i].waitIdx
    BY <1>0, <1>5, EndCallEffect DEF CallOver
  <2>2. ReplicaAt(i)'
    BY <1>0, <2>1 DEF ReplicaInv, ReplicaAt, Unreleased, Calling
  <2>. QED
    BY <1>0, <2>1, <2>2, ReplicaSolo
<1>6. ASSUME NEW i \in Slots, ExitProgram(i)
      PROVE  ReplicaInv'
  <2>1. OnlyMove({i}) /\ Quietly /\ pc[i] = "app" /\ pc'[i] = "done" /\ local[i].call \notin Calls
    BY <1>0, <1>6, MoveEffect DEF ExitProgram, TypeInv, TypeOK
  <2>2. ReplicaAt(i)'
    BY <1>0, <2>1 DEF ReplicaInv, ReplicaAt, Unreleased, Calling, Stopped, Quietly
  <2>. QED
    BY <1>0, <2>1, <2>2, ReplicaSolo
<1>7. ASSUME NEW i \in Slots, EnterBarrier(i)
      PROVE  ReplicaInv'
  <2>1. /\ OnlyMove({i}) /\ pc[i] = "lock" /\ pc'[i] = "top"
        /\ KeepsSlot(i) /\ allProcShm'[i].waitIdx = curWaitIdx /\ KeepsPlace(i)
    BY <1>0, <1>7, EnterEffect
  <2>2. Calling(i) /\ ShowsOwn(i) /\ Shown(i)' = Shown(i)
    BY <1>0, <2>1 DEF Calling, Stopped, Shown, ReplicaInv, ReplicaAt, KeepsSlot
  <2>3. Held(i)'
    BY <1>0, <2>1 DEF Held, InLoop, Unreleased, TypeInv, TypeOK
  <2>4. ReplicaAt(i)'
    BY <2>1, <2>2, <2>3, ReplicaKept DEF ShowsOwn, KeepsPlace
  <2>. QED
    BY <1>0, <2>1, <2>4, ReplicaSolo
<1>8. ASSUME NEW i \in Slots, ArrivalAborts(i)
      PROVE  ReplicaInv'
  BY <1>8, NothingFails
<1>9. ASSUME NEW i \in Slots, LeaveReleased(i)
      PROVE  ReplicaInv'
  <2>1. OnlyMove({i}) /\ Quietly /\ pc[i] = "top" /\ ~Unreleased(i) /\ pc'[i] = "past"
    BY <1>0, <1>9, MoveEffect DEF LeaveReleased, TypeInv, TypeOK
  <2>2. Calling(i) /\ ShowsOwn(i) /\ Shown(i)' = Shown(i) /\ ~Unreleased(i)'
    BY <1>0, <2>1 DEF Calling, Stopped, Shown, ReplicaInv, ReplicaAt, Quietly, Unreleased
  <2>3. local[i].arg = Good
    BY <2>1, <2>2 DEF ShowsOwn, Held
  <2>4. ReplicaAt(i)'
    BY <2>1, <2>2, <2>3, ReplicaKept DEF Quietly
  <2>. QED
    BY <1>0, <2>1, <2>4, ReplicaSolo
<1>10. ASSUME NEW i \in Slots, VoteAgrees(i)
      PROVE  ReplicaInv'
  <2>1. Complete(i, pc, allProcShm) /\ local' = local /\ AtVote(i)
    BY <1>10 DEF VoteAgrees
  <2>2. \A j \in Slots : KeepsSlot(j) /\ allProcShm'[j].waitIdx = -1
    BY <1>0, <2>1, OpenEffect
  <2>3. pc'[i] = "past" /\ \A j \in Slots \ {i} : pc'[j] \in {"woken", pc[j]}
    BY <1>0, <2>1, OpenEffect
  <2> SUFFICES ASSUME NEW j \in Slots
               PROVE  ReplicaAt(j)'
    BY DEF ReplicaInv
  <2>4. Held(j) /\ ShowsOwn(j) /\ Shown(j) = allProcShm[j].syscallArgs
    BY <1>0, <2>1, ShownAtVote
  <2>5. Shown(j).data = Good
    BY <1>0, <1>10, <2>1, <2>4, VoteIsRight DEF VoteAgrees, AllAgree, AtVote, Slots
  <2>6. local[j].arg = Good
    BY <2>4, <2>5 DEF ShowsOwn
  <2>7. pc'[j] \in InLoop \cup {"past"}
    BY <2>3, <2>4 DEF Held, InLoop
  <2>8. Shown(j)' = Shown(j) /\ ~Unreleased(j)'
    BY <2>2, <2>4, <2>7 DEF Shown, InLoop, KeepsSlot, Unreleased
  <2>. QED
    BY <2>1, <2>4, <2>6, <2>7, <2>8, ReplicaKept DEF InLoop
<1>11. ASSUME NEW i \in Slots, VoteNamesSelf(i)
      PROVE  ReplicaInv'
  <2>1. OnlyMove({i}) /\ Quietly /\ pc[i] \in InLoop /\ pc'[i] \in {"dog", "wait", "timeout", "woken"}
    BY <1>0, <1>11, MoveEffect DEF VoteNamesSelf, AtVote, AtAction, Signal, InLoop, TypeInv, TypeOK
  <2>2. Calling(i) /\ ShowsOwn(i) /\ Shown(i)' = Shown(i)
    BY <1>0, <2>1 DEF Calling, InLoop, Stopped, Shown, ReplicaInv, ReplicaAt, Quietly
  <2>3. Held(i)' <=> Held(i)
    BY <2>1 DEF Held, InLoop, Unreleased, Quietly
  <2>4. ReplicaAt(i)'
    BY <2>1, <2>2, <2>3, ReplicaKept DEF ShowsOwn, InLoop, Quietly
  <2>. QED
    BY <1>0, <2>1, <2>4, ReplicaSolo
<1>12. ASSUME NEW i \in Slots, VoteReplaces(i)
      PROVE  ReplicaInv'
  <2>0. PICK v \in Slots \ {i} : v = Verdict
    BY <1>0, <1>12, VoteReplacesEffect
  <2>1. /\ AtVote(i)
        /\ pc'[i] = "past" /\ pc'[v] = "bornVote"
        /\ \A j \in Slots : allProcShm'[j].waitIdx = -1
        /\ \A j \in Slots \ {v} : KeepsSlot(j) /\ local'[j] = local[j]
        /\ local'[v] = local[i] /\ parentProcShmCpy'[v] = allProcShm[i]
    BY <2>0, <1>0, <1>12, VoteReplacesEffect DEF TypeInv, TypeOK
  <2>2. \A j \in Slots \ {i, v} : pc'[j] \in {"woken", pc[j]}
    BY <2>0, <1>0, <1>12, VoteReplacesEffect
  <2>3. ASSUME NEW j \in Slots
        PROVE  Held(j) /\ ShowsOwn(j) /\ Shown(j) = allProcShm[j].syscallArgs
    BY <1>0, <2>1, ShownAtVote
  <2>4. ASSUME NEW j \in Slots \ {v}
        PROVE  local[j].arg = Good
    <3>1. Shown(j).data = Good
      BY <1>0, <2>0, <2>1, <2>3, VoteIsRight
    <3>. QED
      BY <2>3, <3>1 DEF ShowsOwn
  <2>5. ASSUME NEW j \in Slots \ {v}
        PROVE  ReplicaAt(j)'
    <3>1. pc'[j] \in InLoop \cup {"past"}
      BY <2>1, <2>2, <2>3 DEF Held, InLoop
    <3>2. Shown(j)' = Shown(j) /\ ~Unreleased(j)'
      BY <2>1, <2>3, <3>1 DEF Shown, InLoop, KeepsSlot, Unreleased
    <3>. QED
      BY <2>1, <2>3, <2>4, <3>1, <3>2, ReplicaKept DEF InLoop
  <2>6. ReplicaAt(v)'
    <3>1. Shown(v)' = Shown(i) /\ ShowsOwn(i) /\ local[i].arg = Good
      BY <2>1, <2>3, <2>4 DEF Shown
    <3>. QED
      BY <2>1, <3>1, ReplicaKept
  <2>. QED
    BY <2>5, <2>6 DEF ReplicaInv
<1>13. ASSUME NEW i \in Slots, VoteFails(i)
      PROVE  ReplicaInv'
  BY <1>13, NothingFails
<1>14. ASSUME NEW i \in Slots, MasterActs(i)
      PROVE  ReplicaInv'
  <2>1. Complete(i, pc, allProcShm) /\ AtAction(i) /\ local[i].phase = "master"
    BY <1>14 DEF MasterActs, AtMasterAct
  <2>2. \A j \in Slots : KeepsSlot(j) /\ allProcShm'[j].waitIdx = -1
    BY <1>0, <2>1, OpenEffect
  <2>3. pc'[i] = "past" /\ \A j \in Slots \ {i} : pc'[j] \in {"woken", pc[j]}
    BY <1>0, <2>1, OpenEffect
  <2> SUFFICES ASSUME NEW j \in Slots
               PROVE  ReplicaAt(j)'
    BY DEF ReplicaInv
  <2>4. Held(j) /\ local[j].phase = "master"
    BY <1>0, <2>1, EverybodyHeld DEF AtAction
  <2>5. ShowsOwn(j) /\ local[j].arg = Good
    BY <1>0, <2>4 DEF Calling, Held, InLoop, Stopped, ReplicaInv, ReplicaAt, ShowsOwn
  <2>6. KeepsPlace(j)
    BY <1>0, <1>14, MasterActsEffect DEF KeepsPlace
  <2>7. pc'[j] \in InLoop \cup {"past"}
    BY <2>3, <2>4 DEF Held, InLoop
  <2>8. Shown(j)' = Shown(j) /\ ~Unreleased(j)'
    BY <2>2, <2>4, <2>7 DEF Shown, Held, InLoop, KeepsSlot, Unreleased
  <2>. QED
    BY <2>5, <2>6, <2>7, <2>8, ReplicaKept DEF InLoop, KeepsPlace
<1>15. ASSUME NEW i \in Slots, MasterExits(i)
      PROVE  ReplicaInv'
  BY <1>15, NothingFails
<1>16. ASSUME NEW i \in Slots, SummonMaster(i)
      PROVE  ReplicaInv'
  <2>1. OnlyMove({i}) /\ Quietly /\ pc[i] \in InLoop /\ pc'[i] \in {"dog", "wait", "timeout", "woken"}
    BY <1>0, <1>16, MoveEffect DEF SummonMaster, AtVote, AtAction, Signal, InLoop, TypeInv, TypeOK
  <2>2. Calling(i) /\ ShowsOwn(i) /\ Shown(i)' = Shown(i)
    BY <1>0, <2>1 DEF Calling, InLoop, Stopped, Shown, ReplicaInv, ReplicaAt, Quietly
  <2>3. Held(i)' <=> Held(i)
    BY <2>1 DEF Held, InLoop, Unreleased, Quietly
  <2>4. ReplicaAt(i)'
    BY <2>1, <2>2, <2>3, ReplicaKept DEF ShowsOwn, InLoop, Quietly
  <2>. QED
    BY <1>0, <2>1, <2>4, ReplicaSolo
<1>17. ASSUME NEW i \in Slots, NotFull(i)
      PROVE  ReplicaInv'
  <2>1. OnlyMove({i}) /\ Quietly /\ pc[i] \in InLoop /\ pc'[i] \in {"dog", "wait", "timeout", "woken"}
    BY <1>0, <1>17, MoveEffect DEF NotFull, AtVote, AtAction, Signal, InLoop, TypeInv, TypeOK
  <2>2. Calling(i) /\ ShowsOwn(i) /\ Shown(i)' = Shown(i)
    BY <1>0, <2>1 DEF Calling, InLoop, Stopped, Shown, ReplicaInv, ReplicaAt, Quietly
  <2>3. Held(i)' <=> Held(i)
    BY <2>1 DEF Held, InLoop, Unreleased, Quietly
  <2>4. ReplicaAt(i)'
    BY <2>1, <2>2, <2>3, ReplicaKept DEF ShowsOwn, InLoop, Quietly
  <2>. QED
    BY <1>0, <2>1, <2>4, ReplicaSolo
<1>18. ASSUME NEW i \in Slots, Park(i)
      PROVE  ReplicaInv'
  <2>1. OnlyMove({i}) /\ Quietly /\ pc[i] \in InLoop /\ pc'[i] \in {"dog", "wait", "timeout", "woken"}
    BY <1>0, <1>18, MoveEffect DEF Park, AtVote, AtAction, Signal, InLoop, TypeInv, TypeOK
  <2>2. Calling(i) /\ ShowsOwn(i) /\ Shown(i)' = Shown(i)
    BY <1>0, <2>1 DEF Calling, InLoop, Stopped, Shown, ReplicaInv, ReplicaAt, Quietly
  <2>3. Held(i)' <=> Held(i)
    BY <2>1 DEF Held, InLoop, Unreleased, Quietly
  <2>4. ReplicaAt(i)'
    BY <2>1, <2>2, <2>3, ReplicaKept DEF ShowsOwn, InLoop, Quietly
  <2>. QED
    BY <1>0, <2>1, <2>4, ReplicaSolo
<1>19. ASSUME NEW i \in Slots, WatchdogGivesUp(i)
      PROVE  ReplicaInv'
  BY <1>19, NothingFails
<1>20. ASSUME NEW i \in Slots, WatchdogReplaces(i)
      PROVE  ReplicaInv'
  <2>0. PICK v \in Slots \ {i} : v = Victim
    BY <1>0, <1>20, WatchdogReplacesEffect
  <2>1. /\ pc[i] = "dog" /\ pc'[i] = "top" /\ pc'[v] = "bornDog"
        /\ \A j \in Slots \ {i, v} : pc'[j] = pc[j]
        /\ TakesAfter(v, i)
        /\ \A j \in Slots \ {v} : local'[j] = local[j] /\ allProcShm'[j] = allProcShm[j]
    BY <1>0, <2>0, <1>20, WatchdogReplacesEffect DEF AtWatchdog
  <2>2. /\ parentProcShmCpy'[v] = allProcShm[i]
        /\ \A j \in Slots \ {v} : parentProcShmCpy'[j] = parentProcShmCpy[j]
    BY <1>0, <2>0, <1>20, <2>1, WatchdogReplacesEffect DEF TypeInv, TypeOK
  <2>3. Held(i) /\ Calling(i) /\ ShowsOwn(i) /\ Shown(i) = allProcShm[i].syscallArgs
    BY <1>0, <2>1 DEF MutexInv, DogHeld, Held, InLoop, Calling, Stopped, ReplicaInv, ReplicaAt, Shown
  <2>4. ReplicaAt(i)'
    <3>1. Held(i)' /\ Shown(i)' = Shown(i)
      BY <2>1, <2>2, <2>3 DEF Held, InLoop, Unreleased, Shown
    <3>. QED
      BY <2>1, <2>3, <3>1, ReplicaKept DEF ShowsOwn
  <2>5. ReplicaAt(v)'
    <3>1. Shown(v)' = Shown(i)
      BY <2>1, <2>2, <2>3 DEF Shown
    <3>. QED
      BY <2>1, <2>3, <3>1, ReplicaKept DEF ShowsOwn, TakesAfter
  <2>6. ASSUME NEW j \in Slots \ {i, v}
        PROVE  ReplicaAt(j)'
    <3>1. /\ (Unreleased(j)' <=> Unreleased(j)) /\ (Held(j)' <=> Held(j)) /\ (Calling(j)' <=> Calling(j))
          /\ Shown(j)' = Shown(j) /\ Subject(j)' = Subject(j)
      BY <2>1, <2>2 DEF Unreleased, Held, Calling, Shown, Subject
    <3>2. ReplicaAt(j) /\ (ShowsOwn(j) => ShowsOwn(j)')
      BY <1>0, <2>1, <3>1 DEF ShowsOwn, ReplicaInv
    <3>. QED
      BY <2>1, <3>1, <3>2 DEF ReplicaAt
  <2>. QED
    BY <2>4, <2>5, <2>6 DEF ReplicaInv
<1>21. ASSUME NEW i \in Slots, VoteKillsGroup(i)
      PROVE  ReplicaInv'
  BY <1>21, NothingFails
<1>22. ASSUME NEW i \in Slots, WatchdogKillsGroup(i)
      PROVE  ReplicaInv'
  BY <1>22, NothingFails
<1>23. ASSUME NEW i \in Slots, Reacquire(i)
      PROVE  ReplicaInv'
  <2>1. /\ OnlyMove({i}) /\ pc[i] \in {"woken", "timeout"} /\ pc'[i] = "top"
        /\ allProcShm'[i] = allProcShm[i] /\ KeepsPlace(i)
    BY <1>0, <1>23, ReacquireEffect
  <2>2. Calling(i) /\ ShowsOwn(i) /\ Shown(i)' = Shown(i)
    BY <1>0, <2>1 DEF Calling, Stopped, Shown, ReplicaInv, ReplicaAt
  <2>3. Held(i)' <=> Held(i)
    BY <2>1 DEF Held, InLoop, Unreleased
  <2>4. ReplicaAt(i)'
    BY <2>1, <2>2, <2>3, ReplicaKept DEF ShowsOwn, KeepsPlace
  <2>. QED
    BY <1>0, <2>1, <2>4, ReplicaSolo
<1>24. ASSUME NEW i \in Slots, BirthInit(i)
      PROVE  ReplicaInv'
  <2>1. OnlyMove({i}) /\ pc'[i] = "app" /\ allProcShm'[i].waitIdx = -1
    BY <1>0, <1>24, BirthInitEffect
  <2>2. ReplicaAt(i)'
    BY <2>1 DEF ReplicaAt, Unreleased, Calling
  <2>. QED
    BY <1>0, <2>1, <2>2, ReplicaSolo
<1>25. ASSUME NEW i \in Slots, BirthVote(i)
      PROVE  ReplicaInv'
  <2>1. /\ OnlyMove({i}) /\ pc[i] = "bornVote" /\ pc'[i] = "past" /\ local' = local
        /\ allProcShm'[i].waitIdx = -1 /\ allProcShm'[i].syscallArgs = parentProcShmCpy[i].syscallArgs
    BY <1>0, <1>25, BirthVoteEffect
  <2>2. Calling(i) /\ ShowsOwn(i) /\ Shown(i)' = Shown(i) /\ ~Unreleased(i)'
    BY <1>0, <2>1 DEF Calling, Stopped, Shown, ReplicaInv, ReplicaAt, Unreleased
  <2>3. local[i].arg = Good
    BY <2>1, <2>2 DEF ShowsOwn, Held, InLoop
  <2>4. ReplicaAt(i)'
    BY <2>1, <2>2, <2>3, ReplicaKept
  <2>. QED
    BY <1>0, <2>1, <2>4, ReplicaSolo
<1>26. ASSUME NEW i \in Slots, BirthDog(i)
      PROVE  ReplicaInv'
  <2>1. /\ OnlyMove({i}) /\ pc[i] = "bornDog" /\ pc'[i] = "top" /\ local' = local
        /\ allProcShm'[i].waitIdx = curWaitIdx
        /\ allProcShm'[i].syscallArgs = parentProcShmCpy[i].syscallArgs
    BY <1>0, <1>26, BirthDogEffect
  <2>2. Calling(i) /\ ShowsOwn(i) /\ Shown(i)' = Shown(i)
    BY <1>0, <2>1 DEF Calling, Stopped, Shown, ReplicaInv, ReplicaAt
  <2>3. Held(i)'
    BY <1>0, <2>1 DEF Held, InLoop, Unreleased, TypeInv, TypeOK
  <2>4. ReplicaAt(i)'
    BY <2>1, <2>2, <2>3, ReplicaKept DEF ShowsOwn
  <2>. QED
    BY <1>0, <2>1, <2>4, ReplicaSolo
<1>27. ASSUME NEW i \in Slots, Timeout(i)
      PROVE  ReplicaInv'
  <2>1. OnlyMove({i}) /\ Quietly /\ pc[i] \in InLoop /\ pc'[i] \in {"dog", "wait", "timeout", "woken"}
    BY <1>0, <1>27, MoveEffect DEF Timeout, AtVote, AtAction, Signal, InLoop, TypeInv, TypeOK
  <2>2. Calling(i) /\ ShowsOwn(i) /\ Shown(i)' = Shown(i)
    BY <1>0, <2>1 DEF Calling, InLoop, Stopped, Shown, ReplicaInv, ReplicaAt, Quietly
  <2>3. Held(i)' <=> Held(i)
    BY <2>1 DEF Held, InLoop, Unreleased, Quietly
  <2>4. ReplicaAt(i)'
    BY <2>1, <2>2, <2>3, ReplicaKept DEF ShowsOwn, InLoop, Quietly
  <2>. QED
    BY <1>0, <2>1, <2>4, ReplicaSolo
<1>28. ASSUME NEW i \in Slots, SpuriousWakeup(i)
      PROVE  ReplicaInv'
  <2>1. OnlyMove({i}) /\ Quietly /\ pc[i] \in InLoop /\ pc'[i] \in {"dog", "wait", "timeout", "woken"}
    BY <1>0, <1>28, MoveEffect DEF SpuriousWakeup, AtVote, AtAction, Signal, InLoop, TypeInv, TypeOK
  <2>2. Calling(i) /\ ShowsOwn(i) /\ Shown(i)' = Shown(i)
    BY <1>0, <2>1 DEF Calling, InLoop, Stopped, Shown, ReplicaInv, ReplicaAt, Quietly
  <2>3. Held(i)' <=> Held(i)
    BY <2>1 DEF Held, InLoop, Unreleased, Quietly
  <2>4. ReplicaAt(i)'
    BY <2>1, <2>2, <2>3, ReplicaKept DEF ShowsOwn, InLoop, Quietly
  <2>. QED
    BY <1>0, <2>1, <2>4, ReplicaSolo
<1>29. ASSUME NEW i \in Slots, Crash(i)
      PROVE  ReplicaInv'
  <2>1. OnlyMove({i}) /\ Quietly /\ pc'[i] = "dead"
    BY <1>0, <1>29, MoveEffect DEF Crash, TypeInv, TypeOK
  <2>2. pc[i] \in {"app", "lock", "past", "copied"}
    BY <1>0, <1>29, CrashPlace
  <2>3. ReplicaAt(i)'
    BY <1>0, <2>1, <2>2 DEF ReplicaInv, ReplicaAt, Unreleased, Calling, Stopped, Quietly
  <2>. QED
    BY <1>0, <2>1, <2>3, ReplicaSolo
<1>30. ASSUME NEW i \in Slots, Corrupt(i)
      PROVE  ReplicaInv'
  <2>1. OnlyMove({i}) /\ pc[i] = "app" /\ pc' = pc /\ allProcShm' = allProcShm
    BY <1>0, <1>30, CorruptEffect
  <2>2. ReplicaAt(i)'
    BY <1>0, <2>1 DEF ReplicaInv, ReplicaAt, Unreleased, Calling
  <2>. QED
    BY <1>0, <2>1, <2>2, ReplicaSolo
<1>31. CASE UNCHANGED vars
  <2>1. \A j \in Slots : ReplicaAt(j)' <=> ReplicaAt(j)
    BY <1>31 DEF vars, ReplicaAt, ShowsOwn, Shown, Subject, Calling, Held, Unreleased
  <2>. QED
    BY <1>0, <2>1 DEF ReplicaInv
<1>. QED
  BY <1>1, <1>2, <1>3, <1>4, <1>5, <1>6, <1>7, <1>8, <1>9, <1>10, <1>11,
     <1>12, <1>13, <1>14, <1>15, <1>16, <1>17, <1>18, <1>19, <1>20, <1>21,
     <1>22, <1>23, <1>24, <1>25, <1>26, <1>27, <1>28, <1>29, <1>30, <1>31
  DEF Next, Step, Terminated

-----------------------------------------------------------------------------
(* The faulty process, and what the others do meanwhile.                   *)

\* A fault that may happen hits the process that is faulty already, or none is.
LEMMA FaultsAlone ==
  ASSUME WithinTolerance, NEW i \in Slots, MayFault(i)
  PROVE  Faulty \subseteq {i}
<1> SUFFICES ASSUME NEW j \in Faulty, j # i
             PROVE  FALSE
  OBVIOUS
<1>1. Faulty \cup {i} \in SUBSET Slots
  BY DEF Faulty
<1>2. Cardinality({i}) <= Cardinality(Faulty \cup {i}) - 1
  BY <1>1, OneFewer
<1>3. Cardinality({i}) = 1
  BY FS_Singleton
<1>4. Cardinality(Faulty \cup {i}) \in Int /\ Cardinality(Faulty \cup {i}) <= 1
  BY <1>1, SlotsCounted DEF MayFault, WithinTolerance
<1>. QED
  BY <1>2, <1>3, <1>4

\* What a process's own step does to it: a fault, or nothing that makes it faulty.
LEMMA SoloFault ==
  ASSUME GroupInv, ReplicaInv', WithinTolerance, NEW i \in Slots, Solo(i)
  PROVE  \/ pc'[i] \notin Stopped \ {"done"} /\ local'[i].data = local[i].data
         \/ MayFault(i)
<1>1. CASE GoesOn(i)
  BY <1>1 DEF GoesOn, Corrupt, Stopped
<1>2. CASE Joins(i) \/ Turns(i)
  BY <1>2 DEF Joins, Turns, KeepsPlace, InLoop, Stopped
<1>3. CASE Departs(i)
  BY <1>3 DEF Departs, Stopped
<1>4. CASE Stops(i)
  BY <1>4 DEF Stops, Crash, ReplicaInv, ReplicaAt
<1>. QED
  BY <1>1, <1>2, <1>3, <1>4 DEF Solo

LEMMA OneFaultyStep ==
  ASSUME GroupInv, ToleranceInv, WithinTolerance, ReplicaInv', AnyMove
  PROVE  OneFaulty'
<1> USE DEF Faulty
<1>0. OneFaulty /\ TypeInv /\ MutexInv
  BY DEF ToleranceInv, GroupInv, BaseInv
<1>1. ASSUME NEW i \in Slots, Solo(i)
      PROVE  OneFaulty'
  <2>1. \A j \in Slots \ {i} : j \in Faulty' => j \in Faulty
    BY <1>1 DEF Solo, OnlyMove
  <2>2. CASE pc'[i] \notin Stopped \ {"done"} /\ local'[i].data = local[i].data
    <3>1. i \in Faulty' => i \in Faulty
      BY <2>2 DEF Stopped
    <3>. QED
      BY <1>0, <2>1, <3>1 DEF OneFaulty
  <2>3. CASE MayFault(i)
    <3>1. Faulty \subseteq {i}
      BY <2>3, FaultsAlone
    <3>. QED
      BY <2>1, <3>1 DEF OneFaulty
  <2>. QED
    BY <1>1, <2>2, <2>3, SoloFault
<1>2. ASSUME NEW i \in Slots, Opens(i)
      PROVE  OneFaulty'
  <2>1. \A j \in Slots : pc'[j] \notin {"dead", "failed"}
    BY <1>2 DEF Opens
  <2>2. CASE VoteAgrees(i) \/ MasterActs(i)
    <3>1. \A j \in Slots : local'[j].data = local[j].data
      BY <1>0, <2>2, MasterActsEffect DEF VoteAgrees, KeepsPlace
    <3>. QED
      BY <1>0, <2>1, <3>1 DEF OneFaulty
  <2>3. CASE VoteReplaces(i)
    <3>1. PICK v \in Slots \ {i} : v = Verdict
      BY <1>0, <2>3, VoteReplacesEffect
    <3>2. /\ AtVote(i) /\ Verdict \in Voters
          /\ local'[v] = local[i] /\ \A j \in Slots \ {v} : local'[j] = local[j]
      BY <1>0, <2>3, <3>1, VoteReplacesEffect DEF VoteReplaces
    <3>3. v \in Faulty
      BY <3>1, <3>2, VoteIsRight
    <3>4. \A j \in Slots \ {v} : local[j].data = Good
      BY <1>0, <3>3 DEF OneFaulty
    <3>. QED
      BY <2>1, <3>1, <3>2, <3>4 DEF OneFaulty
  <2>. QED
    BY <1>2, <2>2, <2>3 DEF Opens
<1>3. ASSUME NEW i \in Slots, NEW v \in Slots, Restores(i, v)
      PROVE  OneFaulty'
  <2>1. v \in Faulty /\ v # i
    BY <1>3, VictimDead DEF Restores, WatchdogReplaces
  <2>2. \A j \in Slots \ {v} : j \notin Faulty
    BY <1>0, <2>1 DEF OneFaulty
  <2>3. \A j \in Slots : j \notin Faulty'
    BY <1>3, <2>1, <2>2 DEF Restores, TakesAfter
  <2>. QED
    BY <2>3 DEF OneFaulty
<1>4. CASE UNCHANGED vars
  BY <1>0, <1>4 DEF vars, OneFaulty
<1>. QED
  BY <1>1, <1>2, <1>3, <1>4 DEF AnyMove

\* A process on its own neither becomes a newborn nor, if it was dead, takes a step.
LEMMA SoloPlaces ==
  ASSUME GroupInv, ReplicaInv', NEW i \in Slots, Solo(i)
  PROVE  /\ pc'[i] # "bornDog"
         /\ pc[i] # "dead"
         /\ \A j \in Slots : pc'[j] = "bornDog" => j # i /\ pc[j] = "bornDog"
         /\ \A j \in Slots \ {i} : pc'[j] = "dead" <=> pc[j] = "dead"
         /\ pc'[i] = "dead" => Crash(i) /\ local' = local
<1>1. pc'[i] # "bornDog"
  BY DEF Solo, GoesOn, Joins, Turns, Departs, Stops, InLoop
<1>2. pc'[i] = "dead" => Crash(i) /\ local' = local
  BY DEF Solo, GoesOn, Joins, Turns, Departs, Stops, InLoop
<1>3. pc[i] # "dead"
  <2>1. CASE Stops(i)
    BY <2>1, <1>2 DEF Stops, Crash, Stopped, ReplicaInv, ReplicaAt
  <2>2. CASE GoesOn(i) \/ Joins(i) \/ Turns(i) \/ Departs(i)
    BY <2>2 DEF GoesOn, Joins, Turns, Departs, Leaving, InLoop
  <2>. QED
    BY <2>1, <2>2 DEF Solo
<1>4. \A j \in Slots \ {i} : pc'[j] = pc[j] \/ (pc[j] = "wait" /\ pc'[j] = "woken")
  BY DEF Solo, OnlyMove
<1>. QED
  BY <1>1, <1>2, <1>3, <1>4

LEMMA OneNewbornStep ==
  ASSUME GroupInv, ToleranceInv, ReplicaInv', AnyMove
  PROVE  OneNewborn'
<1>0. OneNewborn
  BY DEF ToleranceInv
<1>1. ASSUME NEW i \in Slots, Solo(i)
      PROVE  OneNewborn'
  <2> SUFFICES ASSUME NEW j \in Slots, pc'[j] = "bornDog"
               PROVE  restoring' /\ \A k \in Slots : pc'[k] = "bornDog" => j = k
    BY DEF OneNewborn
  <2>1. j # i /\ pc[j] = "bornDog" /\ \A k \in Slots : pc'[k] = "bornDog" => pc[k] = "bornDog"
    BY <1>1, SoloPlaces
  <2>2. restoring /\ \A k \in Slots : pc[k] = "bornDog" => j = k
    BY <1>0, <2>1 DEF OneNewborn
  <2>3. pc[i] # "bornDog"
    BY <2>1, <2>2
  <2>4. restoring' = restoring
    BY <1>1, <2>3 DEF Solo
  <2>. QED
    BY <2>1, <2>2, <2>4
<1>2. ASSUME NEW i \in Slots, Opens(i)
      PROVE  OneNewborn'
  <2>1. \A j \in Slots : pc'[j] # "bornDog"
    BY <1>2 DEF Opens
  <2>. QED
    BY <2>1 DEF OneNewborn
<1>3. ASSUME NEW i \in Slots, NEW v \in Slots, Restores(i, v)
      PROVE  OneNewborn'
  <2>1. restoring' /\ \A j \in Slots \ {v} : pc'[j] # "bornDog"
    BY <1>0, <1>3 DEF Restores, OneNewborn
  <2>. QED
    BY <2>1 DEF OneNewborn
<1>4. CASE UNCHANGED vars
  BY <1>0, <1>4 DEF vars, OneNewborn
<1>. QED
  BY <1>1, <1>2, <1>3, <1>4 DEF AnyMove

-----------------------------------------------------------------------------
(* Where the group is in the program.                                      *)

LEMMA AfterPlace ==
  ASSUME NEW c \in Nat, NEW ph \in Phases
  PROVE  /\ After(c, ph)[1] \in {c, c + 1}
         /\ After(c, ph)[2] = "master" => ph = "check" /\ After(c, ph)[1] = c /\ Program[c] # "local"
         /\ After(c, ph)[2] \in Phases
BY DEF After, Phases

\* Where the others are when a process dies.
LEMMA DiesBehind ==
  ASSUME GroupInv, WithinTolerance, NEW i \in Slots, Crash(i), NEW r \in Slots, Alive(r)
  PROVE  /\ NextBarrier(r)[1] <= local[i].call + 1
         /\ i # Master => NextBarrier(r)[2] # "master"
<1>0. TypeInv
  BY DEF GroupInv, BaseInv
<1>1. /\ pc[i] \in {"app", "lock", "past", "copied"}
      /\ i # Master => ~(pc[i] = "past" /\ local[i].phase = "check")
      /\ i # Master => ~(pc[i] = "lock" /\ local[i].phase = "master")
  BY <1>0, CrashPlace
<1>2. NextBarrier(r) = NextBarrier(i)
  BY <1>1 DEF Alive, GroupInv, Lockstep
<1>3. local[i].call \in Nat /\ local[i].phase \in Phases
  BY <1>0, LogTypes
<1>4. /\ pc[i] = "app" => local[i].phase = "check"
      /\ pc[i] = "copied" => local[i].phase = "master"
  BY DEF GroupInv, BaseInv, PhaseInv
<1>5. CASE Through(i)
  <2>1. NextBarrier(i) = After(local[i].call, local[i].phase) /\ pc[i] \in {"past", "copied"}
    BY <1>1, <1>5 DEF NextBarrier, Through, Leaving, InLoop
  <2>2. i # Master => local[i].phase # "check"
    BY <1>1, <1>4, <2>1
  <2>3. /\ After(local[i].call, local[i].phase)[1] <= local[i].call + 1
        /\ After(local[i].call, local[i].phase)[2] = "master" => local[i].phase = "check"
    BY <1>3, AfterPlace
  <2>. QED
    BY <1>2, <2>1, <2>2, <2>3
<1>6. CASE ~Through(i)
  <2>1. NextBarrier(i) = <<local[i].call, local[i].phase>> /\ pc[i] \in {"app", "lock"}
    BY <1>1, <1>6 DEF NextBarrier, Through
  <2>. QED
    BY <1>1, <1>2, <1>3, <1>4, <2>1
<1>. QED
  BY <1>5, <1>6

LEMMA DeadBehindStep ==
  ASSUME GroupInv, ToleranceInv, WithinTolerance, BaseInv', ReplicaInv', AnyMove
  PROVE  DeadBehind'
<1>0. DeadBehind
  BY DEF ToleranceInv
<1>1. ASSUME NEW i \in Slots, Solo(i)
      PROVE  DeadBehind'
  <2> SUFFICES ASSUME NEW s \in Slots, NEW r \in Slots, pc'[s] = "dead", Alive(r)'
               PROVE  /\ NextBarrier(r)'[1] <= local'[s].call + 1
                      /\ s # Master => NextBarrier(r)'[2] # "master"
    BY DEF DeadBehind
  <2>1. Alive(r) /\ NextBarrier(r)' = NextBarrier(r)
    BY <1>1, NextStays
  <2>2. CASE s = i
    <3>1. Crash(i) /\ local' = local
      BY <1>1, <2>2, SoloPlaces
    <3>. QED
      BY <2>1, <2>2, <3>1, DiesBehind
  <2>3. CASE s # i
    <3>1. pc[s] = "dead" /\ local'[s] = local[s]
      BY <1>1, <2>3, SoloPlaces DEF Solo, OnlyMove
    <3>. QED
      BY <1>0, <2>1, <3>1 DEF DeadBehind
  <2>. QED
    BY <2>2, <2>3
<1>2. ASSUME NEW i \in Slots, Opens(i)
      PROVE  DeadBehind'
  <2>1. \A j \in Slots : pc'[j] # "dead"
    BY <1>2 DEF Opens
  <2>. QED
    BY <2>1 DEF DeadBehind
<1>3. ASSUME NEW i \in Slots, NEW v \in Slots, Restores(i, v)
      PROVE  DeadBehind'
  <2> SUFFICES ASSUME NEW s \in Slots, NEW r \in Slots, pc'[s] = "dead", Alive(r)'
               PROVE  /\ NextBarrier(r)'[1] <= local'[s].call + 1
                      /\ s # Master => NextBarrier(r)'[2] # "master"
    BY DEF DeadBehind
  <2>1. PICK k \in Slots : Alive(k) /\ NextBarrier(r)' = NextBarrier(k)
    BY <1>3, NextRestored
  <2>2. pc[s] = "dead" /\ local'[s] = local[s]
    BY <1>3 DEF Restores
  <2>. QED
    BY <1>0, <2>1, <2>2 DEF DeadBehind
<1>4. CASE UNCHANGED vars
  <2>1. \A r \in Slots : (Alive(r)' <=> Alive(r)) /\ NextBarrier(r)' = NextBarrier(r)
    BY <1>4 DEF vars, Alive, NextBarrier, Through, Leaving, Unreleased
  <2>. QED
    BY <1>0, <1>4, <2>1 DEF vars, DeadBehind
<1>. QED
  BY <1>1, <1>2, <1>3, <1>4 DEF AnyMove

LEMMA MasterRestoredStep ==
  ASSUME GroupInv, ToleranceInv, ReplicaInv', AnyMove
  PROVE  MasterRestored'
<1>0. MasterRestored
  BY DEF ToleranceInv
<1>1. ASSUME NEW i \in Slots, Solo(i)
      PROVE  MasterRestored'
  <2>1. \A j \in Slots : pc'[j] = "bornDog" => pc[j] = "bornDog" /\ local'[j] = local[j]
    BY <1>1, SoloPlaces DEF Solo, OnlyMove
  <2>. QED
    BY <1>0, <2>1 DEF MasterRestored
<1>2. ASSUME NEW i \in Slots, Opens(i)
      PROVE  MasterRestored'
  <2>1. \A j \in Slots : pc'[j] # "bornDog"
    BY <1>2 DEF Opens
  <2>. QED
    BY <2>1 DEF MasterRestored
<1>3. ASSUME NEW i \in Slots, NEW v \in Slots, Restores(i, v)
      PROVE  MasterRestored'
  <2>1. pc[v] = "dead"
    BY <1>3, VictimDead DEF Restores, WatchdogReplaces
  <2>2. Alive(i) /\ NextBarrier(i) = <<local[i].call, local[i].phase>>
    BY <1>3 DEF Restores, Overdue, Held, Alive, NextBarrier, Through, Leaving, InLoop
  <2>3. local[i].phase = "master" => v = Master
    BY <2>1, <2>2 DEF ToleranceInv, DeadBehind
  <2>4. \A j \in Slots \ {v} : pc'[j] = "bornDog" => pc[j] = "bornDog" /\ local'[j] = local[j]
    BY <1>3 DEF Restores
  <2>5. local'[v].call = local[i].call /\ local'[v].phase = local[i].phase
    BY <1>3 DEF Restores, TakesAfter
  <2>. QED
    BY <1>0, <2>3, <2>4, <2>5 DEF MasterRestored
<1>4. CASE UNCHANGED vars
  BY <1>0, <1>4 DEF vars, MasterRestored
<1>. QED
  BY <1>1, <1>2, <1>3, <1>4 DEF AnyMove

-----------------------------------------------------------------------------
(* The missing process.                                                    *)

\* The first timer goes off because a process is dead.
LEMMA QuietForDead ==
  ASSUME GroupInv, ToleranceInv, Quiet, \A j \in Slots : ~Overdue(j), NEW i \in Slots, Held(i)
  PROVE  \E d \in Slots : pc[d] = "dead"
<1> SUFFICES ASSUME \A d \in Slots : pc[d] # "dead"
             PROVE  FALSE
  OBVIOUS
<1>1. ASSUME NEW j \in Slots
      PROVE  pc[j] = "wait" /\ Held(j)
  <2>1. pc[j] \notin Stopped
    BY StoppedIsDead
  <2>2. pc[j] = "wait"
    BY <2>1 DEF Quiet, Overdue, Held, InLoop
  <2>. QED
    BY <2>2 DEF Held, InLoop, GroupInv, NobodyLeftAsleep
<1>2. PICK k \in Slots : Up(k)
  BY <1>1 DEF AllHeld, GroupInv, OnTheWay
<1>. QED
  BY <1>1, <1>2 DEF Up

\* All but the dead process are as the program made them.
LEMMA OthersSound ==
  ASSUME ToleranceInv, NEW d \in Slots, pc[d] = "dead", NEW j \in Slots, pc[j] \notin Stopped
  PROVE  local[j].data = Good
BY DEF ToleranceInv, OneFaulty, Faulty, Stopped

LEMMA SoundOverdueStep ==
  ASSUME GroupInv, BaseInv', ToleranceInv, ReplicaInv', AnyMove
  PROVE  SoundOverdue'
<1>0. SoundOverdue /\ Settled
  BY DEF ToleranceInv, GroupInv
<1>1. ASSUME NEW i \in Slots, Solo(i)
      PROVE  SoundOverdue'
  <2> SUFFICES ASSUME NEW k \in Slots, Overdue(k)', NEW j \in Slots, pc'[j] \notin Stopped
               PROVE  local'[j].data = Good
    BY DEF SoundOverdue
  <2>1. pc[j] \notin Stopped \/ (j = i /\ Stops(i))
    <3>1. j = i => GoesOn(i) \/ Joins(i) \/ Turns(i) \/ Departs(i) \/ Stops(i)
      BY <1>1 DEF Solo
    <3>2. j = i => pc[i] \notin Stopped \/ Stops(i)
      BY <3>1 DEF GoesOn, Joins, Turns, Departs, Leaving, InLoop, Stopped
    <3>3. j # i => pc'[j] = pc[j] \/ pc[j] = "wait"
      BY <1>1 DEF Solo, OnlyMove
    <3>. QED
      BY <3>2, <3>3 DEF Stopped
  <2>2. ~(j = i /\ Stops(i))
    BY DEF Stops, Stopped
  <2>3. CASE \E m \in Slots : Overdue(m)
    <3>1. ~GoesOn(i)
      <4>1. Accounted(i)
        BY <1>0, <2>3 DEF Settled
      <4>. QED
        BY <4>1 DEF Accounted, GoesOn, Held, InLoop, Stopped
    <3>2. local'[j].data = local[j].data
      BY <1>1, <3>1 DEF Solo, OnlyMove, Joins, Turns, Departs, Stops, KeepsPlace
    <3>. QED
      BY <1>0, <2>1, <2>2, <2>3, <3>2 DEF SoundOverdue
  <2>4. CASE \A m \in Slots : ~Overdue(m)
    <3>1. k = i /\ Held(i)'
      <4>1. k = i
        BY <1>1, <2>4, Others
      <4>2. pc'[i] # "bornDog"
        BY <1>1, SoloPlaces
      <4>. QED
        BY <4>1, <4>2 DEF Overdue
    <3>2. Turns(i) /\ Quiet
      <4>1. Joins(i) \/ Turns(i)
        BY <1>1, <3>1 DEF Solo, GoesOn, Departs, Stops, Held, InLoop
      <4>2. ~Joins(i)
        BY <2>4, <3>1 DEF Joins, Overdue
      <4>. QED
        BY <2>4, <3>1, <4>1, <4>2 DEF Turns
    <3>3. Held(i)
      BY <3>1, <3>2 DEF Turns, Held, Unreleased
    <3>4. PICK d \in Slots : pc[d] = "dead"
      BY <2>4, <3>2, <3>3, QuietForDead
    <3>5. local[j].data = Good
      BY <2>1, <2>2, <3>4, OthersSound
    <3>6. local'[j].data = local[j].data
      BY <1>1, <3>2 DEF Solo, OnlyMove, Turns, KeepsPlace
    <3>. QED
      BY <3>5, <3>6
  <2>. QED
    BY <2>3, <2>4
<1>2. ASSUME NEW i \in Slots, Opens(i)
      PROVE  SoundOverdue'
  BY <1>2, NobodyHeld DEF SoundOverdue
<1>3. ASSUME NEW i \in Slots, NEW v \in Slots, Restores(i, v)
      PROVE  SoundOverdue'
  <2>1. Overdue(i) /\ pc[i] \notin Stopped
    BY <1>3 DEF Restores, Stopped
  <2>2. \A j \in Slots : pc[j] \notin Stopped => local[j].data = Good
    BY <1>0, <2>1 DEF SoundOverdue
  <2>3. \A j \in Slots \ {v} : local'[j] = local[j] /\ (pc'[j] = pc[j] \/ j = i)
    BY <1>3 DEF Restores
  <2>4. local'[v].data = local[i].data
    BY <1>3 DEF Restores, TakesAfter
  <2>. QED
    BY <2>1, <2>2, <2>3, <2>4 DEF SoundOverdue
<1>4. CASE UNCHANGED vars
  BY <1>0, <1>4 DEF vars, SoundOverdue, Overdue, Held, Unreleased
<1>. QED
  BY <1>1, <1>2, <1>3, <1>4 DEF AnyMove

LEMMA RestoredActsStep ==
  ASSUME GroupInv, BaseInv', ToleranceInv, ReplicaInv', AnyMove
  PROVE  RestoredActs'
<1>0. RestoredActs /\ Settled
  BY DEF ToleranceInv, GroupInv
<1>1. ASSUME NEW i \in Slots, Solo(i)
      PROVE  RestoredActs'
  <2> SUFFICES ASSUME NEW k \in Slots, Overdue(k)', AllHeld'
               PROVE  lock' \in Slots /\ pc'[lock'] = "top" /\ RunsAction(lock)'
    BY DEF RestoredActs
  <2>0. Joins(i) \/ Turns(i)
    <3>1. pc'[i] \in InLoop
      BY DEF AllHeld, Held
    <3>. QED
      BY <1>1, <3>1 DEF Solo, GoesOn, Departs, Stops, InLoop
  <2>1. CASE Joins(i)
    <3>1. lock' = i /\ pc'[i] = "top" /\ local'[i].phase = local[i].phase
      BY <2>1 DEF Joins, KeepsPlace
    <3>2. CASE pc[i] = "bornDog"
      BY <3>1, <3>2 DEF ToleranceInv, MasterRestored, RunsAction
    <3>3. CASE pc[i] = "lock"
      <4>1. ~Overdue(i)'
        BY <2>1, <3>1, <3>3 DEF Joins, Overdue
      <4>2. Overdue(k)
        BY <1>1, <4>1, Others
      <4>3. Accounted(i)
        BY <1>0, <4>2 DEF Settled
      <4>. QED
        BY <3>3, <4>3 DEF Accounted, Held, InLoop, Stopped
    <3>. QED
      BY <2>1, <3>2, <3>3 DEF Joins
  <2>2. CASE Turns(i)
    <3>1. Held(i) /\ AllHeld
      <4>1. Held(i)' <=> Held(i)
        BY <2>2 DEF Turns, Held, Unreleased
      <4>. QED
        BY <1>1, <4>1, Others DEF AllHeld
    <3>2. CASE \E m \in Slots : Overdue(m)
      <4>1. lock \in Slots /\ pc[lock] = "top" /\ RunsAction(lock)
        BY <1>0, <3>1, <3>2 DEF RestoredActs
      <4>2. lock # i
        <5> SUFFICES ASSUME lock = i
                     PROVE  FALSE
          OBVIOUS
        <5>1. AtAction(i)
          BY <3>1, <4>1, FullWhenHeld DEF AtAction, Held
        <5>2. AtVote(i) /\ Verdict = i
          BY <2>2, <5>1 DEF Turns, VoteNamesSelf
        <5>3. i \in Faulty
          BY <5>2, VoteIsRight DEF AtVote, Voters, Slots
        <5>4. local[i].data = Good
          BY <3>2, <4>1 DEF ToleranceInv, SoundOverdue, Stopped
        <5>. QED
          BY <4>1, <5>3, <5>4 DEF Faulty
      <4>3. lock' = lock /\ pc'[lock] = "top" /\ local'[lock] = local[lock]
        BY <1>1, <2>2, <4>1, <4>2 DEF Turns, Solo, OnlyMove
      <4>. QED
        BY <4>1, <4>3 DEF RunsAction
    <3>3. CASE \A m \in Slots : ~Overdue(m)
      <4>1. k = i
        BY <1>1, <3>3, Others
      <4>2. Quiet
        BY <2>2, <3>3, <4>1 DEF Turns
      <4>3. PICK d \in Slots : pc[d] = "dead"
        BY <3>1, <3>3, <4>2, QuietForDead
      <4>. QED
        BY <3>1, <4>3 DEF AllHeld, Held, InLoop
    <3>. QED
      BY <3>2, <3>3
  <2>. QED
    BY <2>0, <2>1, <2>2
<1>2. ASSUME NEW i \in Slots, Opens(i)
      PROVE  RestoredActs'
  BY <1>2, NobodyHeld DEF RestoredActs
<1>3. ASSUME NEW i \in Slots, NEW v \in Slots, Restores(i, v)
      PROVE  RestoredActs'
  <2>1. ~Held(v)'
    BY <1>3 DEF Restores, Held, InLoop
  <2>. QED
    BY <2>1 DEF RestoredActs, AllHeld
<1>4. CASE UNCHANGED vars
  BY <1>0, <1>4 DEF vars, RestoredActs, AllHeld, Overdue, Held, Unreleased, RunsAction
<1>. QED
  BY <1>1, <1>2, <1>3, <1>4 DEF AnyMove

-----------------------------------------------------------------------------
(* The calls that have happened.                                           *)

LEMMA MasterNextStep ==
  ASSUME GroupInv, BaseInv', ToleranceInv, AnyMove
  PROVE  MasterNext'
<1>0. MasterNext /\ TypeInv
  BY DEF ToleranceInv, GroupInv, BaseInv
<1>1. ASSUME NEW i \in Slots, Solo(i)
      PROVE  MasterNext'
  BY <1>0, <1>1, NextStays DEF MasterNext
<1>2. ASSUME NEW i \in Slots, Opens(i)
      PROVE  MasterNext'
  <2>1. \A j \in Slots : NextBarrier(j)' = After(local[i].call, local[i].phase)
    BY <1>2, NextOpens
  <2>2. local[i].call \in Nat /\ local[i].phase \in Phases
    BY <1>0, LogTypes
  <2>3. LET b == After(local[i].call, local[i].phase)
        IN  b[2] = "master" => b[1] = local[i].call /\ Program[local[i].call] # "local"
    BY <2>2, AfterPlace
  <2>. QED
    BY <2>1, <2>3 DEF MasterNext
<1>3. ASSUME NEW i \in Slots, NEW v \in Slots, Restores(i, v)
      PROVE  MasterNext'
  <2>1. \A j \in Slots : Alive(j)' => \E k \in Slots : Alive(k) /\ NextBarrier(j)' = NextBarrier(k)
    BY <1>3, NextRestored
  <2>. QED
    BY <1>0, <2>1 DEF MasterNext
<1>4. CASE UNCHANGED vars
  BY <1>0, <1>4 DEF vars, MasterNext, Alive, NextBarrier, Through, Leaving, Unreleased
<1>. QED
  BY <1>1, <1>2, <1>3, <1>4 DEF AnyMove

\* A call that has an effect comes before the barrier after that of phase ph of
\* call n if it came before that one already, or is performed there.
LEMMA BeforeAfter ==
  ASSUME NEW c \in Nat, NEW n \in Nat, NEW ph \in Phases, Before(c, After(n, ph)), Program[c] # "local"
  PROVE  Before(c, <<n, ph>>) \/ (c = n /\ ph = "master")
<1>1. CASE ph = "check"
  <2>1. CASE Program[n] # "local"
    BY <1>1, <2>1 DEF After, Before
  <2>2. CASE Program[n] = "local"
    <3>1. After(n, ph) = <<n + 1, "check">>
      BY <1>1, <2>2 DEF After
    <3>2. c < n + 1 /\ c # n
      BY <2>2, <3>1 DEF Before
    <3>. QED
      BY <3>2 DEF Before
  <2>. QED
    BY <2>1, <2>2
<1>2. CASE ph = "master"
  <2>1. After(n, ph) \in {<<n, "exitState">>, <<n + 1, "check">>}
    BY <1>2 DEF After
  <2>. QED
    BY <1>2, <2>1 DEF Before
<1>3. CASE ph = "exitState"
  <2>1. After(n, ph) = <<n + 1, "check">>
    BY <1>3 DEF After
  <2>. QED
    BY <1>3, <2>1 DEF Before
<1>. QED
  BY <1>1, <1>2, <1>3 DEF Phases

\* What has happened stays so, and what the master performs happens.
LEMMA PerformedStays ==
  ASSUME TypeInv, NEW e \in [call : Calls, data : Data], log' = log \/ log' = Append(log, e)
  PROVE  /\ \A c \in Calls : Performed(c) => Performed(c)'
         /\ log' = Append(log, e) => Performed(e.call)'
<1>1. log \in Seq([call : Calls, data : Data])
  BY DEF TypeInv, TypeOK
<1>2. CASE log' = Append(log, e)
  <2>1. /\ Len(log) \in Nat /\ DOMAIN log = 1 .. Len(log) /\ DOMAIN log' = 1 .. Len(log) + 1
        /\ \A k \in 1 .. Len(log) : log'[k] = log[k]
        /\ log'[Len(log) + 1] = e
    BY <1>1, <1>2
  <2>2. Len(log) + 1 \in DOMAIN log' /\ DOMAIN log \subseteq DOMAIN log'
    BY <2>1
  <2>. QED
    BY <2>1, <2>2 DEF Performed
<1>3. CASE log' = log /\ log' # Append(log, e)
  BY <1>3 DEF Performed
<1>. QED
  BY <1>2, <1>3

LEMMA PerformedStep ==
  ASSUME GroupInv, BaseInv', ToleranceInv, WithinTolerance, AnyMove
  PROVE  PerformedInv'
<1>0. PerformedInv /\ TypeInv /\ Calls \subseteq Nat
  BY LogTypes DEF ToleranceInv, GroupInv, BaseInv
<1>1. ASSUME NEW i \in Slots, Solo(i)
      PROVE  PerformedInv'
  <2>1. log' = log
    BY <1>1, NothingFails DEF Solo
  <2>. QED
    BY <1>0, <1>1, <2>1, NextStays DEF PerformedInv, Performed
<1>2. ASSUME NEW i \in Slots, Opens(i)
      PROVE  PerformedInv'
  <2>1. \A j \in Slots : /\ Alive(j) /\ NextBarrier(j) = <<local[i].call, local[i].phase>>
                         /\ NextBarrier(j)' = After(local[i].call, local[i].phase)
    BY <1>2, NextOpens
  <2>2. local[i].call \in Nat /\ local[i].phase \in Phases
    BY <1>0, LogTypes
  <2> DEFINE e == [call |-> local[i].call, data |-> local[i].arg]
  <2>3. /\ MasterActs(i) => log' = Append(log, e)
        /\ MasterActs(i) \/ (local[i].phase # "master" /\ log' = log)
    BY <1>2 DEF Opens, MasterActs
  <2>4. e \in [call : Calls, data : Data]
    <3>1. pc[i] = "top"
      BY <1>2 DEF Opens, AtAction
    <3>. QED
      BY <1>0, <3>1 DEF TypeInv, TypeOK, InCall, Locals, Stopped
  <2>5. PICK n \in Calls : n = local[i].call /\ e.call = n
    BY <2>4
  <2> HIDE DEF e
  <2>6. log' = log \/ log' = Append(log, e)
    BY <2>3
  <2>7. /\ \A c \in Calls : Performed(c) => Performed(c)'
        /\ log' = Append(log, e) => Performed(n)'
    <3>1. PICK r \in [call : Calls, data : Data] : r = e
      BY <2>4
    <3>2. log' = log \/ log' = Append(log, r)
      BY <2>6, <3>1
    <3>3. r.call = n
      BY <2>5, <3>1
    <3>. QED
      BY <1>0, <3>1, <3>2, <3>3, PerformedStays
  <2>8. ASSUME NEW c \in Calls, Program[c] # "local", Before(c, After(local[i].call, local[i].phase))
        PROVE  Performed(c)'
    <3>1. CASE Before(c, <<local[i].call, local[i].phase>>)
      <4>1. Performed(c)
        BY <1>0, <2>1, <2>8, <3>1 DEF PerformedInv
      <4>. QED
        BY <2>7, <4>1
    <3>2. CASE c = local[i].call /\ local[i].phase = "master"
      BY <2>3, <2>5, <2>7, <3>2
    <3>. QED
      BY <1>0, <2>2, <2>8, <3>1, <3>2, BeforeAfter
  <2>. QED
    BY <2>1, <2>8 DEF PerformedInv
<1>3. ASSUME NEW i \in Slots, NEW v \in Slots, Restores(i, v)
      PROVE  PerformedInv'
  <2>1. \A j \in Slots : Alive(j)' => \E k \in Slots : Alive(k) /\ NextBarrier(j)' = NextBarrier(k)
    BY <1>3, NextRestored
  <2>2. \A c \in Calls : Performed(c)' <=> Performed(c)
    BY <1>3 DEF Restores, Performed
  <2>. QED
    BY <1>0, <2>1, <2>2 DEF PerformedInv
<1>4. CASE UNCHANGED vars
  BY <1>0, <1>4 DEF vars, PerformedInv, Performed, Alive, NextBarrier, Through, Leaving, Unreleased
<1>. QED
  BY <1>1, <1>2, <1>3, <1>4 DEF AnyMove

-----------------------------------------------------------------------------
(* The whole.                                                              *)

LEMMA ToleranceStep ==
  ASSUME WithinTolerance
  PROVE  GroupInv /\ ToleranceInv /\ [Next]_vars => ToleranceInv'
<1> SUFFICES ASSUME GroupInv, ToleranceInv, [Next]_vars
             PROVE  ToleranceInv'
  OBVIOUS
<1>1. BaseInv' /\ AnyMove
  BY BaseStep, StepKinds, ToleratedDieAwake DEF GroupInv, WithinTolerance
<1>2. ReplicaInv'
  BY ReplicaStep
<1>3. OneFaulty' /\ OneNewborn'
  BY <1>1, <1>2, OneFaultyStep, OneNewbornStep
<1>4. DeadBehind' /\ MasterRestored'
  BY <1>1, <1>2, DeadBehindStep, MasterRestoredStep
<1>5. SoundOverdue' /\ RestoredActs'
  BY <1>1, <1>2, SoundOverdueStep, RestoredActsStep
<1>6. MasterNext' /\ PerformedInv'
  BY <1>1, MasterNextStep, PerformedStep
<1>. QED
  BY <1>2, <1>3, <1>4, <1>5, <1>6 DEF ToleranceInv

LEMMA InitTolerance == Init => ToleranceInv
<1> SUFFICES ASSUME Init
             PROVE  ToleranceInv
  OBVIOUS
<1>1. \A i \in Slots : /\ pc[i] \in {"app", "bornInit"} /\ ~Held(i) /\ ~Overdue(i)
                       /\ NextBarrier(i) = <<1, "check">>
                       /\ local[i].data = Good
  BY DEF Init, Held, Overdue, Leaving, Through, NextBarrier, InLoop
<1>2. ReplicaInv
  <2> SUFFICES ASSUME NEW i \in Slots
               PROVE  ReplicaAt(i)
    BY DEF ReplicaInv
  <2>1. pc[i] = "app" => ~Unreleased(i)
    BY DEF Init, Unreleased, InitProcData, FreeProcData
  <2>. QED
    BY <1>1, <2>1 DEF ReplicaAt, Calling
<1>3. OneFaulty /\ OneNewborn /\ DeadBehind /\ MasterRestored
  BY <1>1 DEF OneFaulty, Faulty, OneNewborn, DeadBehind, MasterRestored
<1>4. SoundOverdue /\ RestoredActs /\ MasterNext
  BY <1>1 DEF SoundOverdue, RestoredActs, MasterNext
<1>5. PerformedInv
  BY <1>1 DEF PerformedInv, Before, Calls
<1>. QED
  BY <1>2, <1>3, <1>4, <1>5 DEF ToleranceInv

LEMMA ToleranceInvariant ==
  ASSUME WithinTolerance
  PROVE  Spec => [](GroupInv /\ LogInv /\ ToleranceInv)
<1>1. PatientTimers /\ DiesAwake
  BY ToleratedDieAwake DEF WithinTolerance
<1>2. Spec => [](GroupInv /\ ResultInv /\ LogInv /\ EffectsInOrder)
  BY <1>1, GroupInvariant
<1>3. Init => ToleranceInv
  BY InitTolerance
<1>4. GroupInv /\ ToleranceInv /\ [Next]_vars => ToleranceInv'
  BY ToleranceStep
<1>. QED
  BY <1>2, <1>3, <1>4, PTL DEF Spec

-----------------------------------------------------------------------------
(* The theorems.                                                           *)

\* No process exits on the group, in a failed vote or a failed watchdog, and none
\* finds its slot or the counts in a state it aborts on.
THEOREM GroupGoesOn ==
  ASSUME WithinTolerance
  PROVE  Spec => []NobodyGivesUp
<1>1. ToleranceInv => NobodyGivesUp
  BY DEF ToleranceInv, ReplicaInv, ReplicaAt, NobodyGivesUp
<1>. QED
  BY <1>1, ToleranceInvariant, PTL

\* The vote and the watchdog kill the process the fault has hit, and no other.
THEOREM OnlyTheFaultyDie ==
  ASSUME WithinTolerance
  PROVE  Spec => OnlyFaultyReplaced
<1> DEFINE Births == \A i \in Slots :
              pc[i] \notin {"bornVote", "bornDog"} /\ pc'[i] \in {"bornVote", "bornDog"} => i \in Faulty
<1>1. GroupInv /\ ToleranceInv /\ [Next]_vars => Births
  <2> SUFFICES ASSUME GroupInv, ToleranceInv, [Next]_vars, NEW s \in Slots,
                      pc[s] \notin {"bornVote", "bornDog"}, pc'[s] \in {"bornVote", "bornDog"}
               PROVE  s \in Faulty
    OBVIOUS
  <2>0. TypeInv /\ MutexInv /\ AnyMove
    BY StepKinds, ToleratedDieAwake DEF GroupInv, BaseInv, WithinTolerance
  <2>1. ASSUME NEW i \in Slots, Solo(i)
        PROVE  FALSE
    <3>1. s = i
      BY <2>1 DEF Solo, OnlyMove
    <3>. QED
      BY <2>1, <3>1 DEF Solo, GoesOn, Joins, Turns, Departs, Stops, InLoop
  <2>2. ASSUME NEW i \in Slots, Opens(i)
        PROVE  s \in Faulty
    <3>1. CASE VoteAgrees(i) \/ MasterActs(i)
      <4>1. Complete(i, pc, allProcShm)
        BY <3>1 DEF VoteAgrees, MasterActs
      <4>. QED
        BY <2>0, <4>1, OpenEffect
    <3>2. CASE VoteReplaces(i)
      <4>1. s = Verdict
        BY <2>0, <3>2, VoteReplacesEffect
      <4>2. AtVote(i) /\ Verdict \in Voters
        BY <3>2 DEF VoteReplaces
      <4>. QED
        BY <4>1, <4>2, VoteIsRight
    <3>. QED
      BY <2>2, <3>1, <3>2 DEF Opens
  <2>3. ASSUME NEW i \in Slots, NEW v \in Slots, Restores(i, v)
        PROVE  s \in Faulty
    <3>1. s = v
      BY <2>3 DEF Restores
    <3>. QED
      BY <2>3, <3>1, VictimDead DEF Restores, WatchdogReplaces
  <2>4. ~UNCHANGED vars
    BY DEF vars
  <2>. QED
    BY <2>0, <2>1, <2>2, <2>3, <2>4 DEF AnyMove
<1>2. OnlyFaultyReplaced <=> [][Births]_vars
  BY DEF OnlyFaultyReplaced
<1> HIDE DEF Births
<1>. QED
  BY <1>1, <1>2, ToleranceInvariant, PTL DEF Spec

-----------------------------------------------------------------------------
(* The group is one process.                                               *)

\* What the outside sees of a step: the log, and the calls returned from.
Returned == [k \in Slots |-> local[k].call - 1]

\* A step that neither appends to the log nor moves a process to another call.
LEMMA Unseen ==
  ASSUME log' = log, \A k \in Slots : local'[k].call = local[k].call
  PROVE  UNCHANGED Virtual!vvars
<1>1. Returned' = Returned
  BY DEF Returned
<1>. QED
  BY <1>1 DEF Virtual!vvars, Returned

\* A copy is where the process it has been forked from is.
LEMMA SeenReplaced ==
  ASSUME NEW i \in Slots, NEW v \in Slots, log' = log, local'[v].call = local[i].call,
         \A k \in Slots \ {v} : local'[k] = local[k]
  PROVE  Virtual!VNext
<1>1. Returned' = [Returned EXCEPT ![v] = Returned[i]]
  BY DEF Returned
<1>2. Virtual!Replace(v, i)
  BY <1>1 DEF Virtual!Replace, Returned
<1>. QED
  BY <1>2 DEF Virtual!VNext

\* When the master performs a call, all have returned from the one before, the call
\* has an effect and has not had it, and the data are right.
LEMMA SeenPerformed ==
  ASSUME GroupInv, LogInv, ToleranceInv, NEW i \in Slots, MasterActs(i)
  PROVE  Virtual!VNext
<1>0. TypeInv
  BY DEF GroupInv, BaseInv
<1>1. /\ AtMasterAct(i) /\ pc[i] = "top" /\ local[i].phase = "master"
      /\ log' = Append(log, [call |-> local[i].call, data |-> local[i].arg])
  BY DEF MasterActs, AtMasterAct, AtAction
<1>2. lock = i /\ Held(i) /\ \A k \in Slots : local[k].call = local[i].call
  BY <1>1, EverybodyHeld DEF AtMasterAct, AtAction
<1>3. PICK c \in Calls : c = local[i].call
  BY <1>0, <1>1 DEF TypeInv, TypeOK, InCall, Stopped
<1>4. Alive(i) /\ ~Jammed /\ NextBarrier(i) = <<c, "master">>
  BY <1>1, <1>2, <1>3 DEF Alive, Jammed, NextBarrier, Through, Held, Leaving
<1>5. Program[c] # "local"
  BY <1>4 DEF ToleranceInv, MasterNext
<1>6. \A k \in DOMAIN log : log[k].call # c
  <2> SUFFICES ASSUME NEW k \in DOMAIN log
               PROVE  log[k].call # c
    OBVIOUS
  <2>1. Before(log[k].call, <<c, "master">>)
    BY <1>4 DEF LogInv
  <2>2. log[k].call \in Nat
    BY <1>0, LogTypes
  <2>. QED
    BY <2>1, <2>2, LogTypes, <1>0 DEF Before
<1>7. local[i].arg = Good
  <2>1. ShowsOwn(i)
    BY <1>1 DEF Calling, Stopped, ToleranceInv, ReplicaInv, ReplicaAt
  <2>. QED
    BY <1>1, <2>1 DEF ShowsOwn
<1>8. Returned' = Returned
  <2>1. \A k \in Slots : local'[k].call = local[k].call
    BY <1>0, MasterActsEffect DEF KeepsPlace
  <2>. QED
    BY <2>1 DEF Returned
<1>9. \A k \in Slots : Returned[k] = c - 1
  BY <1>2, <1>3 DEF Returned
<1>10. Virtual!Perform(c)
  <2>1. Virtual!HasEffect(c) /\ ~Virtual!Happened(c)
    BY <1>5, <1>6 DEF Virtual!HasEffect, Virtual!Happened
  <2>2. log' = Append(log, [call |-> c, data |-> Good])
    BY <1>1, <1>3, <1>7
  <2>. QED
    BY <1>8, <1>9, <2>1, <2>2 DEF Virtual!Perform, Returned
<1>. QED
  BY <1>3, <1>10 DEF Virtual!VNext, Virtual!VCalls, Calls

\* When a process returns from a call, the call has had its effect, and nobody is a
\* whole call behind.
LEMMA SeenReturned ==
  ASSUME GroupInv, ToleranceInv, NEW i \in Slots, EndCall(i), log' = log, OnlyMove({i})
  PROVE  Virtual!VNext
<1>0. TypeInv /\ Calls \subseteq Nat
  BY LogTypes DEF GroupInv, BaseInv
<1>1. pc[i] \in {"past", "copied"} /\ CallOver(i)
  BY DEF EndCall, CallOver
<1>2. PICK c \in Calls : c = local[i].call
  BY <1>0, <1>1 DEF TypeInv, TypeOK, InCall, Stopped
<1>3. Alive(i) /\ NextBarrier(i) = <<c + 1, "check">>
  <2>1. pc[i] = "copied" => local[i].phase = "master"
    BY DEF GroupInv, BaseInv, PhaseInv
  <2>. QED
    BY <1>1, <1>2, <2>1 DEF CallOver, NextBarrier, Through, After, Alive
<1>4. Program[c] # "local" => Performed(c)
  BY <1>0, <1>3 DEF ToleranceInv, PerformedInv, Before
<1>5. ASSUME NEW k \in Slots
      PROVE  local[k].call >= c
  <2>1. local[k].call \in Nat /\ local[k].phase \in Phases
    BY <1>0, LogTypes
  <2>2. CASE Alive(k)
    <3>1. NextBarrier(k) = <<c + 1, "check">>
      BY <1>3, <2>2 DEF GroupInv, Lockstep
    <3>2. CASE Through(k)
      <4>1. After(local[k].call, local[k].phase)[1] \in {local[k].call, local[k].call + 1}
        BY <2>1, AfterPlace
      <4>. QED
        BY <1>0, <2>1, <3>1, <3>2, <4>1 DEF NextBarrier
    <3>3. CASE ~Through(k)
      BY <1>0, <2>1, <3>1, <3>3 DEF NextBarrier
    <3>. QED
      BY <3>2, <3>3
  <2>3. CASE ~Alive(k)
    <3>1. pc[k] = "dead"
      BY <2>3 DEF Alive, ToleranceInv, ReplicaInv, ReplicaAt
    <3>2. NextBarrier(i)[1] <= local[k].call + 1
      BY <1>3, <3>1 DEF ToleranceInv, DeadBehind
    <3>. QED
      BY <1>0, <1>3, <2>1, <3>2
  <2>. QED
    BY <2>2, <2>3
<1>6. local'[i].call = c + 1 /\ \A k \in Slots \ {i} : local'[k] = local[k]
  BY <1>0, <1>2, EndCallEffect DEF OnlyMove
<1>7. Returned' = [Returned EXCEPT ![i] = c]
  <2>1. local'[i].call - 1 = c
    BY <1>0, <1>6
  <2>2. \A k \in Slots : Returned'[k] = IF k = i THEN c ELSE Returned[k]
    BY <1>6, <2>1 DEF Returned
  <2>. QED
    BY <2>2 DEF Returned
<1>8. /\ Returned[i] = c - 1
      /\ \A k \in Slots : Returned[k] >= c - 1
  <2>1. \A k \in Slots : local[k].call \in Nat
    BY <1>0, LogTypes
  <2>. QED
    BY <1>0, <1>2, <1>5, <2>1 DEF Returned
<1>9. Virtual!Return(i, c)
  <2>1. Virtual!HasEffect(c) => Virtual!Happened(c)
    BY <1>4 DEF Virtual!HasEffect, Virtual!Happened, Performed
  <2>. QED
    BY <1>7, <1>8, <2>1 DEF Virtual!Return, Returned
<1>. QED
  BY <1>2, <1>9 DEF Virtual!VNext, Virtual!VCalls, Calls

LEMMA StepSeen ==
  ASSUME WithinTolerance
  PROVE  GroupInv /\ LogInv /\ ToleranceInv /\ [Next]_vars => [Virtual!VNext]_(Virtual!vvars)
<1> SUFFICES ASSUME GroupInv, LogInv, ToleranceInv, [Next]_vars
             PROVE  Virtual!VNext \/ UNCHANGED Virtual!vvars
  OBVIOUS
<1>0. TypeInv /\ MutexInv /\ AnyMove
  BY StepKinds, ToleratedDieAwake DEF GroupInv, BaseInv, WithinTolerance
<1>1. ASSUME NEW i \in Slots, Solo(i)
      PROVE  Virtual!VNext \/ UNCHANGED Virtual!vvars
  <2>1. log' = log /\ OnlyMove({i})
    BY <1>1, NothingFails DEF Solo
  <2>2. local'[i].call = local[i].call \/ EndCall(i)
    BY <1>1 DEF Solo, GoesOn, Joins, Turns, Departs, Stops, KeepsPlace
  <2>3. CASE local'[i].call = local[i].call
    BY <2>1, <2>3, Unseen DEF OnlyMove
  <2>. QED
    BY <2>1, <2>2, <2>3, SeenReturned
<1>2. ASSUME NEW i \in Slots, Opens(i)
      PROVE  Virtual!VNext \/ UNCHANGED Virtual!vvars
  <2>1. CASE VoteAgrees(i)
    BY <2>1, Unseen DEF VoteAgrees
  <2>2. CASE VoteReplaces(i)
    <3>1. PICK v \in Slots : v = Verdict
      BY <1>0, <2>2, VoteReplacesEffect
    <3>2. local'[v] = local[i] /\ \A k \in Slots \ {v} : local'[k] = local[k]
      BY <1>0, <2>2, <3>1, VoteReplacesEffect
    <3>3. log' = log
      BY <2>2 DEF VoteReplaces
    <3>. QED
      BY <3>2, <3>3, SeenReplaced
  <2>3. CASE MasterActs(i)
    BY <2>3, SeenPerformed
  <2>. QED
    BY <1>2, <2>1, <2>2, <2>3 DEF Opens
<1>3. ASSUME NEW i \in Slots, NEW v \in Slots, Restores(i, v)
      PROVE  Virtual!VNext
  BY <1>3, SeenReplaced DEF Restores, TakesAfter
<1>4. CASE UNCHANGED vars
  BY <1>4, Unseen DEF vars
<1>. QED
  BY <1>0, <1>1, <1>2, <1>3, <1>4 DEF AnyMove

\* To the outside the group is one fault-free process: each call with an effect
\* happens once, in order, with the right data and not before all have got to it.
THEOREM GroupActsAsOne ==
  ASSUME WithinTolerance
  PROVE  Spec => ActsAsOne
<1>1. Init => Virtual!VInit
  BY DEF Init, Virtual!VInit
<1>2. GroupInv /\ LogInv /\ ToleranceInv /\ [Next]_vars => [Virtual!VNext]_(Virtual!vvars)
  BY StepSeen
<1>. QED
  BY <1>1, <1>2, ToleranceInvariant, PTL DEF Spec, ActsAsOne, Virtual!VSpec
=============================================================================
