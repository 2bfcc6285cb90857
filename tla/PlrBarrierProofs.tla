--------------------------- MODULE PlrBarrierProofs ---------------------------
(***************************************************************************)
(* Theorems about the barrier that hold for every number of processes,     *)
(* every program, every fault and every behaviour of the timers.           *)
(***************************************************************************)
EXTENDS PlrBarrier, FiniteSetTheorems, LeastNatural, TLAPS

USE NProcAssumption, ProgramAssumption, FaultsAssumption, FlagsAssumption

-----------------------------------------------------------------------------
(* Types.                                                                  *)

\* A process inside a wrapper is at one of the program's calls.
InCall ==
  \A i \in Slots : pc[i] \notin {"app", "bornInit"} \cup Stopped => local[i].call \in Calls

TypeInv == TypeOK /\ InCall

\* Signals only move processes from the wait to the way out of it.
LEMMA SignalType ==
  ASSUME NEW pcs \in [Slots -> PCs], NEW S, NEW idx
  PROVE  /\ Signal(pcs, S, idx) \in [Slots -> PCs]
         /\ \A j \in Slots : \/ Signal(pcs, S, idx)[j] = pcs[j]
                             \/ pcs[j] = "wait" /\ Signal(pcs, S, idx)[j] = "woken"
BY DEF Signal, PCs

LEMMA BlockTypes ==
  /\ FreeProcData \in ProcData
  /\ InitProcData \in ProcData
  /\ \A src \in ProcData : InitProcDataAsCopy(src) \in ProcData
  /\ \A c \in Calls, d \in Data : CallArgs(c, d) \in ArgBlocks /\ ExitState(c, d) \in ArgBlocks
<1>1. Len(Program) \in Nat
  OBVIOUS
<1>2. \A c \in Calls, d \in Data : CallArgs(c, d) \in ArgBlocks /\ ExitState(c, d) \in ArgBlocks
  BY <1>1 DEF CallArgs, ExitState, ArgBlocks, Calls
<1>3. CallArgs(0, Good) \in ArgBlocks
  BY <1>1 DEF CallArgs, ArgBlocks, Data
<1>4. FreeProcData \in ProcData
  BY <1>3 DEF FreeProcData, ProcData
<1>5. InitProcData \in ProcData
  BY <1>4 DEF InitProcData, ProcData
<1>6. \A src \in ProcData : InitProcDataAsCopy(src) \in ProcData
  BY <1>5 DEF InitProcDataAsCopy, ProcData
<1>. QED
  BY <1>2, <1>4, <1>5, <1>6

\* Opening the barrier keeps the types.
LEMMA CompleteType ==
  ASSUME TypeOK, NEW i \in Slots, NEW pcs \in [Slots -> PCs],
         NEW slots \in [Slots -> ProcData], Complete(i, pcs, slots)
  PROVE  /\ lock' \in Slots \cup {Nobody}
         /\ curWaitIdx' \in {0, 1}
         /\ condWaitCnt' \in [{0, 1} -> Int]
         /\ allProcShm' \in [Slots -> ProcData]
         /\ pc' \in [Slots -> PCs]
<1>1. local[i].waitIdx \in {0, 1}
  BY DEF TypeOK, Locals
<1>2. Signal(pcs, Slots, local[i].waitIdx) \in [Slots -> PCs]
  BY SignalType
<1>3. pc' \in [Slots -> PCs]
  BY <1>2 DEF Complete, PCs
<1>4. allProcShm' \in [Slots -> ProcData]
  BY DEF Complete, ProcData
<1>5. condWaitCnt' \in [{0, 1} -> Int]
  BY <1>1 DEF Complete, TypeOK
<1>6. curWaitIdx' \in {0, 1} /\ lock' \in Slots \cup {Nobody}
  BY DEF Complete, TypeOK
<1>. QED
  BY <1>3, <1>4, <1>5, <1>6

LEMMA ExitType ==
  ASSUME TypeOK, NEW i \in Slots, ExitWithError(i)
  PROVE  TypeOK'
<1>1. local[i].waitIdx \in {0, 1}
  BY DEF TypeOK, Locals
<1>2. allProcShm' \in [Slots -> ProcData]
  BY ZenonT(40) DEF ExitWithError, TypeOK, ProcData
<1>3. condWaitCnt' \in [{0, 1} -> Int]
  BY <1>1 DEF ExitWithError, TypeOK
<1>4. pc' \in [Slots -> PCs]
  BY DEF ExitWithError, TypeOK, PCs
<1>. QED
  BY <1>2, <1>3, <1>4 DEF ExitWithError, TypeOK

\* What the wrappers and the barrier do to a process's own variables keeps their types.
LEMMA LenType == Len(Program) \in Nat
OBVIOUS

LEMMA LocalTypes ==
  ASSUME NEW l \in Locals
  PROVE  /\ \A c \in 1 .. Len(Program) + 1, ph \in Phases : [l EXCEPT !.call = c, !.phase = ph] \in Locals
         /\ \A ph \in Phases : [l EXCEPT !.phase = ph] \in Locals
         /\ \A d \in Data, r \in 0 .. Len(Program) : [l EXCEPT !.arg = d, !.ret = r] \in Locals
         /\ \A d \in Data : [l EXCEPT !.data = d] \in Locals
         /\ \A r \in 0 .. Len(Program) : [l EXCEPT !.ret = r] \in Locals
         /\ [l EXCEPT !.watchdogExpired = TRUE] \in Locals
         /\ \A w \in {0, 1} : [l EXCEPT !.waitIdx = w, !.watchdogExpired = FALSE] \in Locals
         /\ \A w \in {0, 1} : [l EXCEPT !.dogIdx = w] \in Locals
         /\ \A r : [l EXCEPT !.ret = r].call = l.call
         /\ [l EXCEPT !.watchdogExpired = TRUE].call = l.call
<1>0. \A r : [l EXCEPT !.ret = r].call = l.call /\ [l EXCEPT !.watchdogExpired = TRUE].call = l.call
  BY DEF Locals
<1>1. \A c \in 1 .. Len(Program) + 1, ph \in Phases : [l EXCEPT !.call = c, !.phase = ph] \in Locals
  BY DEF Locals
<1>2. \A ph \in Phases : [l EXCEPT !.phase = ph] \in Locals
  BY DEF Locals
<1>3. \A d \in Data, r \in 0 .. Len(Program) : [l EXCEPT !.arg = d, !.ret = r] \in Locals
  BY DEF Locals
<1>4. \A d \in Data : [l EXCEPT !.data = d] \in Locals
  BY DEF Locals
<1>5. \A r \in 0 .. Len(Program) : [l EXCEPT !.ret = r] \in Locals
  BY DEF Locals
<1>6. [l EXCEPT !.watchdogExpired = TRUE] \in Locals
  BY DEF Locals
<1>7. \A w \in {0, 1} : [l EXCEPT !.waitIdx = w, !.watchdogExpired = FALSE] \in Locals
  BY DEF Locals
<1>8. \A w \in {0, 1} : [l EXCEPT !.dogIdx = w] \in Locals
  BY DEF Locals
<1>. QED
  BY <1>0, <1>1, <1>2, <1>3, <1>4, <1>5, <1>6, <1>7, <1>8

\* The watchdog kills a process that has not arrived.
LEMMA VictimMissing == NotWaiting # {} => Victim \in NotWaiting
<1>1. NotWaiting \in SUBSET Nat
  BY DEF NotWaiting, Slots
<1>. QED
  BY <1>1, LeastElement DEF Victim

\* Every action keeps the types.
LEMMA TypeStep == TypeInv /\ [Next]_vars => TypeInv'
<1> SUFFICES ASSUME TypeInv, [Next]_vars
             PROVE  TypeInv'
  OBVIOUS
<1>1. ASSUME NEW i \in Slots, BeginCall(i)
      PROVE  TypeInv'
  <2>1. "lock" \in PCs
    BY DEF PCs
  <2>2. 0 \in 0 .. Len(Program)
    BY LenType
  <2>3. \A d \in {local[i].data, Good} : d \in Data /\ CallArgs(local[i].call, d) \in ArgBlocks
    BY <1>1, BlockTypes DEF BeginCall, TypeOK, Locals, Data, TypeInv
  <2>4. PICK d \in {local[i].data, Good} : /\ allProcShm' = [allProcShm EXCEPT ![i].insidePLR = TRUE, ![i].syscallArgs = CallArgs(local[i].call, d)]
                                      /\ local' = [local EXCEPT ![i].arg = d, ![i].ret = 0]
    BY <1>1 DEF BeginCall, TypeInv
  <2>5. allProcShm' \in [Slots -> ProcData]
    <3>1. allProcShm[i] \in ProcData /\ CallArgs(local[i].call, d) \in ArgBlocks
      BY <2>3 DEF TypeOK, TypeInv
    <3>2. [allProcShm[i] EXCEPT !.insidePLR = TRUE, !.syscallArgs = CallArgs(local[i].call, d)]
            \in ProcData
      BY <3>1 DEF ProcData
    <3>3. allProcShm' = [allProcShm EXCEPT ![i] =
            [allProcShm[i] EXCEPT !.insidePLR = TRUE, !.syscallArgs = CallArgs(local[i].call, d)]]
      BY <2>4 DEF TypeOK, TypeInv
    <3>4. allProcShm \in [Slots -> ProcData]
      BY DEF TypeOK, TypeInv
    <3>. QED
      BY <3>2, <3>3, <3>4
  <2>6. [local[i] EXCEPT !.arg = d, !.ret = 0] \in Locals
    BY <1>1, <2>2, <2>3, LocalTypes DEF TypeOK, TypeInv
  <2>7. local' = [local EXCEPT ![i] = [local[i] EXCEPT !.arg = d, !.ret = 0]]
    BY <1>1, <2>4 DEF TypeOK, TypeInv
  <2>8. local' \in [Slots -> Locals]
    BY <1>1, <2>6, <2>7 DEF TypeOK, TypeInv
  <2>9. pc' \in [Slots -> PCs]
    BY <1>1, <2>1 DEF BeginCall, TypeOK, TypeInv
  <2>10. \A j \in Slots : local'[j].call = local[j].call
    BY <1>1, <2>7 DEF TypeOK, Locals, TypeInv
  <2>11. TypeOK'
    BY <1>1, <2>1, <2>2, <2>3, <2>4, <2>5, <2>6, <2>7, <2>8, <2>9, <2>10 DEF BeginCall, TypeInv, TypeOK
  <2>12. InCall'
    BY <1>1, <2>1, <2>2, <2>3, <2>4, <2>5, <2>6, <2>7, <2>8, <2>9, <2>10 DEF BeginCall, TypeInv, TypeOK, InCall, Stopped
  <2>. QED
    BY <2>11, <2>12 DEF TypeInv
<1>2. ASSUME NEW i \in Slots, BeginMasterAction(i)
      PROVE  TypeInv'
  <2>1. "lock" \in PCs /\ "master" \in Phases
    BY DEF PCs, Phases
  <2>2. [local[i] EXCEPT !.phase = "master"] \in Locals
    BY <1>2, <2>1, LocalTypes DEF TypeOK, TypeInv
  <2>3. local' = [local EXCEPT ![i] = [local[i] EXCEPT !.phase = "master"]]
    BY <1>2 DEF BeginMasterAction, TypeOK, TypeInv
  <2>4. local' \in [Slots -> Locals]
    BY <1>2, <2>2, <2>3 DEF TypeOK, TypeInv
  <2>5. pc' \in [Slots -> PCs]
    BY <1>2, <2>1 DEF BeginMasterAction, TypeOK, TypeInv
  <2>6. \A j \in Slots : local'[j].call = local[j].call
    BY <1>2, <2>3 DEF TypeOK, Locals, TypeInv
  <2>7. TypeOK'
    BY <1>2, <2>1, <2>2, <2>3, <2>4, <2>5, <2>6 DEF BeginMasterAction, TypeInv, TypeOK
  <2>8. InCall'
    BY <1>2, <2>1, <2>2, <2>3, <2>4, <2>5, <2>6 DEF BeginMasterAction, TypeInv, TypeOK, InCall, Stopped
  <2>. QED
    BY <2>7, <2>8 DEF TypeInv
<1>3. ASSUME NEW i \in Slots, CopyResult(i)
      PROVE  TypeInv'
  <2>1. "copied" \in PCs
    BY DEF PCs
  <2>2. [local[i] EXCEPT !.ret = extraShm] \in Locals
    BY <1>3, LocalTypes DEF TypeOK, TypeInv
  <2>3. local' = [local EXCEPT ![i] = [local[i] EXCEPT !.ret = extraShm]] \/ local' = local
    BY <1>3 DEF CopyResult, TypeOK, TypeInv
  <2>4. local' \in [Slots -> Locals]
    BY <1>3, <2>2, <2>3 DEF TypeOK, TypeInv
  <2>5. pc' \in [Slots -> PCs]
    BY <1>3, <2>1 DEF CopyResult, TypeOK, TypeInv
  <2>6. [local[i] EXCEPT !.ret = extraShm].call = local[i].call
    BY <1>3, LocalTypes DEF TypeOK, TypeInv
  <2>7. \A j \in Slots : local'[j].call = local[j].call
    BY <1>3, <2>3, <2>6 DEF TypeOK, TypeInv
  <2>8. TypeOK'
    BY <1>3, <2>1, <2>2, <2>3, <2>4, <2>5, <2>6, <2>7 DEF CopyResult, TypeInv, TypeOK
  <2>9. InCall'
    BY <1>3, <2>1, <2>2, <2>3, <2>4, <2>5, <2>6, <2>7 DEF CopyResult, TypeInv, TypeOK, InCall, Stopped
  <2>. QED
    BY <2>8, <2>9 DEF TypeInv
<1>4. ASSUME NEW i \in Slots, BeginExitState(i)
      PROVE  TypeInv'
  <2>1. "lock" \in PCs /\ "exitState" \in Phases
    BY DEF PCs, Phases
  <2>2. local[i].call \in Calls
    BY <1>4 DEF BeginExitState, InCall, Stopped, TypeInv
  <2>3. \A d \in {local[i].data, Good} : ExitState(local[i].call, d) \in ArgBlocks
    BY <1>4, <2>2, BlockTypes DEF TypeOK, Locals, Data, TypeInv
  <2>4. allProcShm' \in [Slots -> ProcData]
    BY <1>4, <2>3, ZenonT(40) DEF BeginExitState, TypeOK, ProcData, TypeInv
  <2>5. [local[i] EXCEPT !.phase = "exitState"] \in Locals
    BY <1>4, <2>1, LocalTypes DEF TypeOK, TypeInv
  <2>6. local' = [local EXCEPT ![i] = [local[i] EXCEPT !.phase = "exitState"]]
    BY <1>4 DEF BeginExitState, TypeOK, TypeInv
  <2>7. local' \in [Slots -> Locals]
    BY <1>4, <2>5, <2>6 DEF TypeOK, TypeInv
  <2>8. pc' \in [Slots -> PCs]
    BY <1>4, <2>1 DEF BeginExitState, TypeOK, TypeInv
  <2>9. \A j \in Slots : local'[j].call = local[j].call
    BY <1>4, <2>6 DEF TypeOK, Locals, TypeInv
  <2>10. TypeOK'
    BY <1>4, <2>1, <2>2, <2>3, <2>4, <2>5, <2>6, <2>7, <2>8, <2>9 DEF BeginExitState, TypeInv, TypeOK
  <2>11. InCall'
    BY <1>4, <2>1, <2>2, <2>3, <2>4, <2>5, <2>6, <2>7, <2>8, <2>9 DEF BeginExitState, TypeInv, TypeOK, InCall, Stopped
  <2>. QED
    BY <2>10, <2>11 DEF TypeInv
<1>5. ASSUME NEW i \in Slots, EndCall(i)
      PROVE  TypeInv'
  <2>1. "app" \in PCs /\ "check" \in Phases
    BY DEF PCs, Phases
  <2>2. local[i].call \in Calls
    BY <1>5 DEF EndCall, CallOver, InCall, Stopped, TypeInv
  <2>3. local[i].call + 1 \in 1 .. Len(Program) + 1
    BY <2>2 DEF Calls
  <2>4. allProcShm' \in [Slots -> ProcData]
    BY <1>5, ZenonT(40) DEF EndCall, TypeOK, ProcData, TypeInv
  <2>5. [local[i] EXCEPT !.call = local[i].call + 1, !.phase = "check"] \in Locals
    BY <1>5, <2>1, <2>3, LocalTypes DEF TypeOK, TypeInv
  <2>6. local' = [local EXCEPT ![i] = [local[i] EXCEPT !.call = local[i].call + 1, !.phase = "check"]]
    BY <1>5 DEF EndCall, TypeOK, TypeInv
  <2>7. local' \in [Slots -> Locals]
    BY <1>5, <2>5, <2>6 DEF TypeOK, TypeInv
  <2>8. pc' \in [Slots -> PCs]
    BY <1>5, <2>1 DEF EndCall, TypeOK, TypeInv
  <2>9. \A j \in Slots \ {i} : local'[j] = local[j]
    BY <1>5, <2>6 DEF TypeOK, TypeInv
  <2>10. TypeOK'
    BY <1>5, <2>1, <2>2, <2>3, <2>4, <2>5, <2>6, <2>7, <2>8, <2>9 DEF EndCall, TypeInv, TypeOK
  <2>11. InCall'
    BY <1>5, <2>1, <2>2, <2>3, <2>4, <2>5, <2>6, <2>7, <2>8, <2>9 DEF EndCall, TypeInv, TypeOK, InCall, Stopped, CallOver
  <2>. QED
    BY <2>10, <2>11 DEF TypeInv
<1>6. ASSUME NEW i \in Slots, ExitProgram(i)
      PROVE  TypeInv'
  BY <1>6 DEF ExitProgram, TypeInv, TypeOK, InCall, PCs, Stopped
<1>7. ASSUME NEW i \in Slots, EnterBarrier(i)
      PROVE  TypeInv'
  <2>1. "top" \in PCs
    BY DEF PCs
  <2>2. [local[i] EXCEPT !.waitIdx = curWaitIdx, !.watchdogExpired = FALSE] \in Locals
    BY <1>7, LocalTypes DEF TypeOK, TypeInv
  <2>3. local' = [local EXCEPT ![i] = [local[i] EXCEPT !.waitIdx = curWaitIdx, !.watchdogExpired = FALSE]]
    BY <1>7 DEF EnterBarrier, TypeOK, TypeInv
  <2>4. local' \in [Slots -> Locals]
    BY <1>7, <2>2, <2>3 DEF TypeOK, TypeInv
  <2>5. allProcShm' \in [Slots -> ProcData]
    BY <1>7, ZenonT(40) DEF EnterBarrier, TypeOK, ProcData, TypeInv
  <2>6. condWaitCnt' \in [{0, 1} -> Int]
    BY <1>7 DEF EnterBarrier, TypeOK, TypeInv
  <2>7. PICK S : pc' = [Signal(pc, S, curWaitIdx) EXCEPT ![i] = "top"]
    BY <1>7 DEF EnterBarrier, TypeInv
  <2>8. pc' \in [Slots -> PCs]
    BY <1>7, <2>1, <2>7, SignalType DEF TypeOK, TypeInv
  <2>9. pc'[i] = "top" /\ \A j \in Slots \ {i} : pc'[j] = pc[j] \/ pc[j] = "wait"
    BY <1>7, <2>7, SignalType DEF TypeOK, TypeInv
  <2>10. \A j \in Slots : local'[j].call = local[j].call
    BY <1>7, <2>3 DEF TypeOK, Locals, TypeInv
  <2>11. TypeOK'
    BY <1>7, <2>1, <2>2, <2>3, <2>4, <2>5, <2>6, <2>7, <2>8, <2>9, <2>10 DEF EnterBarrier, TypeInv, TypeOK
  <2>12. InCall'
    BY <1>7, <2>1, <2>2, <2>3, <2>4, <2>5, <2>6, <2>7, <2>8, <2>9, <2>10 DEF EnterBarrier, TypeInv, TypeOK, InCall, Stopped
  <2>. QED
    BY <2>11, <2>12 DEF TypeInv
<1>8. ASSUME NEW i \in Slots, ArrivalAborts(i)
      PROVE  TypeInv'
  BY <1>8 DEF ArrivalAborts, TypeInv, TypeOK, InCall, PCs, Stopped
<1>9. ASSUME NEW i \in Slots, LeaveReleased(i)
      PROVE  TypeInv'
  <2>1. local[i].waitIdx \in {0, 1}
    BY <1>9 DEF TypeOK, Locals, TypeInv
  <2>2. condWaitCnt' \in [{0, 1} -> Int]
    BY <1>9, <2>1 DEF LeaveReleased, TypeOK, TypeInv
  <2>3. pc' \in [Slots -> PCs]
    BY <1>9 DEF LeaveReleased, TypeOK, PCs, TypeInv
  <2>4. TypeOK'
    BY <1>9, <2>1, <2>2, <2>3 DEF LeaveReleased, TypeInv, TypeOK
  <2>5. InCall'
    BY <1>9, <2>1, <2>2, <2>3 DEF LeaveReleased, TypeInv, TypeOK, InCall, Stopped
  <2>. QED
    BY <2>4, <2>5 DEF TypeInv
<1>10. ASSUME NEW i \in Slots, VoteAgrees(i)
      PROVE  TypeInv'
  <2>1. AtAction(i)
    BY <1>10 DEF VoteAgrees, AtVote
  <2>2. Complete(i, pc, allProcShm)
    BY <1>10 DEF VoteAgrees
  <2>3. pc'[i] = "past" /\ \A j \in Slots \ {i} : pc'[j] = pc[j] \/ pc[j] = "wait"
    BY <1>10, <2>2, SignalType DEF Complete, TypeOK, TypeInv
  <2>4. TypeOK'
    BY <1>10, <2>2, CompleteType DEF VoteAgrees, TypeOK, TypeInv
  <2>5. InCall'
    BY <1>10, <2>1, <2>3 DEF VoteAgrees, AtAction, InCall, Stopped, TypeInv
  <2>. QED
    BY <2>4, <2>5 DEF TypeInv
<1>11. ASSUME NEW i \in Slots, VoteNamesSelf(i)
      PROVE  TypeInv'
  <2>1. AtAction(i)
    BY <1>11 DEF VoteNamesSelf, AtVote
  <2>2. "dog" \in PCs
    BY DEF PCs
  <2>3. PICK S : pc' = [Signal(pc, S, local[i].waitIdx) EXCEPT ![i] = "dog"]
    BY <1>11 DEF VoteNamesSelf, TypeInv
  <2>4. pc' \in [Slots -> PCs]
    BY <1>11, <2>2, <2>3, SignalType, SMTT(30) DEF TypeOK, TypeInv
  <2>5. pc'[i] = "dog" /\ \A j \in Slots \ {i} : pc'[j] = pc[j] \/ pc[j] = "wait"
    BY <1>11, <2>3, SignalType DEF TypeOK, TypeInv
  <2>6. TypeOK'
    BY <1>11, <2>4 DEF VoteNamesSelf, TypeOK, TypeInv
  <2>7. InCall'
    BY <1>11, <2>1, <2>5 DEF VoteNamesSelf, AtAction, InCall, Stopped, TypeInv
  <2>. QED
    BY <2>6, <2>7 DEF TypeInv
<1>12. ASSUME NEW i \in Slots, VoteReplaces(i)
      PROVE  TypeInv'
  <2>1. AtAction(i) /\ Verdict \in Slots \ {i}
    BY <1>12 DEF VoteReplaces, AtVote, Voters, Slots, TypeInv
  <2>2. Complete(i, [pc EXCEPT ![Verdict] = "bornVote"], [allProcShm EXCEPT ![Verdict] = FreeProcData])
    BY <1>12 DEF VoteReplaces
  <2>3. [pc EXCEPT ![Verdict] = "bornVote"] \in [Slots -> PCs]
    BY <1>12, <2>1 DEF TypeOK, PCs, TypeInv
  <2>4. [allProcShm EXCEPT ![Verdict] = FreeProcData] \in [Slots -> ProcData]
    BY <1>12, <2>1, BlockTypes DEF TypeOK, TypeInv
  <2>5. local' \in [Slots -> Locals]
    BY <1>12, <2>1 DEF VoteReplaces, Forked, TypeOK, TypeInv
  <2>6. parentProcShmCpy' \in [Slots -> ProcData]
    BY <1>12, <2>1 DEF VoteReplaces, ParentCopied, TypeOK, TypeInv
  <2>7. local'[Verdict] = local[i] /\ \A j \in Slots \ {Verdict} : local'[j] = local[j]
    BY <1>12, <2>1 DEF VoteReplaces, Forked, TypeOK, TypeInv
  <2>8. PICK S : pc' = [Signal([pc EXCEPT ![Verdict] = "bornVote"], S, local[i].waitIdx) EXCEPT ![i] = "past"]
    BY <2>2 DEF Complete
  <2>9. pc'[i] = "past" /\ \A j \in Slots \ {i, Verdict} : pc'[j] = pc[j] \/ pc[j] = "wait"
    BY <1>12, <2>1, <2>8 DEF Signal, TypeOK, TypeInv
  <2>10. TypeOK'
    BY <1>12, <2>2, <2>3, <2>4, <2>5, <2>6, CompleteType DEF VoteReplaces, TypeOK, TypeInv
  <2>11. InCall'
    BY <1>12, <2>1, <2>7, <2>9 DEF AtAction, InCall, Stopped, TypeInv
  <2>. QED
    BY <2>10, <2>11 DEF TypeInv
<1>13. ASSUME NEW i \in Slots, VoteFails(i)
      PROVE  TypeInv'
  <2>1. ExitWithError(i)
    BY <1>13 DEF VoteFails
  <2>2. TypeOK'
    BY <1>13, <2>1, ExitType DEF TypeInv
  <2>3. InCall'
    BY <1>13, <2>1 DEF ExitWithError, TypeOK, InCall, Stopped, TypeInv
  <2>. QED
    BY <2>2, <2>3 DEF TypeInv
<1>14. ASSUME NEW i \in Slots, MasterActs(i)
      PROVE  TypeInv'
  <2>1. AtAction(i)
    BY <1>14 DEF MasterActs, AtMasterAct
  <2>2. Complete(i, pc, allProcShm)
    BY <1>14 DEF MasterActs
  <2>3. local[i].call \in Calls
    BY <1>14, <2>1 DEF AtAction, InCall, Stopped, TypeInv
  <2>4. [call |-> local[i].call, data |-> local[i].arg] \in [call : Calls, data : Data]
    BY <1>14, <2>3 DEF TypeOK, Locals, TypeInv
  <2>5. log' \in Seq([call : Calls, data : Data])
    BY <1>14, <2>4 DEF MasterActs, TypeOK, TypeInv
  <2>6. extraShm' \in 0 .. Len(Program)
    BY <1>14, <2>3 DEF MasterActs, Calls, TypeInv
  <2>7. local[i].call \in 0 .. Len(Program)
    BY <2>3, LenType DEF Calls
  <2>8. [local[i] EXCEPT !.ret = local[i].call] \in Locals
    BY <1>14, <2>7, LocalTypes DEF TypeOK, TypeInv
  <2>9. local' = [local EXCEPT ![i] = [local[i] EXCEPT !.ret = local[i].call]]
    BY <1>14 DEF MasterActs, TypeOK, TypeInv
  <2>10. local' \in [Slots -> Locals]
    BY <1>14, <2>8, <2>9 DEF TypeOK, TypeInv
  <2>11. \A j \in Slots : local'[j].call = local[j].call
    BY <1>14, <2>9 DEF TypeOK, Locals, TypeInv
  <2>12. pc'[i] = "past" /\ \A j \in Slots \ {i} : pc'[j] = pc[j] \/ pc[j] = "wait"
    BY <1>14, <2>2, SignalType DEF Complete, TypeOK, TypeInv
  <2>13. TypeOK'
    BY <1>14, <2>2, <2>5, <2>6, <2>10, CompleteType DEF MasterActs, TypeOK, TypeInv
  <2>14. InCall'
    BY <1>14, <2>3, <2>11, <2>12 DEF InCall, Stopped, TypeInv
  <2>. QED
    BY <2>13, <2>14 DEF TypeInv
<1>15. ASSUME NEW i \in Slots, MasterExits(i)
      PROVE  TypeInv'
  <2>1. AtAction(i) /\ "failed" \in PCs
    BY <1>15 DEF MasterExits, AtMasterAct, PCs
  <2>2. local[i].call \in Calls
    BY <1>15, <2>1 DEF AtAction, InCall, Stopped, TypeInv
  <2>3. [call |-> local[i].call, data |-> local[i].arg] \in [call : Calls, data : Data]
    BY <1>15, <2>2 DEF TypeOK, Locals, TypeInv
  <2>4. log' \in Seq([call : Calls, data : Data])
    BY <1>15, <2>3 DEF MasterExits, TypeOK, TypeInv
  <2>5. extraShm' \in 0 .. Len(Program)
    BY <1>15, <2>2 DEF MasterExits, Calls, TypeInv
  <2>6. pc' \in [Slots -> PCs]
    BY <1>15, <2>1 DEF MasterExits, TypeOK, TypeInv
  <2>7. TypeOK'
    BY <1>15, <2>4, <2>5, <2>6 DEF MasterExits, TypeOK, TypeInv
  <2>8. InCall'
    BY <1>15 DEF MasterExits, TypeOK, InCall, Stopped, TypeInv
  <2>. QED
    BY <2>7, <2>8 DEF TypeInv
<1>16. ASSUME NEW i \in Slots, SummonMaster(i)
      PROVE  TypeInv'
  <2>1. "dog" \in PCs
    BY DEF PCs
  <2>2. PICK S : pc' = [Signal(pc, S, local[i].waitIdx) EXCEPT ![i] = "dog"]
    BY <1>16 DEF SummonMaster, TypeInv
  <2>3. pc' \in [Slots -> PCs]
    BY <1>16, <2>1, <2>2, SignalType, SMTT(30) DEF TypeOK, TypeInv
  <2>4. pc'[i] = "dog" /\ \A j \in Slots \ {i} : pc'[j] = pc[j] \/ pc[j] = "wait"
    BY <1>16, <2>2, SignalType DEF TypeOK, TypeInv
  <2>5. TypeOK'
    BY <1>16, <2>3 DEF SummonMaster, TypeOK, TypeInv
  <2>6. InCall'
    BY <1>16, <2>4 DEF SummonMaster, InCall, Stopped, TypeInv
  <2>. QED
    BY <2>5, <2>6 DEF TypeInv
<1>17. ASSUME NEW i \in Slots, NotFull(i)
      PROVE  TypeInv'
  BY <1>17 DEF NotFull, TypeInv, TypeOK, InCall, PCs, Stopped
<1>18. ASSUME NEW i \in Slots, Park(i)
      PROVE  TypeInv'
  BY <1>18 DEF Park, TypeInv, TypeOK, InCall, PCs, Stopped
<1>19. ASSUME NEW i \in Slots, WatchdogGivesUp(i)
      PROVE  TypeInv'
  <2>1. ExitWithError(i)
    BY <1>19 DEF WatchdogGivesUp
  <2>2. TypeOK'
    BY <1>19, <2>1, ExitType DEF TypeInv
  <2>3. InCall'
    BY <1>19, <2>1 DEF ExitWithError, TypeOK, InCall, Stopped, TypeInv
  <2>. QED
    BY <2>2, <2>3 DEF TypeInv
<1>20. ASSUME NEW i \in Slots, WatchdogReplaces(i)
      PROVE  TypeInv'
  <2>1. Victim \in Slots
    BY <1>20, VictimMissing DEF WatchdogReplaces, NotWaiting, TypeInv
  <2>2. "top" \in PCs /\ "bornDog" \in PCs
    BY DEF PCs
  <2>3. allProcShm' \in [Slots -> ProcData]
    BY <1>20, <2>1, BlockTypes DEF WatchdogReplaces, TypeOK, TypeInv
  <2>7. \A j \in Slots :
          local'[j] = IF j = Victim THEN [local[i] EXCEPT !.dogIdx = curWaitIdx] ELSE local[j]
    BY <1>20, <2>1 DEF WatchdogReplaces, Forked, TypeOK, TypeInv
  <2>4. local' \in [Slots -> Locals]
    <3>1. local[i] \in Locals /\ [local[i] EXCEPT !.dogIdx = curWaitIdx] \in Locals
      BY <1>20, LocalTypes DEF TypeOK, TypeInv
    <3>. QED
      BY <1>20, <2>1, <3>1 DEF WatchdogReplaces, Forked, TypeOK, TypeInv
  <2>5. parentProcShmCpy' \in [Slots -> ProcData]
    BY <1>20, <2>1 DEF WatchdogReplaces, ParentCopied, TypeOK, TypeInv
  <2>6. pc' \in [Slots -> PCs]
    BY <1>20, <2>1, <2>2 DEF WatchdogReplaces, TypeOK, TypeInv
  <2>11. \A j \in Slots : local'[j].call = IF j = Victim THEN local[i].call ELSE local[j].call
    BY <1>20, <2>7 DEF Locals, TypeOK, TypeInv
  <2>8. \A j \in Slots \ {i, Victim} : pc'[j] = pc[j]
    BY <1>20, <2>1 DEF WatchdogReplaces, TypeOK, TypeInv
  <2>9. TypeOK'
    BY <1>20, <2>3, <2>4, <2>5, <2>6 DEF WatchdogReplaces, TypeOK, TypeInv
  <2>10. InCall'
    BY <1>20, <2>1, <2>8, <2>11 DEF WatchdogReplaces, AtWatchdog, InCall, Stopped, TypeInv
  <2>. QED
    BY <2>9, <2>10 DEF TypeInv
<1>21. ASSUME NEW i \in Slots, VoteKillsGroup(i)
      PROVE  TypeInv'
  <2>1. KillsGroup
    BY <1>21 DEF VoteKillsGroup
  <2>2. TypeOK'
    BY <1>21, <2>1 DEF KillsGroup, TypeOK, PCs, TypeInv
  <2>3. InCall'
    BY <1>21, <2>1 DEF KillsGroup, TypeOK, InCall, Stopped, TypeInv
  <2>. QED
    BY <2>2, <2>3 DEF TypeInv
<1>22. ASSUME NEW i \in Slots, WatchdogKillsGroup(i)
      PROVE  TypeInv'
  <2>1. KillsGroup
    BY <1>22 DEF WatchdogKillsGroup
  <2>2. TypeOK'
    BY <1>22, <2>1 DEF KillsGroup, TypeOK, PCs, TypeInv
  <2>3. InCall'
    BY <1>22, <2>1 DEF KillsGroup, TypeOK, InCall, Stopped, TypeInv
  <2>. QED
    BY <2>2, <2>3 DEF TypeInv
<1>23. ASSUME NEW i \in Slots, Reacquire(i)
      PROVE  TypeInv'
  <2>1. "top" \in PCs
    BY DEF PCs
  <2>2. [local[i] EXCEPT !.watchdogExpired = TRUE] \in Locals
    BY <1>23, LocalTypes DEF TypeOK, TypeInv
  <2>3. local' = [local EXCEPT ![i] = [local[i] EXCEPT !.watchdogExpired = TRUE]] \/ local' = local
    BY <1>23 DEF Reacquire, TypeOK, TypeInv
  <2>4. local' \in [Slots -> Locals]
    BY <1>23, <2>2, <2>3 DEF TypeOK, TypeInv
  <2>5. pc' \in [Slots -> PCs]
    BY <1>23, <2>1 DEF Reacquire, TypeOK, TypeInv
  <2>6. [local[i] EXCEPT !.watchdogExpired = TRUE].call = local[i].call
    BY <1>23, LocalTypes DEF TypeOK, TypeInv
  <2>7. \A j \in Slots : local'[j].call = local[j].call
    BY <1>23, <2>3, <2>6 DEF TypeOK, TypeInv
  <2>8. TypeOK'
    BY <1>23, <2>1, <2>2, <2>3, <2>4, <2>5, <2>6, <2>7 DEF Reacquire, TypeInv, TypeOK
  <2>9. InCall'
    BY <1>23, <2>1, <2>2, <2>3, <2>4, <2>5, <2>6, <2>7 DEF Reacquire, TypeInv, TypeOK, InCall, Stopped
  <2>. QED
    BY <2>8, <2>9 DEF TypeInv
<1>24. ASSUME NEW i \in Slots, BirthInit(i)
      PROVE  TypeInv'
  <2>1. Born(i) \in ProcData
    BY <1>24, BlockTypes DEF Born, TypeOK, TypeInv
  <2>2. allProcShm' \in [Slots -> ProcData]
    BY <1>24, <2>1 DEF BirthInit, TypeOK, TypeInv
  <2>3. pc' \in [Slots -> PCs]
    BY <1>24 DEF BirthInit, TypeOK, PCs, TypeInv
  <2>4. TypeOK'
    BY <1>24, <2>1, <2>2, <2>3 DEF BirthInit, TypeInv, TypeOK
  <2>5. InCall'
    BY <1>24, <2>1, <2>2, <2>3 DEF BirthInit, TypeInv, TypeOK, InCall, Stopped
  <2>. QED
    BY <2>4, <2>5 DEF TypeInv
<1>25. ASSUME NEW i \in Slots, BirthVote(i)
      PROVE  TypeInv'
  <2>1. Born(i) \in ProcData
    BY <1>25, BlockTypes DEF Born, TypeOK, TypeInv
  <2>2. local[i].waitIdx \in {0, 1}
    BY <1>25 DEF TypeOK, Locals, TypeInv
  <2>3. allProcShm' \in [Slots -> ProcData]
    BY <1>25, <2>1 DEF BirthVote, TypeOK, TypeInv
  <2>4. condWaitCnt' \in [{0, 1} -> Int]
    BY <1>25, <2>2 DEF BirthVote, TypeOK, TypeInv
  <2>5. pc' \in [Slots -> PCs]
    BY <1>25 DEF BirthVote, TypeOK, PCs, TypeInv
  <2>6. TypeOK'
    BY <1>25, <2>1, <2>2, <2>3, <2>4, <2>5 DEF BirthVote, TypeInv, TypeOK
  <2>7. InCall'
    BY <1>25, <2>1, <2>2, <2>3, <2>4, <2>5 DEF BirthVote, TypeInv, TypeOK, InCall, Stopped
  <2>. QED
    BY <2>6, <2>7 DEF TypeInv
<1>26. ASSUME NEW i \in Slots, BirthDog(i)
      PROVE  TypeInv'
  <2>1. Born(i) \in ProcData
    BY <1>26, BlockTypes DEF Born, TypeOK, TypeInv
  <2>2. local[i].dogIdx \in {0, 1}
    BY <1>26 DEF TypeOK, Locals, TypeInv
  <2>3. [Born(i) EXCEPT !.waitIdx = curWaitIdx] \in ProcData
    BY <1>26, <2>1 DEF TypeOK, ProcData, TypeInv
  <2>4. allProcShm' \in [Slots -> ProcData]
    BY <1>26, <2>3 DEF BirthDog, TypeOK, TypeInv
  <2>5. condWaitCnt' \in [{0, 1} -> Int]
    BY <1>26, <2>2 DEF BirthDog, TypeOK, TypeInv
  <2>6. pc' \in [Slots -> PCs]
    BY <1>26 DEF BirthDog, TypeOK, PCs, TypeInv
  <2>7. TypeOK'
    BY <1>26, <2>1, <2>2, <2>3, <2>4, <2>5, <2>6 DEF BirthDog, TypeInv, TypeOK
  <2>8. InCall'
    BY <1>26, <2>1, <2>2, <2>3, <2>4, <2>5, <2>6 DEF BirthDog, TypeInv, TypeOK, InCall, Stopped
  <2>. QED
    BY <2>7, <2>8 DEF TypeInv
<1>27. ASSUME NEW i \in Slots, Timeout(i)
      PROVE  TypeInv'
  BY <1>27 DEF Timeout, TypeInv, TypeOK, InCall, PCs, Stopped
<1>28. ASSUME NEW i \in Slots, SpuriousWakeup(i)
      PROVE  TypeInv'
  BY <1>28 DEF SpuriousWakeup, TypeInv, TypeOK, InCall, PCs, Stopped
<1>29. ASSUME NEW i \in Slots, Crash(i)
      PROVE  TypeInv'
  <2>1. pc' \in [Slots -> PCs]
    BY <1>29 DEF Crash, TypeOK, PCs, TypeInv
  <2>2. faults' \in 0 .. MaxFaults
    BY <1>29 DEF Crash, MayFault, TypeOK, TypeInv
  <2>3. TypeOK'
    BY <1>29, <2>1, <2>2 DEF Crash, TypeInv, TypeOK
  <2>4. InCall'
    BY <1>29, <2>1, <2>2 DEF Crash, TypeInv, TypeOK, InCall, Stopped
  <2>. QED
    BY <2>3, <2>4 DEF TypeInv
<1>30. ASSUME NEW i \in Slots, Corrupt(i)
      PROVE  TypeInv'
  <2>1. PICK d \in Corruptions : local' = [local EXCEPT ![i].data = d]
    BY <1>30 DEF Corrupt, TypeInv
  <2>2. [local[i] EXCEPT !.data = d] \in Locals
    BY <1>30, LocalTypes DEF TypeOK, Data, TypeInv
  <2>3. local' = [local EXCEPT ![i] = [local[i] EXCEPT !.data = d]]
    BY <1>30, <2>1 DEF TypeOK, TypeInv
  <2>4. local' \in [Slots -> Locals]
    BY <1>30, <2>2, <2>3 DEF TypeOK, TypeInv
  <2>5. faults' \in 0 .. MaxFaults
    BY <1>30 DEF Corrupt, MayFault, TypeOK, TypeInv
  <2>6. \A j \in Slots : local'[j].call = local[j].call
    BY <1>30, <2>1 DEF TypeOK, Locals, TypeInv
  <2>7. TypeOK'
    BY <1>30, <2>1, <2>2, <2>3, <2>4, <2>5, <2>6 DEF Corrupt, TypeInv, TypeOK
  <2>8. InCall'
    BY <1>30, <2>1, <2>2, <2>3, <2>4, <2>5, <2>6 DEF Corrupt, TypeInv, TypeOK, InCall, Stopped
  <2>. QED
    BY <2>7, <2>8 DEF TypeInv
<1>31. CASE UNCHANGED vars
  BY <1>31 DEF vars, TypeInv, TypeOK, InCall
<1>. QED
  BY <1>1, <1>2, <1>3, <1>4, <1>5, <1>6, <1>7, <1>8, <1>9, <1>10, <1>11,
     <1>12, <1>13, <1>14, <1>15, <1>16, <1>17, <1>18, <1>19, <1>20, <1>21,
     <1>22, <1>23, <1>24, <1>25, <1>26, <1>27, <1>28, <1>29, <1>30, <1>31
  DEF Next, Step, Terminated

LEMMA InitType == Init => TypeInv
<1> SUFFICES ASSUME Init
             PROVE  TypeInv
  OBVIOUS
<1>1. local \in [Slots -> Locals]
  BY DEF Init, Locals, Phases, Data
<1>2. allProcShm \in [Slots -> ProcData] /\ parentProcShmCpy \in [Slots -> ProcData]
  BY BlockTypes DEF Init
<1>3. pc \in [Slots -> PCs]
  BY DEF Init, PCs
<1>4. TypeOK
  <2>1. extraShm \in 0 .. Len(Program) /\ faults \in 0 .. MaxFaults
    BY LenType DEF Init
  <2>2. condWaitCnt \in [{0, 1} -> Int] /\ log \in Seq([call : Calls, data : Data])
    BY DEF Init
  <2>. QED
    BY <1>1, <1>2, <1>3, <2>1, <2>2 DEF Init, TypeOK
<1>5. InCall
  BY DEF Init, InCall
<1>. QED
  BY <1>4, <1>5 DEF TypeInv

\* Every variable keeps its type: lock holds a slot or nobody, a slot's waitIdx
\* is -1, 0 or 1, and a process inside a wrapper is at a call of the program.
THEOREM TypeCorrect == Spec => []TypeOK
BY InitType, TypeStep, PTL DEF Spec, TypeInv


-----------------------------------------------------------------------------
(* The lock.                                                               *)

\* A process that is about to wait has not been released: only the holder of the
\* lock releases, and that is the process itself.
DogHeld == \A i \in Slots : pc[i] = "dog" => Unreleased(i)

MutexInv == MutexExcludes /\ DogHeld

LEMMA CompleteMutex ==
  ASSUME TypeInv, MutexInv, NEW i \in Slots, pc[i] = "top",
         NEW pcs \in [Slots -> PCs], NEW slots,
         \A j \in Slots \ {i} : pcs[j] \in Holding => pc[j] \in Holding,
         Complete(i, pcs, slots)
  PROVE  MutexInv'
<1>1. pc'[i] = "past" /\ \A j \in Slots \ {i} : pc'[j] = pcs[j] \/ pc'[j] = "woken"
  BY SignalType DEF Complete
<1>2. \A j \in Slots \ {i} : pc[j] \notin Holding
  BY DEF MutexInv, MutexExcludes, Holding
<1>3. \A j \in Slots : pc'[j] \notin Holding
  BY <1>1, <1>2 DEF Holding
<1>. QED
  BY <1>3 DEF MutexInv, MutexExcludes, DogHeld, Holding, Complete

LEMMA ExitMutex ==
  ASSUME TypeInv, MutexInv, NEW i \in Slots, pc[i] \in Holding, ExitWithError(i)
  PROVE  MutexInv'
<1>1. \A j \in Slots : pc'[j] \notin Holding
  BY DEF TypeInv, TypeOK, MutexInv, MutexExcludes, ExitWithError, Holding
<1>. QED
  BY <1>1 DEF MutexInv, MutexExcludes, DogHeld, Holding, ExitWithError

LEMMA MutexStep == TypeInv /\ MutexInv /\ [Next]_vars => MutexInv'
<1> SUFFICES ASSUME TypeInv, MutexInv, [Next]_vars
             PROVE  MutexInv'
  OBVIOUS
<1>0. TypeOK /\ MutexExcludes /\ DogHeld
  BY DEF TypeInv, MutexInv
<1>1. ASSUME NEW i \in Slots, BeginCall(i)
      PROVE  MutexInv'
  BY <1>0, <1>1 DEF BeginCall, TypeOK, MutexInv, MutexExcludes, DogHeld,
     Holding, Unreleased, Nobody, Slots, PCs
<1>2. ASSUME NEW i \in Slots, BeginMasterAction(i)
      PROVE  MutexInv'
  BY <1>0, <1>2 DEF BeginMasterAction, TypeOK, MutexInv, MutexExcludes,
     DogHeld, Holding, Unreleased, Nobody, Slots, PCs
<1>3. ASSUME NEW i \in Slots, CopyResult(i)
      PROVE  MutexInv'
  BY <1>0, <1>3 DEF CopyResult, TypeOK, MutexInv, MutexExcludes, DogHeld,
     Holding, Unreleased, Nobody, Slots, PCs
<1>4. ASSUME NEW i \in Slots, BeginExitState(i)
      PROVE  MutexInv'
  BY <1>0, <1>4 DEF BeginExitState, TypeOK, MutexInv, MutexExcludes, DogHeld,
     Holding, Unreleased, Nobody, Slots, PCs
<1>5. ASSUME NEW i \in Slots, EndCall(i)
      PROVE  MutexInv'
  BY <1>0, <1>5 DEF EndCall, TypeOK, MutexInv, MutexExcludes, DogHeld,
     Holding, Unreleased, Nobody, Slots, PCs, CallOver
<1>6. ASSUME NEW i \in Slots, ExitProgram(i)
      PROVE  MutexInv'
  BY <1>0, <1>6 DEF ExitProgram, TypeOK, MutexInv, MutexExcludes, DogHeld,
     Holding, Unreleased, Nobody, Slots, PCs
<1>7. ASSUME NEW i \in Slots, EnterBarrier(i)
      PROVE  MutexInv'
  <2>1. PICK S : pc' = [Signal(pc, S, curWaitIdx) EXCEPT ![i] = "top"]
    BY <1>7 DEF EnterBarrier
  <2>2. /\ lock = Nobody /\ lock' = i
        /\ allProcShm' = [allProcShm EXCEPT ![i].waitIdx = curWaitIdx]
    BY <1>7 DEF EnterBarrier
  <2>3. pc'[i] = "top" /\ \A j \in Slots \ {i} : pc'[j] = pc[j] \/ pc'[j] = "woken"
    BY <1>0, <2>1, SignalType DEF TypeOK
  <2>4. \A j \in Slots \ {i} : pc'[j] \notin Holding
    BY <1>0, <2>2, <2>3 DEF TypeOK, MutexInv, MutexExcludes, Holding, Slots, Nobody
  <2>5. MutexExcludes'
    BY <1>0, <2>2, <2>3, <2>4 DEF TypeOK, MutexInv, MutexExcludes, Holding
  <2>6. DogHeld'
    BY <1>0, <2>3, <2>4 DEF DogHeld, Holding
  <2>. QED
    BY <1>0, <2>5, <2>6 DEF MutexInv
<1>8. ASSUME NEW i \in Slots, ArrivalAborts(i)
      PROVE  MutexInv'
  BY <1>0, <1>8 DEF ArrivalAborts, TypeOK, MutexInv, MutexExcludes, DogHeld,
     Holding, Unreleased, Nobody, Slots, PCs
<1>9. ASSUME NEW i \in Slots, LeaveReleased(i)
      PROVE  MutexInv'
  BY <1>0, <1>9 DEF LeaveReleased, TypeOK, MutexInv, MutexExcludes, DogHeld,
     Holding, Unreleased, Nobody, Slots, PCs
<1>10. ASSUME NEW i \in Slots, VoteAgrees(i)
      PROVE  MutexInv'
  <2>1. pc[i] = "top" /\ Complete(i, pc, allProcShm)
    BY <1>10 DEF VoteAgrees, AtVote, AtAction
  <2>2. pc \in [Slots -> PCs] /\ \A j \in Slots \ {i} : pc[j] \in Holding => pc[j] \in Holding
    BY <1>0 DEF TypeOK
  <2>. QED
    BY <1>0, <2>1, <2>2, CompleteMutex
<1>11. ASSUME NEW i \in Slots, VoteNamesSelf(i)
      PROVE  MutexInv'
  <2>1. PICK S : pc' = [Signal(pc, S, local[i].waitIdx) EXCEPT ![i] = "dog"]
    BY <1>11 DEF VoteNamesSelf
  <2>2. /\ pc[i] = "top" /\ Unreleased(i)
        /\ lock' = lock /\ allProcShm' = allProcShm
    BY <1>11 DEF VoteNamesSelf, AtVote, AtAction
  <2>3. pc'[i] = "dog" /\ \A j \in Slots \ {i} : pc'[j] = pc[j] \/ pc'[j] = "woken"
    BY <1>0, <2>1, SignalType DEF TypeOK
  <2>. QED
    BY <1>0, <2>2, <2>3 DEF TypeOK, MutexInv, MutexExcludes, DogHeld, Holding, Unreleased, Slots, Nobody
<1>12. ASSUME NEW i \in Slots, VoteReplaces(i)
      PROVE  MutexInv'
  <2>1. pc[i] = "top" /\ Verdict \in Slots \ {i}
    BY <1>12 DEF VoteReplaces, AtVote, AtAction, Voters, Slots
  <2>2. Complete(i, [pc EXCEPT ![Verdict] = "bornVote"], [allProcShm EXCEPT ![Verdict] = FreeProcData])
    BY <1>12 DEF VoteReplaces
  <2>3. [pc EXCEPT ![Verdict] = "bornVote"] \in [Slots -> PCs]
    BY <1>0, <2>1 DEF TypeOK, PCs
  <2>4. \A j \in Slots \ {i} : [pc EXCEPT ![Verdict] = "bornVote"][j] \notin Holding
    BY <1>0, <2>1 DEF TypeOK, MutexInv, MutexExcludes, Holding
  <2>. QED
    BY <1>0, <2>1, <2>2, <2>3, <2>4, CompleteMutex
<1>13. ASSUME NEW i \in Slots, VoteFails(i)
      PROVE  MutexInv'
  <2>1. pc[i] \in Holding /\ ExitWithError(i)
    BY <1>13 DEF VoteFails, AtVote, AtAction, Holding
  <2>. QED
    BY <1>0, <2>1, ExitMutex
<1>14. ASSUME NEW i \in Slots, MasterActs(i)
      PROVE  MutexInv'
  <2>1. pc[i] = "top" /\ Complete(i, pc, allProcShm)
    BY <1>14 DEF MasterActs, AtMasterAct, AtAction
  <2>2. pc \in [Slots -> PCs] /\ \A j \in Slots \ {i} : pc[j] \in Holding => pc[j] \in Holding
    BY <1>0 DEF TypeOK
  <2>. QED
    BY <1>0, <2>1, <2>2, CompleteMutex
<1>15. ASSUME NEW i \in Slots, MasterExits(i)
      PROVE  MutexInv'
  BY <1>0, <1>15 DEF MasterExits, TypeOK, MutexInv, MutexExcludes, DogHeld,
     Holding, Unreleased, Nobody, Slots, PCs
<1>16. ASSUME NEW i \in Slots, SummonMaster(i)
      PROVE  MutexInv'
  <2>1. PICK S : pc' = [Signal(pc, S, local[i].waitIdx) EXCEPT ![i] = "dog"]
    BY <1>16 DEF SummonMaster
  <2>2. /\ pc[i] = "top" /\ Unreleased(i)
        /\ lock' = lock /\ allProcShm' = allProcShm
    BY <1>16 DEF SummonMaster
  <2>3. pc'[i] = "dog" /\ \A j \in Slots \ {i} : pc'[j] = pc[j] \/ pc'[j] = "woken"
    BY <1>0, <2>1, SignalType DEF TypeOK
  <2>. QED
    BY <1>0, <2>2, <2>3 DEF TypeOK, MutexInv, MutexExcludes, DogHeld, Holding, Unreleased, Slots, Nobody
<1>17. ASSUME NEW i \in Slots, NotFull(i)
      PROVE  MutexInv'
  BY <1>0, <1>17 DEF NotFull, TypeOK, MutexInv, MutexExcludes, DogHeld,
     Holding, Unreleased, Nobody, Slots, PCs
<1>18. ASSUME NEW i \in Slots, Park(i)
      PROVE  MutexInv'
  BY <1>0, <1>18 DEF Park, TypeOK, MutexInv, MutexExcludes, DogHeld, Holding,
     Unreleased, Nobody, Slots, PCs
<1>19. ASSUME NEW i \in Slots, WatchdogGivesUp(i)
      PROVE  MutexInv'
  <2>1. pc[i] \in Holding /\ ExitWithError(i)
    BY <1>0, <1>19 DEF WatchdogGivesUp, AtWatchdog, Holding
  <2>. QED
    BY <1>0, <2>1, ExitMutex
<1>20. ASSUME NEW i \in Slots, WatchdogReplaces(i)
      PROVE  MutexInv'
  <2>1. pc[i] = "dog" /\ Victim \in Slots \ {i}
    BY <1>0, <1>20, VictimMissing DEF TypeOK, WatchdogReplaces, AtWatchdog, NotWaiting, DogHeld, Unreleased, ProcData
  <2>2. pc' = [pc EXCEPT ![i] = "top", ![Victim] = "bornDog"] /\ lock' = lock
    BY <1>0, <1>20 DEF WatchdogReplaces
  <2>3. pc'[i] = "top" /\ pc'[Victim] = "bornDog" /\ \A j \in Slots \ {i, Victim} : pc'[j] = pc[j]
    BY <1>0, <2>1, <2>2 DEF TypeOK
  <2>. QED
    BY <1>0, <2>1, <2>2, <2>3 DEF TypeOK, MutexInv, MutexExcludes, DogHeld, Holding, Slots, Nobody
<1>21. ASSUME NEW i \in Slots, VoteKillsGroup(i)
      PROVE  MutexInv'
  BY <1>0, <1>21 DEF VoteKillsGroup, TypeOK, MutexInv, MutexExcludes, DogHeld,
     Holding, Unreleased, Nobody, Slots, PCs, KillsGroup, Stopped
<1>22. ASSUME NEW i \in Slots, WatchdogKillsGroup(i)
      PROVE  MutexInv'
  BY <1>0, <1>22 DEF WatchdogKillsGroup, TypeOK, MutexInv, MutexExcludes,
     DogHeld, Holding, Unreleased, Nobody, Slots, PCs, KillsGroup, Stopped
<1>23. ASSUME NEW i \in Slots, Reacquire(i)
      PROVE  MutexInv'
  BY <1>0, <1>23 DEF Reacquire, TypeOK, MutexInv, MutexExcludes, DogHeld,
     Holding, Unreleased, Nobody, Slots, PCs
<1>24. ASSUME NEW i \in Slots, BirthInit(i)
      PROVE  MutexInv'
  BY <1>0, <1>24 DEF BirthInit, TypeOK, MutexInv, MutexExcludes, DogHeld,
     Holding, Unreleased, Nobody, Slots, PCs
<1>25. ASSUME NEW i \in Slots, BirthVote(i)
      PROVE  MutexInv'
  BY <1>0, <1>25 DEF BirthVote, TypeOK, MutexInv, MutexExcludes, DogHeld,
     Holding, Unreleased, Nobody, Slots, PCs
<1>26. ASSUME NEW i \in Slots, BirthDog(i)
      PROVE  MutexInv'
  BY <1>0, <1>26 DEF BirthDog, TypeOK, MutexInv, MutexExcludes, DogHeld,
     Holding, Unreleased, Nobody, Slots, PCs
<1>27. ASSUME NEW i \in Slots, Timeout(i)
      PROVE  MutexInv'
  BY <1>0, <1>27 DEF Timeout, TypeOK, MutexInv, MutexExcludes, DogHeld,
     Holding, Unreleased, Nobody, Slots, PCs
<1>28. ASSUME NEW i \in Slots, SpuriousWakeup(i)
      PROVE  MutexInv'
  BY <1>0, <1>28 DEF SpuriousWakeup, TypeOK, MutexInv, MutexExcludes, DogHeld,
     Holding, Unreleased, Nobody, Slots, PCs
<1>29. ASSUME NEW i \in Slots, Crash(i)
      PROVE  MutexInv'
  BY <1>0, <1>29 DEF Crash, TypeOK, MutexInv, MutexExcludes, DogHeld, Holding,
     Unreleased, Nobody, Slots, PCs
<1>30. ASSUME NEW i \in Slots, Corrupt(i)
      PROVE  MutexInv'
  BY <1>0, <1>30 DEF Corrupt, TypeOK, MutexInv, MutexExcludes, DogHeld,
     Holding, Unreleased, Nobody, Slots, PCs
<1>31. CASE UNCHANGED vars
  BY <1>0, <1>31 DEF vars, MutexInv, MutexExcludes, DogHeld, Holding, Unreleased
<1>. QED
  BY <1>1, <1>2, <1>3, <1>4, <1>5, <1>6, <1>7, <1>8, <1>9, <1>10, <1>11,
     <1>12, <1>13, <1>14, <1>15, <1>16, <1>17, <1>18, <1>19, <1>20, <1>21,
     <1>22, <1>23, <1>24, <1>25, <1>26, <1>27, <1>28, <1>29, <1>30, <1>31
  DEF Next, Step, Terminated

LEMMA InitMutex == Init => MutexInv
BY DEF Init, MutexInv, MutexExcludes, DogHeld, Holding

\* plrShm->lock excludes: at any time at most one process is between taking it and
\* giving it back (or waiting), whoever is killed, forked or aborted, and whatever
\* the timers do.
THEOREM LockExcludes == Spec => []MutexExcludes
<1>1. Init => TypeInv /\ MutexInv
  BY InitType, InitMutex
<1>2. TypeInv /\ MutexInv /\ [Next]_vars => TypeInv' /\ MutexInv'
  BY TypeStep, MutexStep
<1>. QED
  BY <1>1, <1>2, PTL DEF Spec, MutexInv

-----------------------------------------------------------------------------
(* What the actions do, process by process.                                *)

\* No process but those of S takes part in a step: the others at most wake up.
OnlyMove(S) ==
  \A j \in Slots \ S :
    /\ pc'[j] = pc[j] \/ (pc[j] = "wait" /\ pc'[j] = "woken")
    /\ local'[j] = local[j]
    /\ allProcShm'[j] = allProcShm[j]
    /\ parentProcShmCpy'[j] = parentProcShmCpy[j]

\* What a process keeps of its variables and its slot while it stays in its call.
KeepsPlace(j) ==
  /\ local'[j].call = local[j].call /\ local'[j].phase = local[j].phase
  /\ local'[j].data = local[j].data /\ local'[j].arg = local[j].arg
KeepsSlot(j) ==
  /\ allProcShm'[j].pid = allProcShm[j].pid
  /\ allProcShm'[j].insidePLR = allProcShm[j].insidePLR
  /\ allProcShm'[j].syscallArgs = allProcShm[j].syscallArgs

\* What a copy has of the process it has been forked from by the watchdog.
TakesAfter(v, i) ==
  /\ local'[v].call = local[i].call /\ local'[v].phase = local[i].phase
  /\ local'[v].data = local[i].data /\ local'[v].arg = local[i].arg
  /\ local'[v].waitIdx = local[i].waitIdx /\ local'[v].ret = local[i].ret
  /\ local'[v].watchdogExpired = local[i].watchdogExpired

\* Steps that leave the slots, and the variables of every process, alone.
Quietly == UNCHANGED <<allProcShm, local, parentProcShmCpy>>

LEMMA SignalEffect ==
  ASSUME NEW pcs \in [Slots -> PCs], NEW S, NEW idx, NEW i \in Slots, NEW to,
         pc' = [Signal(pcs, S, idx) EXCEPT ![i] = to]
  PROVE  /\ pc'[i] = to
         /\ \A j \in Slots \ {i} :
              \/ pc'[j] = pcs[j] /\ ~(j \in S /\ pcs[j] = "wait" /\ local[j].waitIdx = idx)
              \/ /\ pcs[j] = "wait" /\ pc'[j] = "woken"
                 /\ j \in S /\ local[j].waitIdx = idx
BY DEF Signal

LEMMA BeginCallEffect ==
  ASSUME TypeInv, NEW i \in Slots, BeginCall(i)
  PROVE  /\ OnlyMove({i})
         /\ pc[i] = "app" /\ pc'[i] = "lock" /\ local[i].call \in Calls
         /\ allProcShm'[i].pid = allProcShm[i].pid
         /\ allProcShm'[i].waitIdx = allProcShm[i].waitIdx
         /\ allProcShm'[i].insidePLR = TRUE
         /\ local'[i].arg \in {local[i].data, Good}
         /\ allProcShm'[i].syscallArgs = CallArgs(local[i].call, local'[i].arg)
         /\ local'[i].call = local[i].call /\ local'[i].phase = local[i].phase
         /\ local'[i].data = local[i].data
<1>1. PICK d \in {local[i].data, Good} :
        /\ allProcShm' = [allProcShm EXCEPT ![i].insidePLR = TRUE,
                                            ![i].syscallArgs = CallArgs(local[i].call, d)]
        /\ local' = [local EXCEPT ![i].arg = d, ![i].ret = 0]
  BY DEF BeginCall
<1>2. /\ allProcShm'[i] = [allProcShm[i] EXCEPT !.insidePLR = TRUE, !.syscallArgs = CallArgs(local[i].call, d)]
      /\ local'[i] = [local[i] EXCEPT !.arg = d, !.ret = 0]
  BY <1>1 DEF TypeInv, TypeOK
<1>3. allProcShm[i] \in ProcData /\ local[i] \in Locals
  BY DEF TypeInv, TypeOK
<1>4. /\ allProcShm'[i].pid = allProcShm[i].pid
      /\ allProcShm'[i].waitIdx = allProcShm[i].waitIdx
      /\ allProcShm'[i].insidePLR = TRUE
      /\ allProcShm'[i].syscallArgs = CallArgs(local[i].call, d)
  BY <1>2, <1>3 DEF ProcData
<1>5. /\ local'[i].arg = d
      /\ local'[i].call = local[i].call /\ local'[i].phase = local[i].phase
      /\ local'[i].data = local[i].data
  BY <1>2, <1>3 DEF Locals
<1>6. OnlyMove({i}) /\ pc'[i] = "lock"
  BY <1>1 DEF BeginCall, TypeInv, TypeOK, OnlyMove
<1>. QED
  BY <1>4, <1>5, <1>6 DEF BeginCall

LEMMA BeginMasterEffect ==
  ASSUME TypeInv, NEW i \in Slots, BeginMasterAction(i)
  PROVE  /\ OnlyMove({i})
         /\ pc[i] = "past" /\ pc'[i] = "lock" /\ allProcShm'[i] = allProcShm[i]
         /\ local[i].phase = "check" /\ local'[i].phase = "master"
         /\ Program[local[i].call] # "local"
         /\ local'[i].call = local[i].call
         /\ local'[i].data = local[i].data /\ local'[i].arg = local[i].arg
<1>1. local'[i] = [local[i] EXCEPT !.phase = "master"] /\ local[i] \in Locals
  BY DEF BeginMasterAction, TypeInv, TypeOK
<1>2. /\ local'[i].phase = "master"
      /\ local'[i].call = local[i].call
      /\ local'[i].data = local[i].data /\ local'[i].arg = local[i].arg
  BY <1>1 DEF Locals
<1>3. OnlyMove({i}) /\ pc'[i] = "lock"
  BY DEF BeginMasterAction, TypeInv, TypeOK, OnlyMove
<1>. QED
  BY <1>2, <1>3 DEF BeginMasterAction

LEMMA CopyResultEffect ==
  ASSUME TypeInv, NEW i \in Slots, CopyResult(i)
  PROVE  /\ OnlyMove({i})
         /\ pc[i] = "past" /\ pc'[i] = "copied" /\ allProcShm'[i] = allProcShm[i]
         /\ local[i].phase = "master"
         /\ local'[i].ret = IF i = Master THEN local[i].ret ELSE extraShm
         /\ KeepsPlace(i)
<1>1. /\ local'[i] = IF i = Master THEN local[i] ELSE [local[i] EXCEPT !.ret = extraShm]
      /\ local[i] \in Locals
  BY DEF CopyResult, TypeInv, TypeOK
<1>2. local'[i].ret = IF i = Master THEN local[i].ret ELSE extraShm
  BY <1>1 DEF Locals
<1>3. KeepsPlace(i)
  BY <1>1 DEF Locals, KeepsPlace
<1>4. OnlyMove({i}) /\ pc'[i] = "copied"
  BY DEF CopyResult, TypeInv, TypeOK, OnlyMove
<1>. QED
  BY <1>2, <1>3, <1>4 DEF CopyResult

LEMMA BeginExitEffect ==
  ASSUME TypeInv, NEW i \in Slots, BeginExitState(i)
  PROVE  /\ OnlyMove({i})
         /\ pc[i] = "copied" /\ pc'[i] = "lock" /\ Program[local[i].call] = "stdio"
         /\ allProcShm'[i].pid = allProcShm[i].pid
         /\ allProcShm'[i].waitIdx = allProcShm[i].waitIdx
         /\ allProcShm'[i].insidePLR = allProcShm[i].insidePLR
         /\ \E d \in {local[i].data, Good} :
              allProcShm'[i].syscallArgs = ExitState(local[i].call, d)
         /\ local'[i].phase = "exitState"
         /\ local'[i].call = local[i].call
         /\ local'[i].data = local[i].data /\ local'[i].arg = local[i].arg
<1>1. PICK d \in {local[i].data, Good} :
        allProcShm' = [allProcShm EXCEPT ![i].syscallArgs = ExitState(local[i].call, d)]
  BY DEF BeginExitState
<1>2. /\ allProcShm'[i] = [allProcShm[i] EXCEPT !.syscallArgs = ExitState(local[i].call, d)]
      /\ local'[i] = [local[i] EXCEPT !.phase = "exitState"]
  BY <1>1 DEF BeginExitState, TypeInv, TypeOK
<1>3. allProcShm[i] \in ProcData /\ local[i] \in Locals
  BY DEF TypeInv, TypeOK
<1>4. /\ allProcShm'[i].pid = allProcShm[i].pid
      /\ allProcShm'[i].waitIdx = allProcShm[i].waitIdx
      /\ allProcShm'[i].insidePLR = allProcShm[i].insidePLR
      /\ allProcShm'[i].syscallArgs = ExitState(local[i].call, d)
  BY <1>2, <1>3 DEF ProcData
<1>5. /\ local'[i].phase = "exitState"
      /\ local'[i].call = local[i].call
      /\ local'[i].data = local[i].data /\ local'[i].arg = local[i].arg
  BY <1>2, <1>3 DEF Locals
<1>6. OnlyMove({i}) /\ pc'[i] = "lock"
  BY <1>1 DEF BeginExitState, TypeInv, TypeOK, OnlyMove
<1>. QED
  BY <1>4, <1>5, <1>6 DEF BeginExitState

LEMMA EndCallEffect ==
  ASSUME TypeInv, NEW i \in Slots, EndCall(i)
  PROVE  /\ OnlyMove({i})
         /\ CallOver(i) /\ pc'[i] = "app"
         /\ allProcShm'[i].pid = allProcShm[i].pid
         /\ allProcShm'[i].waitIdx = allProcShm[i].waitIdx
         /\ allProcShm'[i].insidePLR = FALSE
         /\ local'[i].call = local[i].call + 1 /\ local'[i].phase = "check"
         /\ local'[i].data = local[i].data /\ local'[i].arg = local[i].arg
<1>1. /\ allProcShm'[i] = [allProcShm[i] EXCEPT !.insidePLR = FALSE]
      /\ local'[i] = [local[i] EXCEPT !.call = local[i].call + 1, !.phase = "check"]
  BY DEF EndCall, TypeInv, TypeOK
<1>2. allProcShm[i] \in ProcData /\ local[i] \in Locals
  BY DEF TypeInv, TypeOK
<1>3. /\ allProcShm'[i].pid = allProcShm[i].pid
      /\ allProcShm'[i].waitIdx = allProcShm[i].waitIdx
      /\ allProcShm'[i].insidePLR = FALSE
  BY <1>1, <1>2 DEF ProcData
<1>4. /\ local'[i].call = local[i].call + 1 /\ local'[i].phase = "check"
      /\ local'[i].data = local[i].data /\ local'[i].arg = local[i].arg
  BY <1>1, <1>2 DEF Locals
<1>5. OnlyMove({i}) /\ pc'[i] = "app"
  BY DEF EndCall, TypeInv, TypeOK, OnlyMove
<1>. QED
  BY <1>3, <1>4, <1>5 DEF EndCall

LEMMA EnterEffect ==
  ASSUME TypeInv, NEW i \in Slots, EnterBarrier(i)
  PROVE  /\ OnlyMove({i})
         /\ pc[i] = "lock" /\ pc'[i] = "top" /\ lock = Nobody /\ lock' = i
         /\ condWaitCnt' = [condWaitCnt EXCEPT ![curWaitIdx] = @ + 1]
         /\ KeepsSlot(i) /\ allProcShm'[i].waitIdx = curWaitIdx
         /\ local'[i].waitIdx = curWaitIdx /\ local'[i].watchdogExpired = FALSE
         /\ KeepsPlace(i)
<1>1. /\ allProcShm'[i] = [allProcShm[i] EXCEPT !.waitIdx = curWaitIdx]
      /\ local'[i] = [local[i] EXCEPT !.waitIdx = curWaitIdx, !.watchdogExpired = FALSE]
  BY DEF EnterBarrier, TypeInv, TypeOK
<1>2. allProcShm[i] \in ProcData /\ local[i] \in Locals
  BY DEF TypeInv, TypeOK
<1>3. KeepsSlot(i) /\ allProcShm'[i].waitIdx = curWaitIdx
  BY <1>1, <1>2 DEF ProcData, KeepsSlot
<1>4. /\ local'[i].waitIdx = curWaitIdx /\ local'[i].watchdogExpired = FALSE
      /\ KeepsPlace(i)
  BY <1>1, <1>2 DEF Locals, KeepsPlace
<1>5. PICK S : pc' = [Signal(pc, S, curWaitIdx) EXCEPT ![i] = "top"]
  BY DEF EnterBarrier
<1>6. pc'[i] = "top" /\ \A j \in Slots \ {i} : pc'[j] = pc[j] \/ (pc[j] = "wait" /\ pc'[j] = "woken")
  BY <1>5, SignalType DEF TypeInv, TypeOK
<1>7. OnlyMove({i})
  BY <1>6 DEF EnterBarrier, TypeInv, TypeOK, OnlyMove
<1>. QED
  BY <1>3, <1>4, <1>6, <1>7 DEF EnterBarrier

\* The steps that change where one process is, and nothing it knows.
LEMMA MoveEffect ==
  ASSUME TypeInv, NEW i \in Slots,
         \/ ExitProgram(i) \/ ArrivalAborts(i) \/ LeaveReleased(i) \/ VoteNamesSelf(i)
         \/ MasterExits(i) \/ SummonMaster(i) \/ NotFull(i) \/ Park(i) \/ Timeout(i)
         \/ SpuriousWakeup(i) \/ Crash(i)
  PROVE  OnlyMove({i}) /\ Quietly
<1>1. PICK S, idx, to : pc' = [pc EXCEPT ![i] = to] \/ pc' = [Signal(pc, S, idx) EXCEPT ![i] = to]
  BY DEF ExitProgram, ArrivalAborts, LeaveReleased, VoteNamesSelf, MasterExits, SummonMaster,
     NotFull, Park, Timeout, SpuriousWakeup, Crash
<1>2. \A j \in Slots \ {i} : pc'[j] = pc[j] \/ (pc[j] = "wait" /\ pc'[j] = "woken")
  BY <1>1, SignalType DEF TypeInv, TypeOK
<1>3. Quietly
  BY DEF ExitProgram, ArrivalAborts, LeaveReleased, VoteNamesSelf, MasterExits, SummonMaster,
     NotFull, Park, Timeout, SpuriousWakeup, Crash, Quietly
<1>. QED
  BY <1>2, <1>3 DEF OnlyMove, Quietly

LEMMA NudgeEffect ==
  ASSUME TypeInv, NEW i \in Slots, NEW k \in Slots \ {i},
         pc' = [Signal(pc, {k}, local[i].waitIdx) EXCEPT ![i] = "dog"]
  PROVE  /\ pc'[i] = "dog"
         /\ \A j \in Slots \ {i, k} : pc'[j] = pc[j]
         /\ IF pc[k] = "wait" /\ local[k].waitIdx = local[i].waitIdx
              THEN pc'[k] = "woken" ELSE pc'[k] = pc[k]
BY DEF Signal, TypeInv, TypeOK

LEMMA ReacquireEffect ==
  ASSUME TypeInv, NEW i \in Slots, Reacquire(i)
  PROVE  /\ OnlyMove({i})
         /\ pc[i] \in {"woken", "timeout"} /\ lock = Nobody
         /\ pc'[i] = "top" /\ lock' = i /\ allProcShm'[i] = allProcShm[i]
         /\ KeepsPlace(i)
         /\ local'[i].waitIdx = local[i].waitIdx /\ local'[i].ret = local[i].ret
         /\ local'[i].watchdogExpired =
              IF pc[i] = "timeout" THEN TRUE ELSE local[i].watchdogExpired
<1>1. /\ local'[i] = IF pc[i] = "timeout"
                       THEN [local[i] EXCEPT !.watchdogExpired = TRUE] ELSE local[i]
      /\ local[i] \in Locals
  BY DEF Reacquire, TypeInv, TypeOK
<1>2. CASE pc[i] = "timeout"
  <2>1. /\ local'[i].waitIdx = local[i].waitIdx /\ local'[i].ret = local[i].ret
        /\ local'[i].watchdogExpired = TRUE
    BY <1>1, <1>2 DEF Locals
  <2>2. KeepsPlace(i)
    BY <1>1, <1>2 DEF Locals, KeepsPlace
  <2>3. OnlyMove({i}) /\ pc'[i] = "top"
    BY DEF Reacquire, TypeInv, TypeOK, OnlyMove
  <2>. QED
    BY <1>2, <2>1, <2>2, <2>3 DEF Reacquire
<1>3. CASE pc[i] # "timeout"
  <2>1. local'[i] = local[i]
    BY <1>1, <1>3
  <2>2. OnlyMove({i}) /\ pc'[i] = "top"
    BY DEF Reacquire, TypeInv, TypeOK, OnlyMove
  <2>. QED
    BY <1>3, <2>1, <2>2 DEF Reacquire, KeepsPlace
<1>. QED
  BY <1>2, <1>3

LEMMA BornEffect ==
  ASSUME TypeInv, NEW i \in Slots, NEW w \in {-1, 0, 1},
         allProcShm' = [allProcShm EXCEPT ![i] = [Born(i) EXCEPT !.waitIdx = w]]
  PROVE  /\ allProcShm'[i].pid = 1
         /\ allProcShm'[i].waitIdx = w
         /\ allProcShm'[i].insidePLR = parentProcShmCpy[i].insidePLR
         /\ allProcShm'[i].syscallArgs = parentProcShmCpy[i].syscallArgs
         /\ \A j \in Slots \ {i} : allProcShm'[j] = allProcShm[j]
<1>1. /\ allProcShm'[i] = [Born(i) EXCEPT !.waitIdx = w]
      /\ \A j \in Slots \ {i} : allProcShm'[j] = allProcShm[j]
  BY DEF TypeInv, TypeOK
<1>2. parentProcShmCpy[i] \in ProcData
  BY DEF TypeInv, TypeOK
<1>3. /\ Born(i).pid = 1
      /\ Born(i).insidePLR = parentProcShmCpy[i].insidePLR
      /\ Born(i).syscallArgs = parentProcShmCpy[i].syscallArgs
      /\ Born(i) \in ProcData
  BY <1>2, BlockTypes DEF Born, InitProcDataAsCopy, InitProcData, FreeProcData, ProcData
<1> HIDE DEF Born
<1>. QED
  BY <1>1, <1>3 DEF ProcData

\* A newborn that does not arrive is not waiting.
LEMMA BornOutside ==
  ASSUME TypeInv, NEW i \in Slots
  PROVE  Born(i) = [Born(i) EXCEPT !.waitIdx = -1]
<1>1. parentProcShmCpy[i] \in ProcData
  BY DEF TypeInv, TypeOK
<1>2. Born(i) \in ProcData /\ Born(i).waitIdx = -1
  BY <1>1, BlockTypes DEF Born, InitProcDataAsCopy, InitProcData, FreeProcData, ProcData
<1> HIDE DEF Born
<1>. QED
  BY <1>2 DEF ProcData

LEMMA BirthInitEffect ==
  ASSUME TypeInv, NEW i \in Slots, BirthInit(i)
  PROVE  /\ OnlyMove({i})
         /\ pc[i] = "bornInit" /\ pc'[i] = "app" /\ local' = local
         /\ allProcShm'[i].pid = 1 /\ allProcShm'[i].waitIdx = -1
         /\ allProcShm'[i].insidePLR = parentProcShmCpy[i].insidePLR
         /\ allProcShm'[i].syscallArgs = parentProcShmCpy[i].syscallArgs
<1>1. /\ allProcShm'[i].pid = 1 /\ allProcShm'[i].waitIdx = -1
      /\ allProcShm'[i].insidePLR = parentProcShmCpy[i].insidePLR
      /\ allProcShm'[i].syscallArgs = parentProcShmCpy[i].syscallArgs
  BY BornEffect, BornOutside DEF BirthInit
<1>2. OnlyMove({i}) /\ pc'[i] = "app"
  BY DEF BirthInit, TypeInv, TypeOK, OnlyMove
<1>. QED
  BY <1>1, <1>2 DEF BirthInit

LEMMA BirthVoteEffect ==
  ASSUME TypeInv, NEW i \in Slots, BirthVote(i)
  PROVE  /\ OnlyMove({i})
         /\ pc[i] = "bornVote" /\ pc'[i] = "past" /\ local' = local /\ lock = Nobody
         /\ allProcShm'[i].pid = 1 /\ allProcShm'[i].waitIdx = -1
         /\ allProcShm'[i].insidePLR = parentProcShmCpy[i].insidePLR
         /\ allProcShm'[i].syscallArgs = parentProcShmCpy[i].syscallArgs
<1>1. /\ allProcShm'[i].pid = 1 /\ allProcShm'[i].waitIdx = -1
      /\ allProcShm'[i].insidePLR = parentProcShmCpy[i].insidePLR
      /\ allProcShm'[i].syscallArgs = parentProcShmCpy[i].syscallArgs
  BY BornEffect, BornOutside DEF BirthVote
<1>2. OnlyMove({i}) /\ pc'[i] = "past"
  BY DEF BirthVote, TypeInv, TypeOK, OnlyMove
<1>. QED
  BY <1>1, <1>2 DEF BirthVote

LEMMA BirthDogEffect ==
  ASSUME TypeInv, NEW i \in Slots, BirthDog(i)
  PROVE  /\ OnlyMove({i})
         /\ pc[i] = "bornDog" /\ pc'[i] = "top" /\ local' = local
         /\ lock = Nobody /\ lock' = i
         /\ allProcShm'[i].pid = 1 /\ allProcShm'[i].waitIdx = curWaitIdx
         /\ allProcShm'[i].insidePLR = parentProcShmCpy[i].insidePLR
         /\ allProcShm'[i].syscallArgs = parentProcShmCpy[i].syscallArgs
<1>1. curWaitIdx \in {-1, 0, 1}
  BY DEF TypeInv, TypeOK
<1>2. /\ allProcShm'[i].pid = 1 /\ allProcShm'[i].waitIdx = curWaitIdx
      /\ allProcShm'[i].insidePLR = parentProcShmCpy[i].insidePLR
      /\ allProcShm'[i].syscallArgs = parentProcShmCpy[i].syscallArgs
  BY <1>1, BornEffect DEF BirthDog
<1>3. OnlyMove({i}) /\ pc'[i] = "top"
  BY DEF BirthDog, TypeInv, TypeOK, OnlyMove
<1>. QED
  BY <1>2, <1>3 DEF BirthDog

LEMMA CorruptEffect ==
  ASSUME TypeInv, NEW i \in Slots, Corrupt(i)
  PROVE  /\ OnlyMove({i})
         /\ pc[i] = "app" /\ pc' = pc /\ allProcShm' = allProcShm
         /\ local'[i].call = local[i].call /\ local'[i].phase = local[i].phase
         /\ local'[i].arg = local[i].arg /\ local'[i].data # Good
<1>1. PICK d \in Corruptions : local' = [local EXCEPT ![i].data = d]
  BY DEF Corrupt
<1>2. local'[i] = [local[i] EXCEPT !.data = d] /\ local[i] \in Locals /\ d # Good
  BY <1>1, DataAssumption DEF TypeInv, TypeOK
<1>3. /\ local'[i].call = local[i].call /\ local'[i].phase = local[i].phase
      /\ local'[i].arg = local[i].arg /\ local'[i].data # Good
  BY <1>2 DEF Locals
<1>4. OnlyMove({i})
  BY <1>1 DEF Corrupt, TypeInv, TypeOK, OnlyMove
<1>. QED
  BY <1>3, <1>4 DEF Corrupt

LEMMA ExitEffect ==
  ASSUME TypeInv, NEW i \in Slots, ExitWithError(i)
  PROVE  /\ OnlyMove({i}) /\ pc'[i] = "failed" /\ lock' = Nobody /\ local' = local
         /\ KeepsSlot(i) /\ allProcShm'[i].waitIdx = -1
<1>1. allProcShm'[i] = [allProcShm[i] EXCEPT !.waitIdx = -1] /\ allProcShm[i] \in ProcData
  BY DEF ExitWithError, TypeInv, TypeOK
<1>2. KeepsSlot(i) /\ allProcShm'[i].waitIdx = -1
  BY <1>1 DEF KeepsSlot, ProcData
<1>3. OnlyMove({i}) /\ pc'[i] = "failed"
  BY DEF ExitWithError, TypeInv, TypeOK, OnlyMove
<1>. QED
  BY <1>2, <1>3 DEF ExitWithError

LEMMA CompleteEffect ==
  ASSUME TypeInv, NEW i \in Slots, NEW pcs \in [Slots -> PCs],
         NEW slots \in [Slots -> ProcData], Complete(i, pcs, slots)
  PROVE  /\ lock' = Nobody /\ curWaitIdx' = 1 - curWaitIdx
         /\ condWaitCnt' = [condWaitCnt EXCEPT ![local[i].waitIdx] = @ - 1]
         /\ pc'[i] = "past"
         /\ \A j \in Slots \ {i} :
              IF pcs[j] = "wait" /\ local[j].waitIdx = local[i].waitIdx
                THEN pc'[j] = "woken" ELSE pc'[j] = pcs[j]
         /\ \A j \in Slots : /\ allProcShm'[j].waitIdx = -1
                             /\ allProcShm'[j].pid = slots[j].pid
                             /\ allProcShm'[j].insidePLR = slots[j].insidePLR
                             /\ allProcShm'[j].syscallArgs = slots[j].syscallArgs
<1>1. \A j \in Slots : allProcShm'[j] = [slots[j] EXCEPT !.waitIdx = -1] /\ slots[j] \in ProcData
  BY DEF Complete
<1>2. \A j \in Slots : /\ allProcShm'[j].waitIdx = -1
                       /\ allProcShm'[j].pid = slots[j].pid
                       /\ allProcShm'[j].insidePLR = slots[j].insidePLR
                       /\ allProcShm'[j].syscallArgs = slots[j].syscallArgs
  <2> SUFFICES ASSUME NEW j \in Slots
               PROVE  /\ allProcShm'[j].waitIdx = -1
                      /\ allProcShm'[j].pid = slots[j].pid
                      /\ allProcShm'[j].insidePLR = slots[j].insidePLR
                      /\ allProcShm'[j].syscallArgs = slots[j].syscallArgs
    OBVIOUS
  <2>1. allProcShm'[j] = [slots[j] EXCEPT !.waitIdx = -1] /\ slots[j] \in ProcData
    BY <1>1
  <2>. QED
    BY <2>1 DEF ProcData
<1>3. /\ pc'[i] = "past"
      /\ \A j \in Slots \ {i} :
           IF pcs[j] = "wait" /\ local[j].waitIdx = local[i].waitIdx
             THEN pc'[j] = "woken" ELSE pc'[j] = pcs[j]
  BY DEF Complete, Signal
<1>. QED
  BY <1>2, <1>3 DEF Complete

LEMMA OpenEffect ==
  ASSUME TypeInv, NEW i \in Slots, Complete(i, pc, allProcShm)
  PROVE  /\ lock' = Nobody /\ curWaitIdx' = 1 - curWaitIdx
         /\ condWaitCnt' = [condWaitCnt EXCEPT ![local[i].waitIdx] = @ - 1]
         /\ pc'[i] = "past"
         /\ \A j \in Slots \ {i} :
              IF pc[j] = "wait" /\ local[j].waitIdx = local[i].waitIdx
                THEN pc'[j] = "woken" ELSE pc'[j] = pc[j]
         /\ \A j \in Slots : KeepsSlot(j) /\ allProcShm'[j].waitIdx = -1
BY CompleteEffect DEF TypeInv, TypeOK, KeepsSlot

LEMMA MasterActsEffect ==
  ASSUME TypeInv, NEW i \in Slots, MasterActs(i)
  PROVE  /\ KeepsPlace(i) /\ local'[i].waitIdx = local[i].waitIdx
         /\ local'[i].ret = local[i].call
         /\ \A j \in Slots \ {i} : local'[j] = local[j]
<1>1. local'[i] = [local[i] EXCEPT !.ret = local[i].call] /\ local[i] \in Locals
  BY DEF MasterActs, TypeInv, TypeOK
<1>2. local'[i].ret = local[i].call /\ local'[i].waitIdx = local[i].waitIdx
  BY <1>1 DEF Locals
<1>3. KeepsPlace(i)
  BY <1>1 DEF Locals, KeepsPlace
<1>. QED
  BY <1>2, <1>3 DEF MasterActs, TypeInv, TypeOK

LEMMA VoteReplacesEffect ==
  ASSUME TypeInv, NEW i \in Slots, VoteReplaces(i)
  PROVE  /\ Verdict \in Slots \ {i} /\ AtVote(i)
         /\ lock' = Nobody /\ curWaitIdx' = 1 - curWaitIdx
         /\ condWaitCnt' = [condWaitCnt EXCEPT ![local[i].waitIdx] = @ - 1]
         /\ pc'[i] = "past" /\ pc'[Verdict] = "bornVote"
         /\ \A j \in Slots \ {i, Verdict} :
              IF pc[j] = "wait" /\ local[j].waitIdx = local[i].waitIdx
                THEN pc'[j] = "woken" ELSE pc'[j] = pc[j]
         /\ \A j \in Slots : allProcShm'[j].waitIdx = -1
         /\ \A j \in Slots \ {Verdict} : KeepsSlot(j) /\ local'[j] = local[j]
         /\ allProcShm'[Verdict].pid = 0
         /\ local'[Verdict] = local[i]
         /\ parentProcShmCpy' = [parentProcShmCpy EXCEPT ![Verdict] = allProcShm[i]]
<1>1. Verdict \in Slots \ {i} /\ AtVote(i)
  BY DEF VoteReplaces, AtVote, Voters, Slots
<1> DEFINE pcs == [pc EXCEPT ![Verdict] = "bornVote"]
           slots == [allProcShm EXCEPT ![Verdict] = FreeProcData]
<1>2. pcs \in [Slots -> PCs] /\ slots \in [Slots -> ProcData]
  BY <1>1, BlockTypes DEF TypeInv, TypeOK, PCs
<1>3. /\ pcs[Verdict] = "bornVote" /\ \A j \in Slots \ {Verdict} : pcs[j] = pc[j]
      /\ slots[Verdict] = FreeProcData /\ \A j \in Slots \ {Verdict} : slots[j] = allProcShm[j]
  BY <1>1 DEF TypeInv, TypeOK
<1>4. Complete(i, pcs, slots)
  BY DEF VoteReplaces
<1> HIDE DEF pcs, slots
<1>5. /\ lock' = Nobody /\ curWaitIdx' = 1 - curWaitIdx
      /\ condWaitCnt' = [condWaitCnt EXCEPT ![local[i].waitIdx] = @ - 1]
      /\ pc'[i] = "past"
      /\ \A j \in Slots \ {i} :
           IF pcs[j] = "wait" /\ local[j].waitIdx = local[i].waitIdx
             THEN pc'[j] = "woken" ELSE pc'[j] = pcs[j]
      /\ \A j \in Slots : /\ allProcShm'[j].waitIdx = -1
                          /\ allProcShm'[j].pid = slots[j].pid
                          /\ allProcShm'[j].insidePLR = slots[j].insidePLR
                          /\ allProcShm'[j].syscallArgs = slots[j].syscallArgs
  BY <1>2, <1>4, CompleteEffect
<1>6. pc'[Verdict] = "bornVote"
  BY <1>1, <1>3, <1>5
<1>7. \A j \in Slots \ {i, Verdict} :
        IF pc[j] = "wait" /\ local[j].waitIdx = local[i].waitIdx
          THEN pc'[j] = "woken" ELSE pc'[j] = pc[j]
  BY <1>3, <1>5
<1>8. /\ local'[Verdict] = local[i] /\ \A j \in Slots \ {Verdict} : local'[j] = local[j]
      /\ parentProcShmCpy' = [parentProcShmCpy EXCEPT ![Verdict] = allProcShm[i]]
  BY <1>1 DEF VoteReplaces, Forked, ParentCopied, TypeInv, TypeOK
<1>9. \A j \in Slots \ {Verdict} : KeepsSlot(j)
  BY <1>3, <1>5 DEF KeepsSlot
<1>10. allProcShm'[Verdict].pid = 0
  BY <1>1, <1>3, <1>5 DEF FreeProcData
<1>. QED
  BY <1>1, <1>5, <1>6, <1>7, <1>8, <1>9, <1>10

LEMMA WatchdogReplacesEffect ==
  ASSUME TypeInv, MutexInv, NEW i \in Slots, WatchdogReplaces(i)
  PROVE  /\ Victim \in Slots \ {i} /\ AtWatchdog(i)
         /\ allProcShm[Victim].waitIdx < 0 /\ allProcShm[Victim].pid # 0
         /\ pc'[i] = "top" /\ pc'[Victim] = "bornDog"
         /\ \A j \in Slots \ {i, Victim} : pc'[j] = pc[j]
         /\ TakesAfter(Victim, i) /\ local'[Victim].dogIdx = curWaitIdx
         /\ \A j \in Slots \ {Victim} : local'[j] = local[j] /\ allProcShm'[j] = allProcShm[j]
         /\ allProcShm'[Victim].pid = 0 /\ allProcShm'[Victim].waitIdx = 0
         /\ parentProcShmCpy' = [parentProcShmCpy EXCEPT ![Victim] = allProcShm[i]]
<1>1. Victim \in NotWaiting /\ AtWatchdog(i)
  BY VictimMissing DEF WatchdogReplaces
<1>2. Unreleased(i)
  BY <1>1 DEF AtWatchdog, MutexInv, DogHeld
<1>3. /\ Victim \in Slots \ {i} /\ allProcShm[Victim].waitIdx < 0
      /\ allProcShm[Victim].pid # 0
  BY <1>1, <1>2 DEF NotWaiting, Unreleased, WatchdogReplaces, TypeInv, TypeOK, ProcData
<1>4. /\ pc'[i] = "top" /\ pc'[Victim] = "bornDog"
      /\ \A j \in Slots \ {i, Victim} : pc'[j] = pc[j]
  BY <1>3 DEF WatchdogReplaces, TypeInv, TypeOK
<1>5. /\ local'[Victim] = [local[i] EXCEPT !.dogIdx = curWaitIdx]
      /\ \A j \in Slots \ {Victim} : local'[j] = local[j] /\ allProcShm'[j] = allProcShm[j]
      /\ allProcShm'[Victim] = FreeProcData
      /\ parentProcShmCpy' = [parentProcShmCpy EXCEPT ![Victim] = allProcShm[i]]
  BY <1>3 DEF WatchdogReplaces, Forked, ParentCopied, TypeInv, TypeOK
<1>6. TakesAfter(Victim, i) /\ local'[Victim].dogIdx = curWaitIdx
  BY <1>5 DEF TakesAfter, Locals, TypeInv, TypeOK
<1>. QED
  BY <1>1, <1>3, <1>4, <1>5, <1>6 DEF FreeProcData

LEMMA KillEffect ==
  ASSUME TypeInv, KillsGroup
  PROVE  Quietly /\ \A j \in Slots : pc'[j] = IF pc[j] \in Stopped THEN pc[j] ELSE "dead"
BY DEF KillsGroup, Quietly, TypeInv, TypeOK

-----------------------------------------------------------------------------
(* Slots.                                                                  *)

\* A process forked inside a wrapper carries a slot that says so; those forked
\* at start-up, one that does not.
Newborn == {"bornInit", "bornVote", "bornDog"}
CopyInStep ==
  \A i \in Slots : pc[i] \in Newborn => (parentProcShmCpy[i].insidePLR <=> pc[i] # "bornInit")

SlotInv == SlotInStep /\ CopyInStep

LEMMA SlotStep == TypeInv /\ MutexInv /\ SlotInv /\ [Next]_vars => SlotInv'
<1> SUFFICES ASSUME TypeInv, MutexInv, SlotInv, [Next]_vars
             PROVE  SlotInv'
  OBVIOUS
<1>0. TypeOK /\ SlotInStep /\ CopyInStep
  BY DEF TypeInv, SlotInv
<1>1. ASSUME NEW i \in Slots, BeginCall(i)
      PROVE  SlotInv'
  <2>1. OnlyMove({i}) /\ pc[i] = "app" /\ pc'[i] = "lock"
        /\ allProcShm'[i].pid = allProcShm[i].pid /\ allProcShm'[i].insidePLR = TRUE
    BY <1>1, BeginCallEffect
  <2>. QED
    BY <1>0, <2>1 DEF SlotInv, SlotInStep, CopyInStep, Newborn, Stopped, OnlyMove
<1>2. ASSUME NEW i \in Slots, BeginMasterAction(i)
      PROVE  SlotInv'
  BY <1>0, <1>2 DEF BeginMasterAction, TypeOK, SlotInv, SlotInStep, CopyInStep, Newborn, Stopped, ProcData
<1>3. ASSUME NEW i \in Slots, CopyResult(i)
      PROVE  SlotInv'
  BY <1>0, <1>3 DEF CopyResult, TypeOK, SlotInv, SlotInStep, CopyInStep, Newborn, Stopped, ProcData
<1>4. ASSUME NEW i \in Slots, BeginExitState(i)
      PROVE  SlotInv'
  BY <1>0, <1>4, BeginExitEffect DEF SlotInv, SlotInStep, CopyInStep, Newborn, Stopped, OnlyMove
<1>5. ASSUME NEW i \in Slots, EndCall(i)
      PROVE  SlotInv'
  <2>1. OnlyMove({i}) /\ CallOver(i) /\ pc'[i] = "app"
        /\ allProcShm'[i].pid = allProcShm[i].pid /\ allProcShm'[i].insidePLR = FALSE
    BY <1>5, EndCallEffect DEF CallOver
  <2>. QED
    BY <1>0, <2>1 DEF SlotInv, SlotInStep, CopyInStep, Newborn, Stopped, OnlyMove, CallOver
<1>6. ASSUME NEW i \in Slots, ExitProgram(i)
      PROVE  SlotInv'
  BY <1>0, <1>6 DEF ExitProgram, TypeOK, SlotInv, SlotInStep, CopyInStep, Newborn, Stopped, ProcData
<1>7. ASSUME NEW i \in Slots, EnterBarrier(i)
      PROVE  SlotInv'
  <2>1. OnlyMove({i}) /\ pc[i] = "lock" /\ pc'[i] = "top" /\ KeepsSlot(i)
    BY <1>7, EnterEffect DEF KeepsSlot
  <2>. QED
    BY <1>0, <2>1 DEF SlotInv, SlotInStep, CopyInStep, Newborn, Stopped, OnlyMove, KeepsSlot
<1>8. ASSUME NEW i \in Slots, ArrivalAborts(i)
      PROVE  SlotInv'
  BY <1>0, <1>8 DEF ArrivalAborts, TypeOK, SlotInv, SlotInStep, CopyInStep, Newborn, Stopped, ProcData
<1>9. ASSUME NEW i \in Slots, LeaveReleased(i)
      PROVE  SlotInv'
  BY <1>0, <1>9 DEF LeaveReleased, TypeOK, SlotInv, SlotInStep, CopyInStep, Newborn, Stopped, ProcData
<1>10. ASSUME NEW i \in Slots, VoteAgrees(i)
      PROVE  SlotInv'
  <2>1. Complete(i, pc, allProcShm) /\ pc[i] = "top" /\ parentProcShmCpy' = parentProcShmCpy
    BY <1>10 DEF VoteAgrees, AtVote, AtMasterAct, AtAction
  <2>2. /\ pc'[i] = "past" /\ \A j \in Slots : KeepsSlot(j)
        /\ \A j \in Slots \ {i} : pc'[j] = pc[j] \/ (pc[j] = "wait" /\ pc'[j] = "woken")
    BY <2>1, OpenEffect
  <2>. QED
    BY <1>0, <2>1, <2>2 DEF SlotInv, SlotInStep, CopyInStep, Newborn, Stopped, KeepsSlot
<1>11. ASSUME NEW i \in Slots, VoteNamesSelf(i)
      PROVE  SlotInv'
  <2>1. OnlyMove({i}) /\ Quietly
    BY <1>11, MoveEffect
  <2>2. pc[i] = "top" /\ pc'[i] = "dog"
    BY <1>11 DEF VoteNamesSelf, AtVote, AtAction, Signal, TypeInv, TypeOK
  <2>. QED
    BY <1>0, <2>1, <2>2 DEF SlotInv, SlotInStep, CopyInStep, Newborn, Stopped, OnlyMove, Quietly
<1>12. ASSUME NEW i \in Slots, VoteReplaces(i)
      PROVE  SlotInv'
  <2>1. pc[i] = "top" /\ Verdict \in Slots \ {i}
    BY <1>12, VoteReplacesEffect DEF AtVote, AtAction
  <2>2. /\ pc'[i] = "past" /\ pc'[Verdict] = "bornVote"
        /\ \A j \in Slots \ {i, Verdict} : pc'[j] = pc[j] \/ (pc[j] = "wait" /\ pc'[j] = "woken")
        /\ \A j \in Slots \ {Verdict} : KeepsSlot(j)
        /\ parentProcShmCpy'[Verdict] = allProcShm[i]
        /\ \A j \in Slots \ {Verdict} : parentProcShmCpy'[j] = parentProcShmCpy[j]
    BY <1>0, <1>12, <2>1, VoteReplacesEffect DEF TypeOK
  <2>. QED
    BY <1>0, <2>1, <2>2 DEF SlotInv, SlotInStep, CopyInStep, Newborn, Stopped, KeepsSlot
<1>13. ASSUME NEW i \in Slots, VoteFails(i)
      PROVE  SlotInv'
  <2>1. ExitWithError(i)
    BY <1>13 DEF VoteFails
  <2>2. OnlyMove({i}) /\ pc'[i] = "failed"
    BY <2>1, ExitEffect
  <2>. QED
    BY <1>0, <2>2 DEF SlotInv, SlotInStep, CopyInStep, Newborn, Stopped, OnlyMove
<1>14. ASSUME NEW i \in Slots, MasterActs(i)
      PROVE  SlotInv'
  <2>1. Complete(i, pc, allProcShm) /\ pc[i] = "top" /\ parentProcShmCpy' = parentProcShmCpy
    BY <1>14 DEF MasterActs, AtVote, AtMasterAct, AtAction
  <2>2. /\ pc'[i] = "past" /\ \A j \in Slots : KeepsSlot(j)
        /\ \A j \in Slots \ {i} : pc'[j] = pc[j] \/ (pc[j] = "wait" /\ pc'[j] = "woken")
    BY <2>1, OpenEffect
  <2>. QED
    BY <1>0, <2>1, <2>2 DEF SlotInv, SlotInStep, CopyInStep, Newborn, Stopped, KeepsSlot
<1>15. ASSUME NEW i \in Slots, MasterExits(i)
      PROVE  SlotInv'
  BY <1>0, <1>15 DEF MasterExits, TypeOK, SlotInv, SlotInStep, CopyInStep, Newborn, Stopped, ProcData
<1>16. ASSUME NEW i \in Slots, SummonMaster(i)
      PROVE  SlotInv'
  <2>1. OnlyMove({i}) /\ Quietly
    BY <1>16, MoveEffect
  <2>2. pc[i] = "top" /\ pc'[i] = "dog"
    BY <1>16 DEF SummonMaster, AtVote, AtAction, Signal, TypeInv, TypeOK
  <2>. QED
    BY <1>0, <2>1, <2>2 DEF SlotInv, SlotInStep, CopyInStep, Newborn, Stopped, OnlyMove, Quietly
<1>17. ASSUME NEW i \in Slots, NotFull(i)
      PROVE  SlotInv'
  BY <1>0, <1>17 DEF NotFull, TypeOK, SlotInv, SlotInStep, CopyInStep, Newborn, Stopped, ProcData
<1>18. ASSUME NEW i \in Slots, Park(i)
      PROVE  SlotInv'
  BY <1>0, <1>18 DEF Park, TypeOK, SlotInv, SlotInStep, CopyInStep, Newborn, Stopped, ProcData
<1>19. ASSUME NEW i \in Slots, WatchdogGivesUp(i)
      PROVE  SlotInv'
  <2>1. ExitWithError(i)
    BY <1>19 DEF WatchdogGivesUp
  <2>2. OnlyMove({i}) /\ pc'[i] = "failed"
    BY <2>1, ExitEffect
  <2>. QED
    BY <1>0, <2>2 DEF SlotInv, SlotInStep, CopyInStep, Newborn, Stopped, OnlyMove
<1>20. ASSUME NEW i \in Slots, WatchdogReplaces(i)
      PROVE  SlotInv'
  <2>1. pc[i] = "dog" /\ Victim \in Slots \ {i}
    BY <1>20, WatchdogReplacesEffect DEF AtWatchdog
  <2>2. /\ pc'[i] = "top" /\ pc'[Victim] = "bornDog"
        /\ \A j \in Slots \ {i, Victim} : pc'[j] = pc[j]
        /\ \A j \in Slots \ {Victim} : allProcShm'[j] = allProcShm[j]
        /\ parentProcShmCpy'[Victim] = allProcShm[i]
        /\ \A j \in Slots \ {Victim} : parentProcShmCpy'[j] = parentProcShmCpy[j]
    BY <1>0, <1>20, <2>1, WatchdogReplacesEffect DEF TypeOK
  <2>. QED
    BY <1>0, <2>1, <2>2 DEF SlotInv, SlotInStep, CopyInStep, Newborn, Stopped
<1>21. ASSUME NEW i \in Slots, VoteKillsGroup(i)
      PROVE  SlotInv'
  <2>1. \A j \in Slots : pc'[j] \in Stopped
    BY <1>21, KillEffect DEF VoteKillsGroup, Stopped
  <2>. QED
    BY <2>1 DEF SlotInv, SlotInStep, CopyInStep, Newborn, Stopped
<1>22. ASSUME NEW i \in Slots, WatchdogKillsGroup(i)
      PROVE  SlotInv'
  <2>1. \A j \in Slots : pc'[j] \in Stopped
    BY <1>22, KillEffect DEF WatchdogKillsGroup, Stopped
  <2>. QED
    BY <2>1 DEF SlotInv, SlotInStep, CopyInStep, Newborn, Stopped
<1>23. ASSUME NEW i \in Slots, Reacquire(i)
      PROVE  SlotInv'
  BY <1>0, <1>23 DEF Reacquire, TypeOK, SlotInv, SlotInStep, CopyInStep, Newborn, Stopped, ProcData
<1>24. ASSUME NEW i \in Slots, BirthInit(i)
      PROVE  SlotInv'
  BY <1>0, <1>24, BirthInitEffect DEF SlotInv, SlotInStep, CopyInStep, Newborn, Stopped, OnlyMove
<1>25. ASSUME NEW i \in Slots, BirthVote(i)
      PROVE  SlotInv'
  BY <1>0, <1>25, BirthVoteEffect DEF SlotInv, SlotInStep, CopyInStep, Newborn, Stopped, OnlyMove
<1>26. ASSUME NEW i \in Slots, BirthDog(i)
      PROVE  SlotInv'
  BY <1>0, <1>26, BirthDogEffect DEF SlotInv, SlotInStep, CopyInStep, Newborn, Stopped, OnlyMove
<1>27. ASSUME NEW i \in Slots, Timeout(i)
      PROVE  SlotInv'
  BY <1>0, <1>27 DEF Timeout, TypeOK, SlotInv, SlotInStep, CopyInStep, Newborn, Stopped, ProcData
<1>28. ASSUME NEW i \in Slots, SpuriousWakeup(i)
      PROVE  SlotInv'
  BY <1>0, <1>28 DEF SpuriousWakeup, TypeOK, SlotInv, SlotInStep, CopyInStep, Newborn, Stopped, ProcData
<1>29. ASSUME NEW i \in Slots, Crash(i)
      PROVE  SlotInv'
  BY <1>0, <1>29 DEF Crash, TypeOK, SlotInv, SlotInStep, CopyInStep, Newborn, Stopped, ProcData
<1>30. ASSUME NEW i \in Slots, Corrupt(i)
      PROVE  SlotInv'
  BY <1>0, <1>30 DEF Corrupt, TypeOK, SlotInv, SlotInStep, CopyInStep, Newborn, Stopped, ProcData
<1>31. CASE UNCHANGED vars
  BY <1>0, <1>31 DEF vars, TypeOK, SlotInv, SlotInStep, CopyInStep, Newborn, Stopped, ProcData
<1>. QED
  BY <1>1, <1>2, <1>3, <1>4, <1>5, <1>6, <1>7, <1>8, <1>9, <1>10, <1>11,
     <1>12, <1>13, <1>14, <1>15, <1>16, <1>17, <1>18, <1>19, <1>20, <1>21,
     <1>22, <1>23, <1>24, <1>25, <1>26, <1>27, <1>28, <1>29, <1>30, <1>31
  DEF Next, Step, Terminated

\* A live process owns its slot, and insidePLR in it says whether it is in a wrapper,
\* whoever has been killed, outvoted or replaced, anywhere inside a wrapper: the checks
\* at the top of plr_waitBarrier and in plr_setInsidePLR and plr_clearInsidePLR
\* never stop or pass a call they should not.
THEOREM SlotsInStep == Spec => []SlotInStep
<1>1. Init => TypeInv /\ MutexInv /\ SlotInv
  <2>1. Init => SlotInv
    BY DEF Init, SlotInv, SlotInStep, CopyInStep, Newborn, Stopped, InitProcData, FreeProcData
  <2>. QED
    BY <2>1, InitType, InitMutex
<1>2. TypeInv /\ MutexInv /\ SlotInv /\ [Next]_vars => TypeInv' /\ MutexInv' /\ SlotInv'
  BY TypeStep, MutexStep, SlotStep
<1>. QED
  BY <1>1, <1>2, PTL DEF Spec, SlotInv

-----------------------------------------------------------------------------
(* Counting slots.                                                         *)

LEMMA SlotsCounted ==
  /\ IsFiniteSet(Slots) /\ Cardinality(Slots) = NProc
  /\ \A S \in SUBSET Slots : /\ IsFiniteSet(S)
                             /\ Cardinality(S) \in 0 .. NProc
                             /\ Cardinality(S) = NProc => S = Slots
<1>1. IsFiniteSet(Slots) /\ Cardinality(Slots) = NProc
  BY FS_Interval DEF Slots
<1>2. ASSUME NEW S \in SUBSET Slots
      PROVE  IsFiniteSet(S) /\ Cardinality(S) \in 0 .. NProc /\ (Cardinality(S) = NProc => S = Slots)
  <2>1. IsFiniteSet(S) /\ Cardinality(S) <= NProc /\ (Cardinality(S) = NProc => S = Slots)
    BY <1>1, FS_Subset
  <2>2. Cardinality(S) \in Nat
    BY <2>1, FS_CardinalityType
  <2>. QED
    BY <2>1, <2>2, NProcAssumption
<1>. QED
  BY <1>1, <1>2

\* A set of slots without i has one element fewer, one with i at most one more.
LEMMA OneFewer ==
  ASSUME NEW S \in SUBSET Slots, NEW i \in S, NEW T \in SUBSET (S \ {i})
  PROVE  Cardinality(T) <= Cardinality(S) - 1
<1>1. IsFiniteSet(S) /\ IsFiniteSet(S \ {i}) /\ Cardinality(S) \in Nat
  BY SlotsCounted
<1>2. Cardinality(S \ {i}) = Cardinality(S) - 1
  BY <1>1, FS_RemoveElement
<1>. QED
  BY <1>1, <1>2, FS_Subset

LEMMA OneMore ==
  ASSUME NEW S \in SUBSET Slots, NEW i \in Slots, NEW T \in SUBSET (S \cup {i})
  PROVE  Cardinality(T) <= Cardinality(S) + 1
<1>1. IsFiniteSet(S) /\ IsFiniteSet(S \cup {i}) /\ Cardinality(S) \in Nat
  BY SlotsCounted
<1>2. Cardinality(S \cup {i}) <= Cardinality(S) + 1
  BY <1>1, FS_AddElement
<1>3. Cardinality(T) <= Cardinality(S \cup {i}) /\ Cardinality(T) \in Nat /\ Cardinality(S \cup {i}) \in Nat
  BY <1>1, FS_Subset, FS_CardinalityType
<1>. QED
  BY <1>1, <1>2, <1>3

-----------------------------------------------------------------------------
(* The watchdog's handshake.                                               *)

\* No process dies between being forked by the watchdog and getting the lock.
NewbornsLive == CrashPoints \cap (Slots \X {"bornDog"} \X Phases) = {}

\* The slot of a process the watchdog has forked has no owner before it is born: who
\* chooses it again kills pid 0, not that process alone.
UnbornUnowned == \A i \in Unborn : allProcShm[i].pid = 0
TurnsInv == WatchdogsTakeTurns /\ UnbornUnowned

\* Steps that neither fork for the watchdog nor finish what it does.
LEMMA TurnsKept ==
  ASSUME TurnsInv, restoring' = restoring, NEW i \in Slots, pc[i] \notin Stopped,
         \A j \in Slots : pc'[j] = "bornDog" <=> pc[j] = "bornDog",
         \A j \in Slots : pc[j] = "bornDog" => allProcShm'[j].pid = allProcShm[j].pid
  PROVE  TurnsInv'
<1>1. Unborn' = Unborn
  BY DEF Unborn
<1>2. UnbornUnowned'
  BY <1>1 DEF TurnsInv, UnbornUnowned, Unborn
<1>. QED
  BY <1>1, <1>2 DEF TurnsInv, WatchdogsTakeTurns

LEMMA TurnsSolo ==
  ASSUME TurnsInv, restoring' = restoring, NEW i \in Slots, OnlyMove({i}),
         pc[i] \notin Stopped \cup {"bornDog"}, pc'[i] # "bornDog"
  PROVE  TurnsInv'
<1>1. \A j \in Slots : /\ pc'[j] = "bornDog" <=> pc[j] = "bornDog"
                       /\ pc[j] = "bornDog" => allProcShm'[j].pid = allProcShm[j].pid
  BY DEF OnlyMove
<1>. QED
  BY <1>1, TurnsKept

LEMMA TurnsStep ==
  ASSUME NewbornsLive
  PROVE  TypeInv /\ MutexInv /\ TurnsInv /\ [Next]_vars => TurnsInv'
<1> SUFFICES ASSUME TypeInv, MutexInv, TurnsInv, [Next]_vars
             PROVE  TurnsInv'
  OBVIOUS
<1>1. ASSUME NEW i \in Slots, BeginCall(i)
      PROVE  TurnsInv'
  <2>1. OnlyMove({i}) /\ pc[i] \notin Stopped \cup {"bornDog"} /\ pc'[i] # "bornDog" /\ restoring' = restoring
    BY <1>1, BeginCallEffect DEF BeginCall, Stopped
  <2>. QED
    BY <2>1, TurnsSolo
<1>2. ASSUME NEW i \in Slots, BeginMasterAction(i)
      PROVE  TurnsInv'
  <2>1. OnlyMove({i}) /\ pc[i] \notin Stopped \cup {"bornDog"} /\ pc'[i] # "bornDog" /\ restoring' = restoring
    BY <1>2, BeginMasterEffect DEF BeginMasterAction, Stopped
  <2>. QED
    BY <2>1, TurnsSolo
<1>3. ASSUME NEW i \in Slots, CopyResult(i)
      PROVE  TurnsInv'
  <2>1. OnlyMove({i}) /\ pc[i] \notin Stopped \cup {"bornDog"} /\ pc'[i] # "bornDog" /\ restoring' = restoring
    BY <1>3, CopyResultEffect DEF CopyResult, Stopped
  <2>. QED
    BY <2>1, TurnsSolo
<1>4. ASSUME NEW i \in Slots, BeginExitState(i)
      PROVE  TurnsInv'
  <2>1. OnlyMove({i}) /\ pc[i] \notin Stopped \cup {"bornDog"} /\ pc'[i] # "bornDog" /\ restoring' = restoring
    BY <1>4, BeginExitEffect DEF BeginExitState, Stopped
  <2>. QED
    BY <2>1, TurnsSolo
<1>5. ASSUME NEW i \in Slots, EndCall(i)
      PROVE  TurnsInv'
  <2>1. OnlyMove({i}) /\ pc[i] \notin Stopped \cup {"bornDog"} /\ pc'[i] # "bornDog" /\ restoring' = restoring
    BY <1>5, EndCallEffect DEF EndCall, Stopped, CallOver
  <2>. QED
    BY <2>1, TurnsSolo
<1>6. ASSUME NEW i \in Slots, ExitProgram(i)
      PROVE  TurnsInv'
  <2>1. OnlyMove({i}) /\ pc[i] \notin Stopped \cup {"bornDog"} /\ pc'[i] # "bornDog" /\ restoring' = restoring
    BY <1>6, MoveEffect DEF ExitProgram, AtVote, AtAction, AtMasterAct, Signal, Stopped, TypeInv, TypeOK
  <2>. QED
    BY <2>1, TurnsSolo
<1>7. ASSUME NEW i \in Slots, EnterBarrier(i)
      PROVE  TurnsInv'
  <2>1. OnlyMove({i}) /\ pc[i] \notin Stopped \cup {"bornDog"} /\ pc'[i] # "bornDog" /\ restoring' = restoring
    BY <1>7, EnterEffect DEF EnterBarrier, Stopped
  <2>. QED
    BY <2>1, TurnsSolo
<1>8. ASSUME NEW i \in Slots, ArrivalAborts(i)
      PROVE  TurnsInv'
  <2>1. OnlyMove({i}) /\ pc[i] \notin Stopped \cup {"bornDog"} /\ pc'[i] # "bornDog" /\ restoring' = restoring
    BY <1>8, MoveEffect DEF ArrivalAborts, AtVote, AtAction, AtMasterAct, Signal, Stopped, TypeInv, TypeOK
  <2>. QED
    BY <2>1, TurnsSolo
<1>9. ASSUME NEW i \in Slots, LeaveReleased(i)
      PROVE  TurnsInv'
  <2>1. OnlyMove({i}) /\ pc[i] \notin Stopped \cup {"bornDog"} /\ pc'[i] # "bornDog" /\ restoring' = restoring
    BY <1>9, MoveEffect DEF LeaveReleased, AtVote, AtAction, AtMasterAct, Signal, Stopped, TypeInv, TypeOK
  <2>. QED
    BY <2>1, TurnsSolo
<1>10. ASSUME NEW i \in Slots, VoteAgrees(i)
      PROVE  TurnsInv'
  <2>1. Complete(i, pc, allProcShm) /\ pc[i] = "top" /\ restoring' = restoring
    BY <1>10 DEF VoteAgrees, AtVote, AtMasterAct, AtAction
  <2>2. /\ pc'[i] = "past"
        /\ \A j \in Slots \ {i} : pc'[j] = pc[j] \/ (pc[j] = "wait" /\ pc'[j] = "woken")
        /\ \A j \in Slots : allProcShm'[j].pid = allProcShm[j].pid
    BY <2>1, OpenEffect DEF KeepsSlot
  <2>. QED
    BY <2>1, <2>2, TurnsKept DEF Stopped
<1>11. ASSUME NEW i \in Slots, VoteNamesSelf(i)
      PROVE  TurnsInv'
  <2>1. OnlyMove({i}) /\ pc[i] \notin Stopped \cup {"bornDog"} /\ pc'[i] # "bornDog" /\ restoring' = restoring
    BY <1>11, MoveEffect DEF VoteNamesSelf, AtVote, AtAction, AtMasterAct, Signal, Stopped, TypeInv, TypeOK
  <2>. QED
    BY <2>1, TurnsSolo
<1>12. ASSUME NEW i \in Slots, VoteReplaces(i)
      PROVE  TurnsInv'
  <2>1. /\ Verdict \in Slots \ {i} /\ pc[i] = "top" /\ pc'[i] = "past" /\ pc'[Verdict] = "bornVote"
        /\ \A j \in Slots \ {i, Verdict} : pc'[j] = pc[j] \/ (pc[j] = "wait" /\ pc'[j] = "woken")
        /\ \A j \in Slots \ {Verdict} : allProcShm'[j].pid = allProcShm[j].pid
    BY <1>12, VoteReplacesEffect DEF AtVote, AtAction, KeepsSlot
  <2>2. allProcShm[Verdict].pid # 0 /\ restoring' = restoring
    BY <1>12 DEF VoteReplaces
  <2>3. pc[Verdict] # "bornDog"
    BY <2>1, <2>2 DEF TurnsInv, UnbornUnowned, Unborn
  <2>. QED
    BY <2>1, <2>2, <2>3, TurnsKept DEF Stopped
<1>13. ASSUME NEW i \in Slots, VoteFails(i)
      PROVE  TurnsInv'
  <2>1. ExitWithError(i) /\ pc[i] \in {"top", "dog"}
    BY <1>13 DEF VoteFails, AtVote, AtAction, AtWatchdog
  <2>2. OnlyMove({i}) /\ pc'[i] = "failed" /\ restoring' = restoring
    BY <2>1, ExitEffect DEF ExitWithError
  <2>. QED
    BY <2>1, <2>2, TurnsSolo DEF Stopped
<1>14. ASSUME NEW i \in Slots, MasterActs(i)
      PROVE  TurnsInv'
  <2>1. Complete(i, pc, allProcShm) /\ pc[i] = "top" /\ restoring' = restoring
    BY <1>14 DEF MasterActs, AtVote, AtMasterAct, AtAction
  <2>2. /\ pc'[i] = "past"
        /\ \A j \in Slots \ {i} : pc'[j] = pc[j] \/ (pc[j] = "wait" /\ pc'[j] = "woken")
        /\ \A j \in Slots : allProcShm'[j].pid = allProcShm[j].pid
    BY <2>1, OpenEffect DEF KeepsSlot
  <2>. QED
    BY <2>1, <2>2, TurnsKept DEF Stopped
<1>15. ASSUME NEW i \in Slots, MasterExits(i)
      PROVE  TurnsInv'
  <2>1. OnlyMove({i}) /\ pc[i] \notin Stopped \cup {"bornDog"} /\ pc'[i] # "bornDog" /\ restoring' = restoring
    BY <1>15, MoveEffect DEF MasterExits, AtVote, AtAction, AtMasterAct, Signal, Stopped, TypeInv, TypeOK
  <2>. QED
    BY <2>1, TurnsSolo
<1>16. ASSUME NEW i \in Slots, SummonMaster(i)
      PROVE  TurnsInv'
  <2>1. OnlyMove({i}) /\ pc[i] \notin Stopped \cup {"bornDog"} /\ pc'[i] # "bornDog" /\ restoring' = restoring
    BY <1>16, MoveEffect DEF SummonMaster, AtVote, AtAction, AtMasterAct, Signal, Stopped, TypeInv, TypeOK
  <2>. QED
    BY <2>1, TurnsSolo
<1>17. ASSUME NEW i \in Slots, NotFull(i)
      PROVE  TurnsInv'
  <2>1. OnlyMove({i}) /\ pc[i] \notin Stopped \cup {"bornDog"} /\ pc'[i] # "bornDog" /\ restoring' = restoring
    BY <1>17, MoveEffect DEF NotFull, AtVote, AtAction, AtMasterAct, Signal, Stopped, TypeInv, TypeOK
  <2>. QED
    BY <2>1, TurnsSolo
<1>18. ASSUME NEW i \in Slots, Park(i)
      PROVE  TurnsInv'
  <2>1. OnlyMove({i}) /\ pc[i] \notin Stopped \cup {"bornDog"} /\ pc'[i] # "bornDog" /\ restoring' = restoring
    BY <1>18, MoveEffect DEF Park, AtVote, AtAction, AtMasterAct, Signal, Stopped, TypeInv, TypeOK
  <2>. QED
    BY <2>1, TurnsSolo
<1>19. ASSUME NEW i \in Slots, WatchdogGivesUp(i)
      PROVE  TurnsInv'
  <2>1. ExitWithError(i) /\ pc[i] \in {"top", "dog"}
    BY <1>19 DEF WatchdogGivesUp, AtVote, AtAction, AtWatchdog
  <2>2. OnlyMove({i}) /\ pc'[i] = "failed" /\ restoring' = restoring
    BY <2>1, ExitEffect DEF ExitWithError
  <2>. QED
    BY <2>1, <2>2, TurnsSolo DEF Stopped
<1>20. ASSUME NEW i \in Slots, WatchdogReplaces(i)
      PROVE  TurnsInv'
  <2>1. /\ Victim \in Slots \ {i} /\ pc[i] = "dog" /\ ~restoring /\ restoring'
        /\ pc'[i] = "top" /\ pc'[Victim] = "bornDog" /\ allProcShm'[Victim].pid = 0
        /\ \A j \in Slots \ {i, Victim} : pc'[j] = pc[j]
    BY <1>20, WatchdogReplacesEffect DEF WatchdogReplaces, AtWatchdog
  <2>2. Unborn' = {Victim}
    BY <2>1 DEF TurnsInv, WatchdogsTakeTurns, Unborn
  <2>. QED
    BY <2>1, <2>2 DEF TurnsInv, WatchdogsTakeTurns, UnbornUnowned
<1>21. ASSUME NEW i \in Slots, VoteKillsGroup(i)
      PROVE  TurnsInv'
  <2>1. \A j \in Slots : pc'[j] \in Stopped
    BY <1>21, KillEffect DEF VoteKillsGroup, Stopped
  <2>2. Unborn' = {}
    BY <2>1 DEF Unborn, Stopped
  <2>. QED
    BY <2>1, <2>2 DEF TurnsInv, WatchdogsTakeTurns, UnbornUnowned
<1>22. ASSUME NEW i \in Slots, WatchdogKillsGroup(i)
      PROVE  TurnsInv'
  <2>1. \A j \in Slots : pc'[j] \in Stopped
    BY <1>22, KillEffect DEF WatchdogKillsGroup, Stopped
  <2>2. Unborn' = {}
    BY <2>1 DEF Unborn, Stopped
  <2>. QED
    BY <2>1, <2>2 DEF TurnsInv, WatchdogsTakeTurns, UnbornUnowned
<1>23. ASSUME NEW i \in Slots, Reacquire(i)
      PROVE  TurnsInv'
  <2>1. OnlyMove({i}) /\ pc[i] \notin Stopped \cup {"bornDog"} /\ pc'[i] # "bornDog" /\ restoring' = restoring
    BY <1>23, ReacquireEffect DEF Reacquire, Stopped
  <2>. QED
    BY <2>1, TurnsSolo
<1>24. ASSUME NEW i \in Slots, BirthInit(i)
      PROVE  TurnsInv'
  <2>1. OnlyMove({i}) /\ pc[i] \notin Stopped \cup {"bornDog"} /\ pc'[i] # "bornDog" /\ restoring' = restoring
    BY <1>24, BirthInitEffect DEF BirthInit, Stopped
  <2>. QED
    BY <2>1, TurnsSolo
<1>25. ASSUME NEW i \in Slots, BirthVote(i)
      PROVE  TurnsInv'
  <2>1. OnlyMove({i}) /\ pc[i] \notin Stopped \cup {"bornDog"} /\ pc'[i] # "bornDog" /\ restoring' = restoring
    BY <1>25, BirthVoteEffect DEF BirthVote, Stopped
  <2>. QED
    BY <2>1, TurnsSolo
<1>26. ASSUME NEW i \in Slots, BirthDog(i)
      PROVE  TurnsInv'
  <2>1. OnlyMove({i}) /\ pc[i] = "bornDog" /\ pc'[i] = "top" /\ ~restoring'
    BY <1>26, BirthDogEffect DEF BirthDog
  <2>2. Unborn' = {}
    BY <2>1 DEF TurnsInv, WatchdogsTakeTurns, Unborn, OnlyMove
  <2>. QED
    BY <2>1, <2>2 DEF TurnsInv, WatchdogsTakeTurns, UnbornUnowned
<1>27. ASSUME NEW i \in Slots, Timeout(i)
      PROVE  TurnsInv'
  <2>1. OnlyMove({i}) /\ pc[i] \notin Stopped \cup {"bornDog"} /\ pc'[i] # "bornDog" /\ restoring' = restoring
    BY <1>27, MoveEffect DEF Timeout, AtVote, AtAction, AtMasterAct, Signal, Stopped, TypeInv, TypeOK
  <2>. QED
    BY <2>1, TurnsSolo
<1>28. ASSUME NEW i \in Slots, SpuriousWakeup(i)
      PROVE  TurnsInv'
  <2>1. OnlyMove({i}) /\ pc[i] \notin Stopped \cup {"bornDog"} /\ pc'[i] # "bornDog" /\ restoring' = restoring
    BY <1>28, MoveEffect DEF SpuriousWakeup, AtVote, AtAction, AtMasterAct, Signal, Stopped, TypeInv, TypeOK
  <2>. QED
    BY <2>1, TurnsSolo
<1>29. ASSUME NEW i \in Slots, Crash(i)
      PROVE  TurnsInv'
  <2>1. OnlyMove({i}) /\ pc[i] \notin Stopped /\ pc'[i] = "dead" /\ restoring' = restoring
    BY <1>29, MoveEffect DEF Crash, TypeInv, TypeOK
  <2>2. pc[i] # "bornDog"
    BY <1>29 DEF Crash, NewbornsLive, TypeInv, TypeOK, Locals
  <2>. QED
    BY <2>1, <2>2, TurnsSolo
<1>30. ASSUME NEW i \in Slots, Corrupt(i)
      PROVE  TurnsInv'
  <2>1. OnlyMove({i}) /\ pc[i] \notin Stopped \cup {"bornDog"} /\ pc'[i] # "bornDog" /\ restoring' = restoring
    BY <1>30, CorruptEffect DEF Corrupt, Stopped
  <2>. QED
    BY <2>1, TurnsSolo
<1>31. CASE UNCHANGED vars
  BY <1>31 DEF vars, TurnsInv, WatchdogsTakeTurns, UnbornUnowned, Unborn
<1>. QED
  BY <1>1, <1>2, <1>3, <1>4, <1>5, <1>6, <1>7, <1>8, <1>9, <1>10, <1>11,
     <1>12, <1>13, <1>14, <1>15, <1>16, <1>17, <1>18, <1>19, <1>20, <1>21,
     <1>22, <1>23, <1>24, <1>25, <1>26, <1>27, <1>28, <1>29, <1>30, <1>31
  DEF Next, Step, Terminated

\* Whatever the timers do, restoring is set exactly while a replacement forked by the
\* watchdog has yet to get the lock, and there is one at a time: no watchdog or vote
\* replaces it before it has taken restoring back, which would leave it set for ever.
THEOREM RestoringHandedOver ==
  ASSUME NewbornsLive
  PROVE  Spec => []WatchdogsTakeTurns
<1>1. Init => TypeInv /\ MutexInv /\ TurnsInv
  <2>1. Init => TurnsInv
    BY DEF Init, TurnsInv, WatchdogsTakeTurns, UnbornUnowned, Unborn
  <2>. QED
    BY <2>1, InitType, InitMutex
<1>2. TypeInv /\ MutexInv /\ TurnsInv /\ [Next]_vars => TypeInv' /\ MutexInv' /\ TurnsInv'
  BY TypeStep, MutexStep, TurnsStep
<1>. QED
  BY <1>1, <1>2, PTL DEF Spec, TurnsInv
=============================================================================
