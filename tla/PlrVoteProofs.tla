---------------------------- MODULE PlrVoteProofs ----------------------------
(***************************************************************************)
(* The vote is right for every set of fields and every set of values.      *)
(***************************************************************************)
EXTENDS VoteUpset, TLAPS

\* plrC_compareArgs reports no difference exactly on equal argument blocks.
LEMMA CompareExact ==
  ASSUME NEW a \in ArgBlocks, NEW b \in ArgBlocks
  PROVE  CompareArgs(a, b) = {} <=> a = b
BY DEF CompareArgs, ArgBlocks

\* The verdict of plr_checkSyscallArgs_act is the majority vote, for all
\* argument blocks.
LEMMA BadProcIsMajority ==
  ASSUME NEW args \in [Voters -> ArgBlocks]
  PROVE  /\ \A p \in Voters : BadProc(args) = p <=> Outvoted(args, p)
         /\ BadProc(args) = AllAgree <=> Unanimous(args)
         /\ BadProc(args) = NoMajority <=> Scattered(args)
<1>1. Voters = {0, 1, 2}
  BY DEF Voters
<1>2. /\ args[0] \in ArgBlocks
      /\ args[1] \in ArgBlocks
      /\ args[2] \in ArgBlocks
  BY <1>1
<1>3. \A p, q \in Voters : CompareArgs(args[p], args[q]) = {} <=> args[p] = args[q]
  BY CompareExact
<1>4. BadProc(args) =
        IF args[0] = args[1] /\ args[1] = args[2] THEN AllAgree
        ELSE IF args[0] # args[1] /\ args[1] = args[2] THEN 0
        ELSE IF args[0] # args[1] /\ args[0] = args[2] THEN 1
        ELSE IF args[0] # args[2] /\ args[0] = args[1] THEN 2
        ELSE NoMajority
  BY <1>1, <1>3 DEF BadProc
<1>5. CASE args[0] = args[1] /\ args[1] = args[2]
  BY <1>1, <1>4, <1>5 DEF Outvoted, Unanimous, Scattered, AllAgree, NoMajority
<1>6. CASE args[0] # args[1] /\ args[1] = args[2]
  BY <1>1, <1>4, <1>6 DEF Outvoted, Unanimous, Scattered, AllAgree, NoMajority
<1>7. CASE args[0] # args[1] /\ args[1] # args[2] /\ args[0] = args[2]
  BY <1>1, <1>4, <1>7 DEF Outvoted, Unanimous, Scattered, AllAgree, NoMajority
<1>8. CASE args[0] = args[1] /\ args[1] # args[2]
  BY <1>1, <1>4, <1>8 DEF Outvoted, Unanimous, Scattered, AllAgree, NoMajority
<1>9. CASE args[0] # args[1] /\ args[1] # args[2] /\ args[0] # args[2]
  BY <1>1, <1>4, <1>9 DEF Outvoted, Unanimous, Scattered, AllAgree, NoMajority
<1>. QED
  BY <1>5, <1>6, <1>7, <1>8, <1>9

\* The three blocks stay blocks of the given fields and values.
THEOREM TypeCorrect == Spec => []TypeOK
<1>1. Init => TypeOK
  BY DEF Init, TypeOK
<1>2. TypeOK /\ [Next]_vars => TypeOK'
  BY DEF TypeOK, Next, Publish, vars
<1>. QED
  BY <1>1, <1>2, PTL DEF Spec

\* Whatever the fields and values, the verdict names exactly the process a
\* majority outvotes, and none when all agree or no two do.
THEOREM VerdictCorrect == Spec => []VerdictIsMajority
<1>1. TypeOK => VerdictIsMajority
  BY BadProcIsMajority DEF TypeOK, VerdictIsMajority
<1>. QED
  BY <1>1, TypeCorrect, PTL

\* Whatever the fields and values, a change to one of three agreeing blocks is
\* always attributed to the slot it happened in.
THEOREM UpsetLocated == Spec => UpsetIsLocated
<1> DEFINE Located ==
      \A p \in Voters :
        Unanimous(syscallArgs) /\ syscallArgs'[p] # syscallArgs[p]
          => BadProc(syscallArgs') = p
<1>1. TypeOK /\ TypeOK' /\ [Next]_vars => [Located]_vars
  <2>1. SUFFICES ASSUME TypeOK, TypeOK', NEW q \in Voters, Publish(q),
                        NEW p \in Voters, Unanimous(syscallArgs),
                        syscallArgs'[p] # syscallArgs[p]
                 PROVE  BadProc(syscallArgs') = p
    BY DEF Next, vars
  <2>2. \A r \in Voters : r # q => syscallArgs'[r] = syscallArgs[r]
    BY <2>1 DEF Publish, TypeOK
  <2>3. p = q
    BY <2>1, <2>2
  <2>4. Outvoted(syscallArgs', p)
    BY <2>1, <2>2, <2>3 DEF Outvoted, Unanimous
  <2>. QED
    BY <2>1, <2>4, BadProcIsMajority DEF TypeOK
<1>. QED
  BY <1>1, TypeCorrect, PTL DEF Spec, UpsetIsLocated
=============================================================================
