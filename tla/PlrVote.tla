------------------------------- MODULE PlrVote -------------------------------
(***************************************************************************)
(* The majority vote PLR takes over the arguments of a library call:       *)
(* plrC_compareArgs (plrCommon/plrCompare.c) and the decision in           *)
(* plr_checkSyscallArgs_act (plrCommon/plr.c) of which process is faulted. *)
(* An argument block is a function from its fields to their values; the    *)
(* vote only ever tells equal fields from different ones.                  *)
(***************************************************************************)
EXTENDS Integers

\* The code votes over exactly three processes: it asserts nProc == 3 first.
Voters == 0 .. 2

\* The two verdicts that name no process: badProc == -1 and badProc == nProc.
AllAgree == -1
NoMajority == 3

\* Mutant: one field of the block is left out of the comparison.
CompareLess(a, b) == {f \in DOMAIN a : a[f] # b[f] /\ f # CHOOSE g \in DOMAIN a : TRUE}

\* The fault mask, as the set of its one bits: the fields that differ.
CompareArgs(a, b) == {f \in DOMAIN a : a[f] # b[f]}

\* Mutant: the last comparison does not look at comp0vs1 again.
BadProcHasty(args) ==
  LET comp0vs1 == CompareArgs(args[0], args[1])
      comp1vs2 == CompareArgs(args[1], args[2])
      comp0vs2 == CompareArgs(args[0], args[2])
  IN  IF comp0vs1 = {} /\ comp1vs2 = {} THEN AllAgree
      ELSE IF comp0vs1 # {} /\ comp1vs2 = {} THEN 0
      ELSE IF comp0vs1 # {} /\ comp0vs2 = {} THEN 1
      ELSE IF comp0vs2 # {} THEN 2
      ELSE NoMajority

\* badProc, from the argument blocks of the three slots, decided
\* in the code's order.
BadProc(args) ==
  LET comp0vs1 == CompareArgs(args[0], args[1])
      comp1vs2 == CompareArgs(args[1], args[2])
      comp0vs2 == CompareArgs(args[0], args[2])
  IN  IF comp0vs1 = {} /\ comp1vs2 = {} THEN AllAgree
      ELSE IF comp0vs1 # {} /\ comp1vs2 = {} THEN 0
      ELSE IF comp0vs1 # {} /\ comp0vs2 = {} THEN 1
      ELSE IF comp0vs2 # {} /\ comp0vs1 = {} THEN 2
      ELSE NoMajority

-----------------------------------------------------------------------------
(* What a majority vote is, said without comparing in any order.           *)

\* p is outvoted: the others agree with each other and not with p.
Outvoted(args, p) ==
  /\ \A q \in Voters \ {p} : args[q] # args[p]
  /\ \A q, r \in Voters \ {p} : args[q] = args[r]

\* No two argument blocks are the same.
Scattered(args) == \A p, q \in Voters : p # q => args[p] # args[q]

\* All argument blocks are the same.
Unanimous(args) == \A p, q \in Voters : args[p] = args[q]
=============================================================================
