------------------------------ MODULE VoteUpset ------------------------------
(***************************************************************************)
(* The three argument blocks in shared memory, overwritten one at a time   *)
(* as plr_checkSyscallArgs does before the barrier, and the verdict the    *)
(* barrier action would reach on every combination of them.                *)
(***************************************************************************)
EXTENDS PlrVote

CONSTANTS
  Fields,    \* the fields of syscallArgs_t: addr and arg[0] .. arg[5]
  Values     \* the values a field may hold

VARIABLE syscallArgs   \* allProcShm[p].syscallArgs, for each slot p

vars == <<syscallArgs>>

ArgBlocks == [Fields -> Values]

Init == syscallArgs \in [Voters -> ArgBlocks]

\* The memcpy of process p's arguments into its slot.
Publish(p) ==
  \E a \in ArgBlocks : syscallArgs' = [syscallArgs EXCEPT ![p] = a]

Next == \E p \in Voters : Publish(p)

Spec == Init /\ [][Next]_vars

-----------------------------------------------------------------------------
TypeOK == syscallArgs \in [Voters -> ArgBlocks]

\* The chain of comparisons in plr_checkSyscallArgs_act decides exactly the
\* majority vote: it names a process if and only if that process is outvoted,
\* lets the call through if and only if all three agree, and gives up if and
\* only if no two agree, whichever fields differ.
VerdictIsMajority ==
  /\ \A p \in Voters : BadProc(syscallArgs) = p <=> Outvoted(syscallArgs, p)
  /\ BadProc(syscallArgs) = AllAgree <=> Unanimous(syscallArgs)
  /\ BadProc(syscallArgs) = NoMajority <=> Scattered(syscallArgs)

\* Single-fault coverage: when three agreeing processes suffer one change of
\* one argument block, whatever it changes, the verdict of
\* plr_checkSyscallArgs_act names exactly the process it happened to.
UpsetIsLocated ==
  [][ \A p \in Voters :
        Unanimous(syscallArgs) /\ syscallArgs'[p] # syscallArgs[p]
          => BadProc(syscallArgs') = p ]_vars
=============================================================================
