---------------------------- MODULE VirtualProcess ----------------------------
(***************************************************************************)
(* What PLR promises to the outside: the redundant processes behave as one *)
(* fault-free run of the program. Every call with an effect happens once,  *)
(* in program order, with fault-free data, and only when every replica has *)
(* asked for it; a replica returns from a call only after the call has     *)
(* happened; and a replica may be replaced by a copy of another.           *)
(***************************************************************************)
EXTENDS Integers, Sequences

CONSTANTS
  Replicas,   \* the replicas
  Program,    \* the calls the program makes: a sequence of kinds
  Good        \* the data of a fault-free run

VARIABLES
  out,        \* the effects on the outside world so far
  returned    \* how many calls each replica has returned from

vvars == <<out, returned>>

VCalls == 1 .. Len(Program)
HasEffect(c) == Program[c] # "local"
Happened(c) == \E k \in DOMAIN out : out[k].call = c

VInit == out = << >> /\ returned = [r \in Replicas |-> 0]

\* Call c happens: every replica has returned from the call before it.
Perform(c) ==
  /\ HasEffect(c) /\ ~Happened(c)
  /\ \A r \in Replicas : returned[r] = c - 1
  /\ out' = Append(out, [call |-> c, data |-> Good])
  /\ UNCHANGED returned

\* Replica r returns from call c. Nobody is a whole call behind it.
Return(r, c) ==
  /\ returned[r] = c - 1
  /\ HasEffect(c) => Happened(c)
  /\ \A s \in Replicas : returned[s] >= c - 1
  /\ returned' = [returned EXCEPT ![r] = c]
  /\ UNCHANGED out

\* A copy of replica s takes the place of replica r.
Replace(r, s) ==
  /\ returned' = [returned EXCEPT ![r] = returned[s]]
  /\ UNCHANGED out

VNext ==
  \/ \E c \in VCalls : Perform(c) \/ \E r \in Replicas : Return(r, c)
  \/ \E r, s \in Replicas : Replace(r, s)

VSpec == VInit /\ [][VNext]_vvars
=============================================================================
