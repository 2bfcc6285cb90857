----------------------------- MODULE MCPlrBarrier -----------------------------
(***************************************************************************)
(* Values of the constants of PlrBarrier for TLC.                          *)
(***************************************************************************)
EXTENDS PlrBarrier

\* Programs: sequences of wrapped calls.
WriteThenClose == <<"emulated", "local">>
Fwrite == <<"stdio">>
WriteBetween == <<"local", "emulated", "local">>
WriteAmong == WriteBetween \o <<"local">>

\* A bound on what is explored where timers are eager, since replacements born too
\* late change the counts again and again: how far a count strays from the number of
\* processes, and how many effects a behaviour has.
FewLeftovers ==
  /\ \A x \in {0, 1} : condWaitCnt[x] \in -3 .. NProc + 2
  /\ Len(log) <= 4

\* Where a process may die: outside the barriers on its way to one that checks
\* arguments, or, as the master only, on its way to the master action.
BeforeCheck == {<<"app", "check">>, <<"lock", "check">>, <<"past", "master">>,
                <<"copied", "master">>, <<"lock", "exitState">>, <<"past", "exitState">>}
BeforeMaster == {<<"past", "check">>, <<"lock", "master">>}
Tolerated == {<<i, p[1], p[2]>> : i \in Slots, p \in BeforeCheck}
               \cup {<<Master, p[1], p[2]>> : p \in BeforeMaster}
\* ... anywhere outside the barriers and with the lock inside them,
AwakeInPLR == Slots \X {"app", "lock", "past", "copied", "top", "dog"} \X Phases
\* ... a slave, between the check of a call and its master action,
SlaveBeforeMaster == {<<2, p[1], p[2]>> : p \in BeforeMaster}
\* ... a process that waits in a barrier,
Waiting == Slots \X {"wait"} \X Phases
\* ... or nowhere.
Nowhere == {}
=============================================================================
