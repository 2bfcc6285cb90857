---------------------------- MODULE MCFaultInject ----------------------------
(***************************************************************************)
(* Runs of plr for TLC: the second of two in one process group begins at   *)
(* any time during or after the first.                                     *)
(***************************************************************************)
EXTENDS FaultInject

CONSTANTS f1, f2

Plr(n, mode, timeout) == [nProc |-> n, pintoolMode |-> mode, watchdogTimeout |-> timeout]
Once(run) == [f \in {f1} |-> run]
Twice(first, second) == [f \in {f1, f2} |-> IF f = f1 THEN first ELSE second]

Scenario(opts, created) ==
  [opts |-> opts, failing |-> {}, kills |-> 0, crashes |-> 0, extra |-> TRUE,
   created |-> created]

\* A group of three, and one process that dies or goes wrong anywhere.
OneFault == [Scenario(Twice(Plr(3, "off", 3), Plr(1, "off", 1)), 5) EXCEPT !.crashes = 1, !.extra = FALSE]
\* The launch may fail in every way.
FailingLaunch ==
  [Scenario(Twice(Plr(2, "off", 0), Plr(1, "off", 5)), 4) EXCEPT
     !.failing = {"pipe", "fork", "exec"}, !.crashes = 1]
\* A figurehead is killed.
Orphans == [Scenario(Twice(Plr(2, "off", 3), Plr(2, "off", 3)), 4) EXCEPT !.kills = 1]
\* The tool, in each of its modes.
Tracing == [Scenario(Once(Plr(2, "trace", 3)), 4) EXCEPT !.extra = FALSE]
Flipping == [Scenario(Once(Plr(2, "ins", 3)), 4) EXCEPT !.extra = FALSE]

Usual == {OneFault, FailingLaunch, Orphans, Tracing, Flipping}

\* A clock with two milliseconds of two units to the second.
Clock == {[tv_sec |-> 5, tv_nsec |-> 3]}
=============================================================================
