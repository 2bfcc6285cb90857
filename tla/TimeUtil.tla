------------------------------- MODULE TimeUtil -------------------------------
(***************************************************************************)
(* Arithmetic on struct timespec (plrCommon/timeUtil.c), which the barrier *)
(* computes the deadline of its timed wait with. Integers are C's: division *)
(* rounds towards zero and the remainder has the sign of the dividend.     *)
(***************************************************************************)
EXTENDS Integers

CONSTANTS
  NsPerMs,     \* 1000000
  MsPerSec     \* 1000

ASSUME UnitsAssumption == NsPerMs \in Nat \ {0} /\ MsPerSec \in Nat \ {0}

NsPerSec == NsPerMs * MsPerSec

Timespec == [tv_sec : Int, tv_nsec : Int]

\* a / b and a % b of C, for b > 0.
Quot(a, b) == IF a >= 0 THEN a \div b ELSE -((-a) \div b)
Rem(a, b) == IF a >= 0 THEN a % b ELSE -((-a) % b)

\* Mutant: the seconds in tv_nsec stay there.
Uncarried(sec, nsec) == [tv_sec |-> sec, tv_nsec |-> nsec]

\* Whole seconds in nsec moved to sec.
Carried(sec, nsec) ==
  [tv_sec |-> sec + Quot(nsec, NsPerSec), tv_nsec |-> Rem(nsec, NsPerSec)]

tspecNew(sec, nsec) ==
  Carried(IF sec < 0 THEN 0 ELSE sec, IF nsec < 0 THEN 0 ELSE nsec)

tspecNewMs(msec) ==
  [tv_sec |-> Quot(msec, MsPerSec), tv_nsec |-> Rem(msec, MsPerSec) * NsPerMs]

tspecAdd(t, u) == Carried(t.tv_sec + u.tv_sec, t.tv_nsec + u.tv_nsec)

tspecAddMs(t, msec) == tspecAdd(t, [tv_sec |-> 0, tv_nsec |-> msec * NsPerMs])

tspecSub(t, u) == Carried(t.tv_sec - u.tv_sec, t.tv_nsec - u.tv_nsec)

-----------------------------------------------------------------------------
\* The time t stands for, in nanoseconds.
Nanos(t) == t.tv_sec * NsPerSec + t.tv_nsec

\* What the kernel takes and gives: anything else is EINVAL.
Normal(t) == t \in Timespec /\ t.tv_nsec \in 0 .. NsPerSec - 1
=============================================================================
