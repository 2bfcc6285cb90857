---------------------------- MODULE PlrGroupProofs ----------------------------
(***************************************************************************)
(* Theorems about the life of a run, under the fault injection tool or     *)
(* not: they hold for any number of runs in the process group, any options *)
(* of theirs, and any faults. First those about the arithmetic of times,   *)
(* last the one about whom the tool hits.                                  *)
(***************************************************************************)
EXTENDS FaultInject, FiniteSetTheorems, LeastNatural, TLAPS

-----------------------------------------------------------------------------
(* The arithmetic of timeUtil.c is exact, and what the barrier passes to   *)
(* pthread_cond_timedwait is a time the kernel takes.                      *)

\* C's quotient and remainder determine the dividend, and the remainder is
\* smaller than the divisor.
LEMMA QuotRem ==
  ASSUME NEW a \in Int, NEW b \in Nat \ {0}
  PROVE  /\ Quot(a, b) \in Int /\ Rem(a, b) \in Int
         /\ Quot(a, b) * b + Rem(a, b) = a
         /\ a >= 0 => Rem(a, b) \in 0 .. b - 1 /\ Quot(a, b) >= 0
<1>1. \A n \in Nat : /\ n \div b \in Nat /\ (n % b) \in 0 .. b - 1
                     /\ (n \div b) * b + (n % b) = n
  <2> TAKE n \in Nat
  <2>1. (n \div b) \in Int /\ (n % b) \in Int
    OBVIOUS
  <2>2. (n % b) \in 0 .. b - 1
    OBVIOUS
  <2>3. n = b * (n \div b) + (n % b)
    OBVIOUS
  <2>4. (n \div b) >= 0
    OBVIOUS
  <2>5. (n \div b) * b = b * (n \div b)
    BY <2>1
  <2> QED BY <2>1, <2>2, <2>3, <2>4, <2>5
<1>2. CASE a >= 0
  <2>1. a \in Nat /\ Quot(a, b) = a \div b /\ Rem(a, b) = (a % b)
    BY <1>2 DEF Quot, Rem
  <2> QED BY <1>1, <2>1, <1>2
<1>3. CASE a < 0
  <2>1. PICK n \in Nat : n = -a
    BY <1>3
  <2>2. Quot(a, b) = -(n \div b) /\ Rem(a, b) = -(n % b)
    BY <1>3, <2>1 DEF Quot, Rem
  <2>3. (-(n \div b)) * b + (-(n % b)) = -((n \div b) * b + (n % b))
    BY <1>1
  <2> QED BY <1>1, <1>3, <2>1, <2>2, <2>3
<1> QED BY <1>2, <1>3

LEMMA NsPerSecPositive == NsPerSec \in Nat \ {0}
BY UnitsAssumption DEF NsPerSec

\* Carrying whole seconds moves nothing in time, and brings any tv_nsec that is
\* not negative into its range.
LEMMA CarriedExact ==
  ASSUME NEW sec \in Int, NEW nsec \in Int
  PROVE  /\ Carried(sec, nsec) \in Timespec
         /\ Nanos(Carried(sec, nsec)) = sec * NsPerSec + nsec
         /\ nsec >= 0 => Normal(Carried(sec, nsec))
<1> DEFINE q == Quot(nsec, NsPerSec)
           r == Rem(nsec, NsPerSec)
<1>1. /\ q \in Int /\ r \in Int /\ q * NsPerSec + r = nsec
      /\ nsec >= 0 => r \in 0 .. NsPerSec - 1
  BY QuotRem, NsPerSecPositive
<1>2. Carried(sec, nsec) = [tv_sec |-> sec + q, tv_nsec |-> r]
  BY DEF Carried
<1> HIDE DEF q, r
<1>3. (sec + q) * NsPerSec + r = sec * NsPerSec + nsec
  <2>1. (sec + q) * NsPerSec = sec * NsPerSec + q * NsPerSec
    BY <1>1, NsPerSecPositive, SMT
  <2>2. sec * NsPerSec \in Int /\ q * NsPerSec \in Int
    BY <1>1, NsPerSecPositive
  <2> QED BY <1>1, <2>1, <2>2
<1> QED BY <1>1, <1>2, <1>3 DEF Nanos, Normal, Timespec

\* The sum of two times is exact.
THEOREM AddExact ==
  ASSUME NEW t \in Timespec, NEW u \in Timespec
  PROVE  tspecAdd(t, u) \in Timespec /\ Nanos(tspecAdd(t, u)) = Nanos(t) + Nanos(u)
<1>1. /\ t.tv_sec \in Int /\ t.tv_nsec \in Int
      /\ u.tv_sec \in Int /\ u.tv_nsec \in Int
  BY DEF Timespec
<1>2. (t.tv_sec + u.tv_sec) * NsPerSec = t.tv_sec * NsPerSec + u.tv_sec * NsPerSec
  BY <1>1, NsPerSecPositive, SMT
<1>3. t.tv_sec * NsPerSec \in Int /\ u.tv_sec * NsPerSec \in Int
  BY <1>1, NsPerSecPositive
<1>4. /\ tspecAdd(t, u) \in Timespec
      /\ Nanos(tspecAdd(t, u))
           = (t.tv_sec + u.tv_sec) * NsPerSec + (t.tv_nsec + u.tv_nsec)
  BY <1>1, CarriedExact DEF tspecAdd
<1> QED BY <1>1, <1>2, <1>3, <1>4 DEF Nanos

\* The difference of two times is exact.
THEOREM SubExact ==
  ASSUME NEW t \in Timespec, NEW u \in Timespec
  PROVE  tspecSub(t, u) \in Timespec /\ Nanos(tspecSub(t, u)) = Nanos(t) - Nanos(u)
<1>1. /\ t.tv_sec \in Int /\ t.tv_nsec \in Int
      /\ u.tv_sec \in Int /\ u.tv_nsec \in Int
  BY DEF Timespec
<1>2. (t.tv_sec - u.tv_sec) * NsPerSec = t.tv_sec * NsPerSec - u.tv_sec * NsPerSec
  BY <1>1, NsPerSecPositive, SMT
<1>3. t.tv_sec * NsPerSec \in Int /\ u.tv_sec * NsPerSec \in Int
  BY <1>1, NsPerSecPositive
<1>4. /\ tspecSub(t, u) \in Timespec
      /\ Nanos(tspecSub(t, u))
           = (t.tv_sec - u.tv_sec) * NsPerSec + (t.tv_nsec - u.tv_nsec)
  BY <1>1, CarriedExact DEF tspecSub
<1> QED BY <1>1, <1>2, <1>3, <1>4 DEF Nanos

\* The deadline of the barrier's timed wait: from a time the clock returns and a
\* timeout that is not negative, a time the kernel takes, and exactly the
\* timeout later.
THEOREM DeadlineExact ==
  ASSUME NEW now, Normal(now), NEW msec \in Nat
  PROVE  /\ Normal(tspecAddMs(now, msec))
         /\ Nanos(tspecAddMs(now, msec)) = Nanos(now) + msec * NsPerMs
<1> DEFINE add == [tv_sec |-> 0, tv_nsec |-> msec * NsPerMs]
<1>1. msec * NsPerMs \in Nat
  BY UnitsAssumption
<1>2. /\ now \in Timespec /\ now.tv_sec \in Int /\ now.tv_nsec \in Nat
      /\ add \in Timespec
  BY <1>1, NsPerSecPositive DEF Normal, Timespec
<1>3. Nanos(add) = msec * NsPerMs
  BY <1>1, NsPerSecPositive DEF Nanos
<1>4. tspecAddMs(now, msec) = tspecAdd(now, add)
  BY DEF tspecAddMs
<1>5. Nanos(tspecAddMs(now, msec)) = Nanos(now) + msec * NsPerMs
  BY <1>2, <1>3, <1>4, AddExact
<1>6. tspecAdd(now, add) = Carried(now.tv_sec + 0, now.tv_nsec + msec * NsPerMs)
  BY DEF tspecAdd
<1>7. Normal(Carried(now.tv_sec + 0, now.tv_nsec + msec * NsPerMs))
  BY <1>1, <1>2, CarriedExact
<1> QED BY <1>4, <1>5, <1>6, <1>7

\* Whatever it is given, tspecNew makes a time that is not negative and that the
\* kernel takes.
THEOREM NewNormal ==
  ASSUME NEW sec \in Int, NEW nsec \in Int
  PROVE  Normal(tspecNew(sec, nsec)) /\ tspecNew(sec, nsec).tv_sec >= 0
<1>1. PICK s \in Nat, n \in Nat : tspecNew(sec, nsec) = Carried(s, n)
  BY DEF tspecNew
<1>2. Quot(n, NsPerSec) \in Int /\ Quot(n, NsPerSec) >= 0
  BY QuotRem, NsPerSecPositive
<1> QED BY <1>1, <1>2, CarriedExact DEF Carried

\* tspecNewMs is the time of that many milliseconds.
THEOREM NewMsExact ==
  ASSUME NEW msec \in Int
  PROVE  Nanos(tspecNewMs(msec)) = msec * NsPerMs
<1> DEFINE q == Quot(msec, MsPerSec)
           r == Rem(msec, MsPerSec)
<1>1. q \in Int /\ r \in Int /\ q * MsPerSec + r = msec
  BY QuotRem, UnitsAssumption
<1>2. Nanos(tspecNewMs(msec)) = q * NsPerSec + r * NsPerMs
  BY DEF Nanos, tspecNewMs
<1> HIDE DEF q, r
<1>3. q * (NsPerMs * MsPerSec) + r * NsPerMs = (q * MsPerSec + r) * NsPerMs
  BY <1>1, UnitsAssumption, SMT
<1> QED BY <1>1, <1>2, <1>3 DEF NsPerSec

-----------------------------------------------------------------------------
(* The life of a run.                                                      *)

USE NamesAssumption, MaxPidAssumption

-----------------------------------------------------------------------------
(* The invariant.                                                          *)

AllSlots == 0 .. MaxPid - 1

\* Pids are given out in order.
PidsInOrder ==
  \A p, q \in Pids : p < q /\ proc[q].pc # "none" => proc[p].pc # "none"

\* Whoever has made a file and not removed it is who the name leads to: one run.
OneName ==
  \A f \in Figureheads :
    fig[f] \in {"init", "gaveUp", "read", "wait", "exit", "killed"} => file = f

\* A process belongs to a run whose figurehead has launched it, and maps no other
\* run's memory. When the figurehead is past its wait, all that may be left is a
\* process that execvp failed in.
Belongs(p) ==
  /\ proc[p].fig \in Figureheads
  /\ fig[proc[p].fig] \in {"read", "wait", "exit", "over", "killed"}
  /\ fig[proc[p].fig] \in {"exit", "over"} => proc[p].pc = "noexec"
  /\ proc[p].maps \in {NoFile, proc[p].fig}
  /\ proc[p].pc \in {"first", "bornInit", "bornCopy", "pin", "app", "plr"}
       => proc[p].maps = proc[p].fig

\* A process that has ended is nobody's child, and has no slot.
Left(p) == proc[p].parent = Outside /\ proc[p].slot = NoSlot

Memberships ==
  \A p \in Pids :
    /\ proc[p].pc = "none" <=> proc[p].fig = NoFile
    /\ Alive(p) => Belongs(p)
    /\ ~Alive(p) => Left(p)

\* While the figurehead runs, the parent of a process is the figurehead or an older
\* process of the run that is alive: so there is a way up to the figurehead.
Parents ==
  \A p \in Pids :
    Alive(p) /\ fig[proc[p].fig] \in FigRunning /\ proc[p].parent # proc[p].fig =>
      /\ proc[p].parent \in Pids /\ proc[p].parent < p
      /\ Alive(proc[p].parent) /\ proc[proc[p].parent].fig = proc[p].fig

\* On its way to be the first process of a group.
Unplaced(p) == \/ proc[p].pc \in {"fork", "noexec", "first"}
               \/ proc[p].pc = "image" /\ proc[p].slot = NoSlot

\* Memory in which no group has been started.
Fresh(m) == ~shm[m].didProcessInit /\ \A s \in AllSlots : shm[m].procs[s].pid = 0

\* Until the first process has started the group it is the only one of the run.
Launches ==
  /\ \A f \in Figureheads :
       /\ fig[f] \in {"start", "init"} => Fresh(f)
       /\ fig[f] \in {"start", "refused", "init", "gaveUp"}
            => ~pipe[f] /\ \A p \in Pids : proc[p].fig # f
       /\ pipe[f] => \A p \in Pids : Alive(p) /\ proc[p].fig = f => proc[p].pc = "noexec"
  /\ \A p \in Pids :
       /\ Unplaced(p) => /\ Fresh(proc[p].fig)
                         /\ \A q \in Pids : proc[q].fig = proc[p].fig => q = p
       /\ proc[p].pc \in {"noexec", "failed"} => pipe[proc[p].fig]

\* The pid in a slot is that of a process of the run, which works for no other slot.
Memory ==
  \A m \in Figureheads, s \in AllSlots : \A p \in Pids :
    shm[m].procs[s].pid = p => /\ proc[p].fig = m
                               /\ Alive(p) => proc[p].slot = s

\* Who has a slot and who has not.
Owners ==
  \A p \in Pids :
    /\ Unplaced(p) => proc[p].slot = NoSlot
    /\ Alive(p) /\ ~Unplaced(p) => /\ proc[p].slot \in AllSlots /\ proc[p].slot \in Slots(proc[p].fig)
                                   /\ shm[proc[p].fig].didProcessInit

\* The memory of a run says what its command line said, and a process that Pin is
\* to load the program in is inside PLR.
Configured ==
  /\ \A f \in Figureheads : fig[f] \notin {"start", "refused"} =>
       /\ f \in DOMAIN env.opts
       /\ shm[f].nProc = env.opts[f].nProc
       /\ shm[f].watchdogTimeout = env.opts[f].watchdogTimeout
       /\ shm[f].insidePLRInitTrue <=> env.opts[f].pintoolMode # "off"
  /\ \A p \in Pids :
       proc[p].pc = "pin" => shm[proc[p].fig].procs[proc[p].slot].insidePLR

GroupInv ==
  /\ GroupTypeOK /\ PidsInOrder /\ OneName /\ Memberships /\ Parents /\ Launches
  /\ Memory /\ Owners /\ OneProcessPerSlot /\ Configured /\ DeadlineKept

-----------------------------------------------------------------------------
(* Facts about single states.                                              *)

\* The pids given out are the first ones.
LEMMA PidsCounted ==
  ASSUME PidsInOrder
  PROVE  /\ Used \in 0 .. MaxPid
         /\ \A p \in Pids : proc[p].pc # "none" <=> p <= Used
<1> DEFINE free == {p \in Pids : proc[p].pc = "none"}
           taken == {p \in Pids : proc[p].pc # "none"}
<1>1. PICK n \in 0 .. MaxPid : taken = 1 .. n
  <2>1. CASE free = {}
    <3>1. taken = 1 .. MaxPid
      BY <2>1 DEF Pids
    <3> QED BY <3>1
  <2>2. CASE free # {}
    <3>1. free \in SUBSET Nat
      BY DEF Pids
    <3>2. PICK m \in free : \A k \in free : m <= k
      BY <2>2, <3>1, LeastElement
    <3>3. m \in Pids /\ m \in Nat /\ m - 1 \in 0 .. MaxPid
      BY DEF Pids
    <3>4. \A p \in Pids : p \in taken <=> p < m
      BY <3>2, <3>3 DEF PidsInOrder, Pids
    <3>5. taken = 1 .. m - 1
      BY <3>3, <3>4 DEF Pids
    <3> QED BY <3>3, <3>5
  <2> QED BY <2>1, <2>2
<1>2. Used = n
  <2>1. Cardinality(1 .. n) = n
    <3>1. 1 \in Int /\ n \in Int /\ (1 > n => n = 0) /\ n - 1 + 1 = n
      OBVIOUS
    <3> QED BY <3>1, FS_Interval
  <2> QED BY <1>1, <2>1 DEF Used
<1> QED BY <1>1, <1>2 DEF Pids

\* Types of a process's record, and of the memory of its run.
LEMMA RecordTypes ==
  ASSUME GroupTypeOK, NEW p \in Pids
  PROVE  /\ proc[p] \in Processes
         /\ proc[p].pc \in PCs /\ proc[p].slot \in Int /\ proc[p].copy \in ProcData
         /\ proc[p].fig \in Figureheads \cup {NoFile}
         /\ proc[p].maps \in Figureheads \cup {NoFile}
         /\ proc[p].parent \in Figureheads \cup Pids \cup {Outside}
BY DEF GroupTypeOK, Processes

LEMMA FreeTypes ==
  /\ FreeProcData \in ProcData /\ FreeMemory \in [AllSlots -> ProcData]
  /\ NoWait \in Waits /\ NoProc \in Processes
<1>1. FreeProcData \in ProcData
  BY DEF FreeProcData, ProcData
<1>2. NoWait \in Waits
  BY DEF NoWait, Waits, Timespec
<1>3. "none" \in PCs /\ NoSlot \in Int
  BY DEF PCs, NoSlot
<1>4. FreeMemory \in [AllSlots -> ProcData]
  BY <1>1 DEF FreeMemory, AllSlots
<1> QED BY <1>1, <1>2, <1>3, <1>4 DEF NoProc, Processes

\* A process of the program finds its file under the name.
LEMMA FileFound == GroupInv => FileOutlivesGroup
<1> SUFFICES ASSUME GroupInv, NEW p \in Pids, Alive(p), proc[p].pc \notin {"fork", "noexec"}
             PROVE  file = proc[p].fig /\ proc[p].maps \in {NoFile, proc[p].fig}
  BY DEF FileOutlivesGroup
<1>1. Belongs(p)
  BY DEF GroupInv, Memberships
<1> QED BY <1>1 DEF Belongs, GroupInv, OneName

\* The slot that says it is a process's is the one the process works for.
LEMMA SlotFound ==
  ASSUME GroupInv, NEW p \in Pids, Alive(p), ~Unplaced(p),
         proc[p].pc \notin {"bornInit", "bornCopy"}
  PROVE  /\ proc[p].slot \in Slots(proc[p].fig) /\ proc[p].slot \in AllSlots
         /\ OwnSlots(proc[p].fig, p) = {proc[p].slot}
<1>1. /\ proc[p].slot \in AllSlots /\ proc[p].slot \in Slots(proc[p].fig)
      /\ proc[p].fig \in Figureheads
  BY DEF GroupInv, Owners, Memberships, Belongs
<1>2. proc[p].slot # NoSlot
  BY <1>1 DEF AllSlots, NoSlot
<1>3. shm[proc[p].fig].procs[proc[p].slot].pid = p
  BY <1>2 DEF GroupInv, OneProcessPerSlot
<1>4. Slots(proc[p].fig) \subseteq AllSlots
  BY <1>1 DEF GroupInv, GroupTypeOK, Shm, Slots, AllSlots
<1>5. \A s \in AllSlots : shm[proc[p].fig].procs[s].pid = p => s = proc[p].slot
  BY <1>1 DEF GroupInv, Memory
<1> QED BY <1>1, <1>3, <1>4, <1>5 DEF OwnSlots

-----------------------------------------------------------------------------
(* A step of one process that stays in its run, with its slot.             *)

\* Process p alone goes on, in no way that its run could tell.
GoesOn(p) ==
  /\ Alive(p) /\ proc[p].pc \notin {"noexec", "bornInit", "bornCopy"}
  /\ proc' \in [Pids -> Processes]
  /\ \A q \in Pids : q # p => proc'[q] = proc[q]
  /\ proc'[p].fig = proc[p].fig /\ proc'[p].parent = proc[p].parent
  /\ proc'[p].slot = proc[p].slot
  /\ Alive(p)' /\ proc'[p].pc \notin {"noexec", "bornInit", "bornCopy", "pin"}
  /\ Unplaced(p)' <=> Unplaced(p)
  /\ proc'[p].maps \in {NoFile, proc[p].fig}
  /\ proc'[p].pc \in {"first", "app", "plr"} => proc'[p].maps = proc[p].fig
  /\ proc'[p].wait \in {proc[p].wait, NoWait}
       \/ /\ Normal(proc'[p].wait.until)
          /\ Nanos(proc'[p].wait.until) - Nanos(proc'[p].wait.from)
               = env.opts[proc[p].fig].watchdogTimeout * NsPerMs

\* Of the memory, no more than p's own flags change.
OwnFlags(p) ==
  /\ shm' \in [Figureheads -> Shm]
  /\ \A m \in Figureheads :
       /\ shm'[m].nProc = shm[m].nProc
       /\ shm'[m].didProcessInit = shm[m].didProcessInit
       /\ shm'[m].insidePLRInitTrue = shm[m].insidePLRInitTrue
       /\ shm'[m].watchdogTimeout = shm[m].watchdogTimeout
       /\ \A s \in AllSlots :
            /\ shm'[m].procs[s].pid = shm[m].procs[s].pid
            /\ m # proc[p].fig \/ s # proc[p].slot
                 => shm'[m].procs[s].insidePLR = shm[m].procs[s].insidePLR

LEMMA GoesOnKeeps ==
  ASSUME GroupInv, NEW p \in Pids, GoesOn(p), OwnFlags(p),
         UNCHANGED <<file, fig, pipe>>, env'.opts = env.opts,
         \E runs \in SUBSET Figureheads : env' \in Environment(runs)
  PROVE  GroupInv'
<1>1. \A q \in Pids : /\ proc'[q].fig = proc[q].fig /\ proc'[q].parent = proc[q].parent
                      /\ proc'[q].slot = proc[q].slot
                      /\ Alive(q)' <=> Alive(q)
                      /\ Unplaced(q)' <=> Unplaced(q)
  BY DEF GoesOn, Alive, Unplaced
<1>2. Belongs(p) /\ proc[p].fig \in Figureheads
  BY DEF GroupInv, Memberships, GoesOn, Belongs
<1>3. \A q \in Pids : q # p => proc'[q] = proc[q]
  BY DEF GoesOn
<1>4. GroupTypeOK'
  BY DEF GroupInv, GroupTypeOK, GoesOn, OwnFlags
<1>5. PidsInOrder'
  BY <1>3 DEF GroupInv, PidsInOrder, GoesOn, Alive
<1>6. OneName'
  BY DEF GroupInv, OneName
<1>7. Memberships'
  <2> SUFFICES ASSUME NEW q \in Pids
               PROVE  /\ proc'[q].pc = "none" <=> proc'[q].fig = NoFile
                      /\ Alive(q)' => Belongs(q)'
                      /\ ~Alive(q)' => Left(q)'
    BY DEF Memberships
  <2>1. CASE q = p
    BY <1>1, <1>2, <2>1 DEF GroupInv, Memberships, GoesOn, Alive, Belongs
  <2>2. CASE q # p
    BY <1>3, <2>2 DEF GroupInv, Memberships, Alive, Belongs, Left
  <2> QED BY <2>1, <2>2
<1>8. Parents'
  BY <1>1, <1>2, RecordTypes DEF GroupInv, Parents
<1>9. Launches'
  <2>1. \A m \in Figureheads : Fresh(m)' <=> Fresh(m)
    BY DEF Fresh, OwnFlags
  <2>2. ~pipe[proc[p].fig]
    BY <1>2 DEF GroupInv, Launches, GoesOn
  <2>3. \A q \in Pids : proc'[q].pc \in {"noexec", "failed"} <=> proc[q].pc \in {"noexec", "failed"}
    BY <1>3 DEF GoesOn, Alive, Ended
  <2>4. ASSUME NEW f \in Figureheads
        PROVE  /\ fig[f] \in {"start", "init"} => Fresh(f)'
               /\ fig[f] \in {"start", "refused", "init", "gaveUp"}
                    => ~pipe[f] /\ \A q \in Pids : proc'[q].fig # f
               /\ pipe[f] => \A q \in Pids : Alive(q)' /\ proc'[q].fig = f => proc'[q].pc = "noexec"
    BY <1>1, <1>3, <2>1, <2>2 DEF GroupInv, Launches
  <2>5. ASSUME NEW q \in Pids, Unplaced(q)'
        PROVE  /\ Fresh(proc[q].fig)'
               /\ \A r \in Pids : proc'[r].fig = proc'[q].fig => r = q
    <3>1. Unplaced(q) /\ proc[q].fig \in Figureheads
      BY <1>1, <2>5 DEF GroupInv, Memberships, Belongs, Unplaced, Alive, Ended
    <3>2. Fresh(proc[q].fig) /\ \A r \in Pids : proc[r].fig = proc[q].fig => r = q
      BY <3>1 DEF GroupInv, Launches
    <3> QED BY <1>1, <2>1, <3>1, <3>2
  <2>6. ASSUME NEW q \in Pids, proc'[q].pc \in {"noexec", "failed"}
        PROVE  pipe[proc'[q].fig]
    BY <1>1, <2>3, <2>6 DEF GroupInv, Launches
  <2> QED BY <2>4, <2>5, <2>6 DEF Launches
<1>10. Memory'
  BY <1>1 DEF GroupInv, Memory, OwnFlags
<1>11. Owners'
  <2>1. \A m \in Figureheads : Slots(m)' = Slots(m)
    BY DEF Slots, OwnFlags
  <2> QED BY <1>1, <2>1 DEF GroupInv, Owners, OwnFlags, Memberships, Belongs
<1>12. OneProcessPerSlot'
  BY <1>1, <1>3, SMTT(30) DEF GroupInv, OneProcessPerSlot, OwnFlags, GoesOn, Memberships, Belongs, Owners, NoSlot
<1>13. Configured'
  <2>1. \A f \in Figureheads : fig[f] \notin {"start", "refused"} =>
          /\ f \in DOMAIN env'.opts
          /\ shm'[f].nProc = env'.opts[f].nProc
          /\ shm'[f].watchdogTimeout = env'.opts[f].watchdogTimeout
          /\ shm'[f].insidePLRInitTrue <=> env'.opts[f].pintoolMode # "off"
    BY DEF GroupInv, Configured, OwnFlags
  <2>2. ASSUME NEW q \in Pids, proc'[q].pc = "pin"
        PROVE  shm'[proc'[q].fig].procs[proc'[q].slot].insidePLR
    <3>1. q # p /\ proc'[q] = proc[q]
      BY <1>3, <2>2 DEF GoesOn
    <3>2. proc[q].pc = "pin" /\ Alive(q) /\ ~Unplaced(q)
      BY <2>2, <3>1 DEF Alive, Ended, Unplaced
    <3>3. proc[q].fig \in Figureheads /\ proc[q].slot \in AllSlots /\ proc[q].slot # NoSlot
      BY <3>2 DEF GroupInv, Memberships, Belongs, Owners, AllSlots, NoSlot
    <3>4. proc[q].fig # proc[p].fig \/ proc[q].slot # proc[p].slot
      BY <3>1, <3>2, <3>3 DEF GroupInv, OneProcessPerSlot, GoesOn
    <3>5. shm[proc[q].fig].procs[proc[q].slot].insidePLR
      BY <3>2 DEF GroupInv, Configured
    <3> QED BY <3>1, <3>3, <3>4, <3>5 DEF OwnFlags
  <2> QED BY <2>1, <2>2 DEF Configured
<1>14. DeadlineKept'
  BY <1>1, <1>3 DEF GroupInv, DeadlineKept, GoesOn
<1> QED BY <1>4, <1>5, <1>6, <1>7, <1>8, <1>9, <1>10, <1>11, <1>12, <1>13, <1>14 DEF GroupInv

-----------------------------------------------------------------------------
(* The end of a process.                                                   *)

Ends(p, how) ==
  /\ Alive(p) /\ how \in Ended
  /\ how = "failed" => pipe[proc[p].fig]
  /\ proc' = Without(proc, p, how)

\* What a process leaves behind: its children are the figurehead's, or nobody's.
LEMMA AfterEnd ==
  ASSUME GroupInv, NEW p \in Pids, Alive(p), NEW how \in Ended
  PROVE  /\ Without(proc, p, how) \in [Pids -> Processes]
         /\ Without(proc, p, how)[p] = [NoProc EXCEPT !.pc = how, !.fig = proc[p].fig]
         /\ \A q \in Pids : q # p =>
              Without(proc, p, how)[q] =
                IF proc[q].parent = p
                  THEN [proc[q] EXCEPT !.parent = Adopter(proc[q].fig)] ELSE proc[q]
         /\ \A q \in Pids : proc[q].parent = p => Alive(q)
<1>1. \A q \in Pids : proc[q] \in Processes
  BY DEF GroupInv, GroupTypeOK
<1>2. proc[p].fig \in Figureheads
  BY DEF GroupInv, Memberships, Belongs
<1>3. [NoProc EXCEPT !.pc = how, !.fig = proc[p].fig] \in Processes
  <2>1. how \in PCs
    BY DEF Ended, PCs
  <2>2. NoProc \in Processes
    BY FreeTypes
  <2> QED BY <1>2, <2>1, <2>2 DEF Processes
<1>4. ASSUME NEW q \in Pids, proc[q].parent = p
      PROVE  Alive(q) /\ [proc[q] EXCEPT !.parent = Adopter(proc[q].fig)] \in Processes
  <2>1. Alive(q)
    BY <1>4 DEF GroupInv, Memberships, Left
  <2>2. Adopter(proc[q].fig) \in Figureheads \cup {Outside}
    BY <2>1 DEF GroupInv, Memberships, Belongs, Adopter
  <2> QED BY <1>1, <2>1, <2>2 DEF Processes
<1>5. /\ Without(proc, p, how)[p] = [NoProc EXCEPT !.pc = how, !.fig = proc[p].fig]
      /\ \A q \in Pids : q # p =>
           Without(proc, p, how)[q] =
             IF proc[q].parent = p
               THEN [proc[q] EXCEPT !.parent = Adopter(proc[q].fig)] ELSE proc[q]
  BY DEF Without
<1>6. \A q \in Pids : Without(proc, p, how)[q] \in Processes
  BY <1>1, <1>3, <1>4, <1>5
<1>7. Without(proc, p, how) \in [Pids -> Processes]
  BY <1>6 DEF Without
<1> QED BY <1>4, <1>5, <1>7

LEMMA EndKeeps ==
  ASSUME GroupInv, NEW p \in Pids, NEW how, Ends(p, how),
         UNCHANGED <<file, fig, pipe, shm>>, env'.opts = env.opts,
         \E runs \in SUBSET Figureheads : env' \in Environment(runs)
  PROVE  GroupInv'
<1>1. /\ proc' \in [Pids -> Processes]
      /\ proc'[p].pc = how /\ proc'[p].fig = proc[p].fig /\ proc'[p].slot = NoSlot
      /\ proc'[p].parent = Outside /\ proc'[p].wait = NoWait
  <2>1. /\ proc' \in [Pids -> Processes]
        /\ proc'[p] = [NoProc EXCEPT !.pc = how, !.fig = proc[p].fig]
    BY AfterEnd DEF Ends
  <2> QED BY <2>1 DEF NoProc
<1>2. \A q \in Pids : q # p =>
        /\ proc'[q].pc = proc[q].pc /\ proc'[q].fig = proc[q].fig
        /\ proc'[q].maps = proc[q].maps /\ proc'[q].slot = proc[q].slot
        /\ proc'[q].wait = proc[q].wait
        /\ IF proc[q].parent = p THEN proc'[q].parent = Adopter(proc[q].fig) /\ Alive(q)
                                 ELSE proc'[q].parent = proc[q].parent
  <2> SUFFICES ASSUME NEW q \in Pids, q # p
               PROVE  /\ proc'[q].pc = proc[q].pc /\ proc'[q].fig = proc[q].fig
                      /\ proc'[q].maps = proc[q].maps /\ proc'[q].slot = proc[q].slot
                      /\ proc'[q].wait = proc[q].wait
                      /\ IF proc[q].parent = p
                           THEN proc'[q].parent = Adopter(proc[q].fig) /\ Alive(q)
                           ELSE proc'[q].parent = proc[q].parent
    OBVIOUS
  <2>1. proc[q] \in Processes
    BY DEF GroupInv, GroupTypeOK
  <2>2. /\ proc'[q] = IF proc[q].parent = p
                        THEN [proc[q] EXCEPT !.parent = Adopter(proc[q].fig)] ELSE proc[q]
        /\ proc[q].parent = p => Alive(q)
    <3>1. Alive(p) /\ how \in Ended /\ proc' = Without(proc, p, how)
      BY DEF Ends
    <3>2. /\ \A r \in Pids : r # p =>
               Without(proc, p, how)[r] =
                 IF proc[r].parent = p
                   THEN [proc[r] EXCEPT !.parent = Adopter(proc[r].fig)] ELSE proc[r]
          /\ \A r \in Pids : proc[r].parent = p => Alive(r)
      BY <3>1, AfterEnd, ZenonT(40)
    <3> QED BY <3>1, <3>2
  <2> QED BY <2>1, <2>2 DEF Processes
<1>3. ~Alive(p)' /\ ~Unplaced(p)' /\ Alive(p)
  BY <1>1 DEF Ends, Alive, Unplaced, Ended
<1>4. \A q \in Pids : q # p => (Alive(q)' <=> Alive(q)) /\ (Unplaced(q)' <=> Unplaced(q))
  BY <1>2 DEF Alive, Unplaced
<1>5. Belongs(p) /\ proc[p].fig \in Figureheads
  BY DEF GroupInv, Memberships, Ends, Belongs
<1>6. GroupTypeOK'
  BY <1>1 DEF GroupInv, GroupTypeOK
<1>7. PidsInOrder'
  <2>1. \A q \in Pids : proc'[q].pc = "none" <=> proc[q].pc = "none"
    BY <1>1, <1>2, <1>3 DEF Alive, Ended, Ends
  <2> QED BY <2>1 DEF GroupInv, PidsInOrder
<1>8. OneName'
  BY DEF GroupInv, OneName
<1>9. Memberships'
  <2> SUFFICES ASSUME NEW q \in Pids
               PROVE  /\ proc'[q].pc = "none" <=> proc'[q].fig = NoFile
                      /\ Alive(q)' => Belongs(q)'
                      /\ ~Alive(q)' => Left(q)'
    BY DEF Memberships
  <2>1. CASE q = p
    BY <1>1, <1>3, <1>5, <2>1 DEF Ends, Ended, Left
  <2>2. CASE q # p
    BY <1>2, <1>4, <2>2 DEF GroupInv, Memberships, Belongs, Left
  <2> QED BY <2>1, <2>2
<1>10. Parents'
  <2> SUFFICES ASSUME NEW q \in Pids, Alive(q)', fig[proc'[q].fig] \in FigRunning,
                      proc'[q].parent # proc'[q].fig
               PROVE  /\ proc'[q].parent \in Pids /\ proc'[q].parent < q
                      /\ Alive(proc[q].parent)' /\ proc'[proc'[q].parent].fig = proc'[q].fig
                      /\ proc'[q].parent = proc[q].parent
    BY DEF Parents
  <2>1. q # p /\ Alive(q) /\ proc'[q].fig = proc[q].fig
    BY <1>2, <1>3, <1>4
  <2>2. proc[q].parent # p /\ proc'[q].parent = proc[q].parent
    BY <1>2, <2>1 DEF Adopter
  <2>3. /\ proc[q].parent \in Pids /\ proc[q].parent < q
        /\ Alive(proc[q].parent) /\ proc[proc[q].parent].fig = proc[q].fig
    BY <2>1, <2>2 DEF GroupInv, Parents
  <2> QED BY <1>2, <1>4, <2>1, <2>2, <2>3
<1>11. Launches'
  <2>1. \A m \in Figureheads : Fresh(m)' <=> Fresh(m)
    BY DEF Fresh
  <2>2. ASSUME NEW f \in Figureheads
        PROVE  /\ fig[f] \in {"start", "init"} => Fresh(f)'
               /\ fig[f] \in {"start", "refused", "init", "gaveUp"}
                    => ~pipe[f] /\ \A q \in Pids : proc'[q].fig # f
               /\ pipe[f] => \A q \in Pids : Alive(q)' /\ proc'[q].fig = f => proc'[q].pc = "noexec"
    BY <1>1, <1>2, <1>3, <1>4, <2>1 DEF GroupInv, Launches
  <2>3. ASSUME NEW q \in Pids, Unplaced(q)'
        PROVE  /\ Fresh(proc[q].fig)' /\ proc'[q].fig = proc[q].fig
               /\ \A r \in Pids : proc'[r].fig = proc'[q].fig => r = q
    <3>1. q # p /\ Unplaced(q) /\ proc[q].fig \in Figureheads
      BY <1>3, <1>4, <2>3 DEF GroupInv, Memberships, Belongs, Unplaced, Alive, Ended
    <3>2. Fresh(proc[q].fig) /\ \A r \in Pids : proc[r].fig = proc[q].fig => r = q
      BY <3>1 DEF GroupInv, Launches
    <3> QED BY <1>1, <1>2, <2>1, <3>1, <3>2
  <2>4. ASSUME NEW q \in Pids, proc'[q].pc \in {"noexec", "failed"}
        PROVE  pipe[proc'[q].fig]
    BY <1>1, <1>2, <2>4 DEF GroupInv, Launches, Ends, Ended
  <2> QED BY <2>2, <2>3, <2>4 DEF Launches
<1>12. Memory'
  BY <1>1, <1>2, <1>3, <1>4 DEF GroupInv, Memory
<1>13. Owners'
  <2>1. \A m : Slots(m)' = Slots(m)
    BY DEF Slots
  <2> QED BY <1>2, <1>3, <1>4, <2>1, <1>1 DEF GroupInv, Owners
<1>14. OneProcessPerSlot'
  BY <1>2, <1>3, <1>4 DEF GroupInv, OneProcessPerSlot
<1>15. Configured'
  BY <1>1, <1>2, <1>3 DEF GroupInv, Configured, Alive, Ended, Ends
<1>16. DeadlineKept'
  BY <1>1, <1>2 DEF GroupInv, DeadlineKept
<1> QED
  BY <1>6, <1>7, <1>8, <1>9, <1>10, <1>11, <1>12, <1>13, <1>14, <1>15, <1>16 DEF GroupInv

-----------------------------------------------------------------------------
(* The figurehead's steps.                                                 *)

\* A step of figurehead f that nobody else can tell.
Moves(f, to) ==
  /\ fig' = [fig EXCEPT ![f] = to]
  /\ \/ to = "refused" /\ fig[f] = "start"
     \/ to = "gaveUp" /\ fig[f] = "init"
     \/ to = "wait" /\ fig[f] = "read"
     \/ /\ to = "exit" /\ fig[f] \in {"init", "read", "wait"}
        /\ \A p \in Pids : Alive(p) /\ proc[p].fig = f => proc[p].pc = "noexec"
  /\ UNCHANGED <<env, file, pipe, shm, proc>>

LEMMA MoveKeeps ==
  ASSUME GroupInv, NEW f \in Figureheads, NEW to, Moves(f, to)
  PROVE  GroupInv'
<1>1. /\ \A g \in Figureheads : fig'[g] = IF g = f THEN to ELSE fig[g]
      /\ fig' \in [Figureheads -> FigPCs]
  BY DEF GroupInv, GroupTypeOK, Moves, FigPCs
<1>2. \A p \in Pids : (Alive(p)' <=> Alive(p)) /\ (Unplaced(p)' <=> Unplaced(p))
  BY DEF Moves, Alive, Unplaced
<1>3. to \in {"refused", "gaveUp"} => \A p \in Pids : proc[p].fig # f
  BY DEF GroupInv, Launches, Moves
<1>4. GroupTypeOK'
  BY <1>1 DEF GroupInv, GroupTypeOK, Moves
<1>5. PidsInOrder'
  BY DEF GroupInv, PidsInOrder, Moves
<1>6. OneName'
  BY <1>1 DEF GroupInv, OneName, Moves
<1>7. Memberships'
  <2>1. ASSUME NEW p \in Pids, Alive(p)
        PROVE  Belongs(p)'
    <3>1. Belongs(p)
      BY <2>1 DEF GroupInv, Memberships
    <3> QED BY <1>1, <1>3, <2>1, <3>1 DEF Moves, Belongs
  <2>2. \A p \in Pids : Left(p)' <=> Left(p)
    BY DEF Left, Moves
  <2> QED BY <1>2, <2>1, <2>2 DEF GroupInv, Memberships, Moves
<1>8. Parents'
  BY <1>1, <1>2 DEF GroupInv, Parents, Moves, FigRunning, Memberships, Belongs
<1>9. Launches'
  <2>1. \A m \in Figureheads : Fresh(m)' <=> Fresh(m)
    BY DEF Fresh, Moves
  <2>2. ASSUME NEW g \in Figureheads
        PROVE  /\ fig'[g] \in {"start", "init"} => Fresh(g)'
               /\ fig'[g] \in {"start", "refused", "init", "gaveUp"}
                    => ~pipe[g] /\ \A q \in Pids : proc[q].fig # g
               /\ pipe[g] => \A q \in Pids : Alive(q)' /\ proc[q].fig = g => proc[q].pc = "noexec"
    BY <1>1, <1>2, <2>1 DEF GroupInv, Launches, Moves
  <2>3. ASSUME NEW q \in Pids, Unplaced(q)
        PROVE  /\ Fresh(proc[q].fig)'
               /\ \A r \in Pids : proc[r].fig = proc[q].fig => r = q
    <3>1. proc[q].fig \in Figureheads
      BY <2>3 DEF GroupInv, Memberships, Belongs, Unplaced, Alive, Ended
    <3>2. Fresh(proc[q].fig) /\ \A r \in Pids : proc[r].fig = proc[q].fig => r = q
      BY <2>3 DEF GroupInv, Launches
    <3> QED BY <2>1, <3>1, <3>2 DEF Moves
  <2> QED BY <1>2, <2>2, <2>3 DEF GroupInv, Launches, Moves
<1>10. Memory'
  BY <1>2 DEF GroupInv, Memory, Moves
<1>11. Owners'
  BY <1>2 DEF GroupInv, Owners, Moves, Slots
<1>12. OneProcessPerSlot'
  BY <1>2 DEF GroupInv, OneProcessPerSlot, Moves
<1>13. Configured'
  BY <1>1 DEF GroupInv, Configured, Moves
<1>14. DeadlineKept'
  BY DEF GroupInv, DeadlineKept, Moves
<1> QED
  BY <1>4, <1>5, <1>6, <1>7, <1>8, <1>9, <1>10, <1>11, <1>12, <1>13, <1>14 DEF GroupInv

\* The figurehead ends, by itself or not.
Leave(f, to) ==
  /\ fig' = [fig EXCEPT ![f] = to] /\ proc' = Orphaned(f)
  /\ \/ to = "over" /\ fig[f] = "exit" /\ file' = NoFile
     \/ to = "killed" /\ fig[f] \in FigRunning /\ file' = file
  /\ UNCHANGED <<pipe, shm>>

LEMMA LeaveKeeps ==
  ASSUME GroupInv, NEW f \in Figureheads, NEW to, Leave(f, to), env'.opts = env.opts,
         \E runs \in SUBSET Figureheads : env' \in Environment(runs)
  PROVE  GroupInv'
<1>1. /\ \A g \in Figureheads : fig'[g] = IF g = f THEN to ELSE fig[g]
      /\ fig' \in [Figureheads -> FigPCs] /\ file' \in Figureheads \cup {NoFile}
  BY DEF GroupInv, GroupTypeOK, Leave, FigPCs
<1>2. \A p \in Pids :
        /\ proc'[p] \in Processes
        /\ proc'[p].pc = proc[p].pc /\ proc'[p].fig = proc[p].fig
        /\ proc'[p].maps = proc[p].maps /\ proc'[p].slot = proc[p].slot
        /\ proc'[p].wait = proc[p].wait
        /\ proc'[p].parent = IF proc[p].parent = f THEN Outside ELSE proc[p].parent
  <2> SUFFICES ASSUME NEW p \in Pids
               PROVE  /\ proc'[p] \in Processes
                      /\ proc'[p].pc = proc[p].pc /\ proc'[p].fig = proc[p].fig
                      /\ proc'[p].maps = proc[p].maps /\ proc'[p].slot = proc[p].slot
                      /\ proc'[p].wait = proc[p].wait
                      /\ proc'[p].parent = IF proc[p].parent = f THEN Outside ELSE proc[p].parent
    OBVIOUS
  <2>1. proc[p] \in Processes
    BY DEF GroupInv, GroupTypeOK
  <2>2. proc'[p] = IF proc[p].parent = f THEN [proc[p] EXCEPT !.parent = Outside] ELSE proc[p]
    BY DEF Leave, Orphaned
  <2> QED BY <2>1, <2>2 DEF Processes
<1>3. \A p \in Pids : (Alive(p)' <=> Alive(p)) /\ (Unplaced(p)' <=> Unplaced(p))
  BY <1>2 DEF Alive, Unplaced
<1>4. GroupTypeOK'
  <2>1. proc' \in [Pids -> Processes]
    BY <1>2 DEF Leave, Orphaned
  <2> QED BY <1>1, <2>1 DEF GroupInv, GroupTypeOK, Leave
<1>5. PidsInOrder'
  BY <1>2 DEF GroupInv, PidsInOrder
<1>6. OneName'
  BY <1>1 DEF GroupInv, OneName, Leave, FigRunning
<1>7. Memberships'
  <2>1. ASSUME NEW p \in Pids, Alive(p)
        PROVE  Belongs(p)'
    <3>1. Belongs(p)
      BY <2>1 DEF GroupInv, Memberships
    <3> QED BY <1>1, <1>2, <2>1, <3>1 DEF Leave, Belongs
  <2>2. \A p \in Pids : Left(p) => Left(p)'
    BY <1>2 DEF Left
  <2> QED BY <1>2, <1>3, <2>1, <2>2 DEF GroupInv, Memberships
<1>8. Parents'
  <2> SUFFICES ASSUME NEW p \in Pids, Alive(p)', fig'[proc'[p].fig] \in FigRunning,
                      proc'[p].parent # proc'[p].fig
               PROVE  /\ proc'[p].parent = proc[p].parent
                      /\ proc[p].parent \in Pids /\ proc[p].parent < p
                      /\ Alive(proc[p].parent)' /\ proc'[proc[p].parent].fig = proc'[p].fig
    BY DEF Parents
  <2>1. Alive(p) /\ proc'[p].fig = proc[p].fig /\ proc[p].fig \in Figureheads
    BY <1>2, <1>3 DEF GroupInv, Memberships, Belongs
  <2>2. proc[p].fig # f /\ fig[proc[p].fig] \in FigRunning
    BY <1>1, <2>1 DEF Leave, FigRunning
  <2>3. proc[p].parent # proc[p].fig
    BY <1>2, <2>1, <2>2
  <2>4. /\ proc[p].parent \in Pids /\ proc[p].parent < p
        /\ Alive(proc[p].parent) /\ proc[proc[p].parent].fig = proc[p].fig
    BY <2>1, <2>2, <2>3 DEF GroupInv, Parents
  <2> QED BY <1>2, <1>3, <2>1, <2>4
<1>9. Launches'
  <2>1. \A m \in Figureheads : Fresh(m)' <=> Fresh(m)
    BY DEF Fresh, Leave
  <2>2. ASSUME NEW g \in Figureheads
        PROVE  /\ fig'[g] \in {"start", "init"} => Fresh(g)'
               /\ fig'[g] \in {"start", "refused", "init", "gaveUp"}
                    => ~pipe[g] /\ \A q \in Pids : proc'[q].fig # g
               /\ pipe[g] => \A q \in Pids : Alive(q)' /\ proc'[q].fig = g => proc'[q].pc = "noexec"
    BY <1>1, <1>2, <1>3, <2>1 DEF GroupInv, Launches, Leave
  <2>3. ASSUME NEW q \in Pids, Unplaced(q)
        PROVE  /\ Fresh(proc[q].fig)'
               /\ \A r \in Pids : proc'[r].fig = proc'[q].fig => r = q
    <3>1. proc[q].fig \in Figureheads
      BY <2>3 DEF GroupInv, Memberships, Belongs, Unplaced, Alive, Ended
    <3> QED BY <1>2, <2>1, <2>3, <3>1 DEF GroupInv, Launches
  <2>4. ASSUME NEW q \in Pids, proc[q].pc \in {"noexec", "failed"}
        PROVE  pipe[proc[q].fig]
    BY <2>4 DEF GroupInv, Launches
  <2> QED BY <1>2, <1>3, <2>2, <2>3, <2>4 DEF Launches, Leave
<1>10. Memory'
  BY <1>2, <1>3 DEF GroupInv, Memory, Leave
<1>11. Owners'
  BY <1>2, <1>3 DEF GroupInv, Owners, Leave, Slots
<1>12. OneProcessPerSlot'
  BY <1>2, <1>3 DEF GroupInv, OneProcessPerSlot, Leave
<1>13. Configured'
  <2>1. \A g \in Figureheads : fig'[g] \notin {"start", "refused"} => fig[g] \notin {"start", "refused"}
    BY <1>1 DEF Leave, FigRunning
  <2> QED BY <1>2, <2>1 DEF GroupInv, Configured, Leave
<1>14. DeadlineKept'
  BY <1>2 DEF GroupInv, DeadlineKept
<1> QED
  BY <1>4, <1>5, <1>6, <1>7, <1>8, <1>9, <1>10, <1>11, <1>12, <1>13, <1>14 DEF GroupInv

\* The options of a run are options.
LEMMA OptionTypes ==
  ASSUME GroupTypeOK, NEW f \in DOMAIN env.opts
  PROVE  /\ env.opts[f].nProc \in Pids /\ env.opts[f].watchdogTimeout \in Nat
         /\ env.opts[f].pintoolMode \in {"off", "trace", "ins"}
BY DEF GroupTypeOK, Environment, Options

\* A figurehead that finds no file makes its own.
LEMMA CreateKeeps ==
  ASSUME GroupInv, NEW f \in Figureheads, plr_figureheadInit(f), file = NoFile
  PROVE  GroupInv'
<1> DEFINE new == [nProc |-> env.opts[f].nProc, didProcessInit |-> FALSE,
                   insidePLRInitTrue |-> env.opts[f].pintoolMode # "off",
                   watchdogTimeout |-> env.opts[f].watchdogTimeout,
                   procs |-> FreeMemory]
<1>1. /\ fig[f] = "start" /\ f \in DOMAIN env.opts /\ file' = f
      /\ shm' = [shm EXCEPT ![f] = new] /\ fig' = [fig EXCEPT ![f] = "init"]
      /\ UNCHANGED <<env, pipe, proc>>
  BY DEF plr_figureheadInit
<1>2. new \in Shm
  <2>1. FreeMemory \in [0 .. MaxPid - 1 -> ProcData]
    BY FreeTypes DEF AllSlots
  <2>2. env.opts[f].nProc \in Pids /\ env.opts[f].watchdogTimeout \in Nat
    BY <1>1, OptionTypes DEF GroupInv
  <2> QED BY <2>1, <2>2 DEF Shm, Pids
<1>3. /\ \A g \in Figureheads : fig'[g] = IF g = f THEN "init" ELSE fig[g]
      /\ fig' \in [Figureheads -> FigPCs]
      /\ shm' \in [Figureheads -> Shm] /\ shm'[f] = new
      /\ \A g \in Figureheads : g # f => shm'[g] = shm[g]
  BY <1>1, <1>2 DEF GroupInv, GroupTypeOK, FigPCs
<1>4. \A p \in Pids : /\ (Alive(p)' <=> Alive(p)) /\ (Unplaced(p)' <=> Unplaced(p))
                      /\ proc[p].fig # f
  BY <1>1 DEF Alive, Unplaced, GroupInv, Launches
<1>5. Fresh(f)'
  BY <1>3 DEF Fresh, FreeMemory, FreeProcData, AllSlots
<1>6. GroupTypeOK'
  BY <1>1, <1>3 DEF GroupInv, GroupTypeOK
<1>7. PidsInOrder'
  BY <1>1 DEF GroupInv, PidsInOrder
<1>8. OneName'
  BY <1>1, <1>3 DEF GroupInv, OneName
<1>9. Memberships'
  <2>1. ASSUME NEW p \in Pids, Alive(p)
        PROVE  Belongs(p)'
    BY <1>1, <1>3, <1>4, <2>1 DEF GroupInv, Memberships, Belongs
  <2>2. \A p \in Pids : Left(p)' <=> Left(p)
    BY <1>1 DEF Left
  <2> QED BY <1>1, <1>4, <2>1, <2>2 DEF GroupInv, Memberships
<1>10. Parents'
  BY <1>1, <1>3, <1>4 DEF GroupInv, Parents, Memberships, Belongs
<1>11. Launches'
  <2>1. \A m \in Figureheads : Fresh(m) => Fresh(m)'
    BY <1>3, <1>5 DEF Fresh
  <2>2. ASSUME NEW g \in Figureheads
        PROVE  /\ fig'[g] \in {"start", "init"} => Fresh(g)'
               /\ fig'[g] \in {"start", "refused", "init", "gaveUp"}
                    => ~pipe[g] /\ \A q \in Pids : proc[q].fig # g
               /\ pipe[g] => \A q \in Pids : Alive(q)' /\ proc[q].fig = g => proc[q].pc = "noexec"
    BY <1>1, <1>3, <1>4, <2>1 DEF GroupInv, Launches
  <2>3. ASSUME NEW q \in Pids, Unplaced(q)
        PROVE  /\ Fresh(proc[q].fig)'
               /\ \A r \in Pids : proc[r].fig = proc[q].fig => r = q
    <3>1. proc[q].fig \in Figureheads
      BY <2>3 DEF GroupInv, Memberships, Belongs, Unplaced, Alive, Ended
    <3>2. Fresh(proc[q].fig) /\ \A r \in Pids : proc[r].fig = proc[q].fig => r = q
      BY <2>3 DEF GroupInv, Launches
    <3> QED BY <1>1, <2>1, <3>1, <3>2
  <2> QED BY <1>1, <1>4, <2>2, <2>3 DEF GroupInv, Launches
<1>12. Memory'
  <2> SUFFICES ASSUME NEW m \in Figureheads, NEW s \in AllSlots, NEW p \in Pids,
                      shm'[m].procs[s].pid = p
               PROVE  proc[p].fig = m /\ (Alive(p) => proc[p].slot = s)
    BY <1>1, <1>4 DEF Memory
  <2>1. m # f
    BY <1>3, <1>5 DEF Fresh, Pids
  <2> QED BY <1>3, <2>1 DEF GroupInv, Memory
<1>13. Owners'
  <2>1. \A m \in Figureheads : m # f => Slots(m)' = Slots(m)
    BY <1>3 DEF Slots
  <2> QED BY <1>1, <1>3, <1>4, <2>1 DEF GroupInv, Owners, Memberships, Belongs
<1>14. OneProcessPerSlot'
  BY <1>1, <1>3, <1>4 DEF GroupInv, OneProcessPerSlot, Memberships, Belongs
<1>15. Configured'
  <2>1. \A g \in Figureheads : fig'[g] \notin {"start", "refused"} =>
          /\ g \in DOMAIN env.opts
          /\ shm'[g].nProc = env.opts[g].nProc
          /\ shm'[g].watchdogTimeout = env.opts[g].watchdogTimeout
          /\ shm'[g].insidePLRInitTrue <=> env.opts[g].pintoolMode # "off"
    BY <1>1, <1>3 DEF GroupInv, Configured
  <2>2. \A p \in Pids : proc[p].pc = "pin" => shm'[proc[p].fig].procs[proc[p].slot].insidePLR
    BY <1>3, <1>4 DEF GroupInv, Configured, Memberships, Belongs, Alive, Ended
  <2> QED BY <1>1, <2>1, <2>2 DEF Configured
<1>16. DeadlineKept'
  BY <1>1 DEF GroupInv, DeadlineKept
<1> QED
  BY <1>6, <1>7, <1>8, <1>9, <1>10, <1>11, <1>12, <1>13, <1>14, <1>15, <1>16 DEF GroupInv

\* The pid of the next process is nobody's.
LEMMA NextPid ==
  ASSUME GroupInv, Room(1)
  PROVE  /\ Used + 1 \in Pids /\ proc[Used + 1] \in Processes
         /\ proc[Used + 1].pc = "none" /\ proc[Used + 1].fig = NoFile
         /\ \A p \in Pids : proc[p].pc # "none" => p < Used + 1
         /\ \A p \in Pids : p < Used + 1 => proc[p].pc # "none"
<1>1. /\ Used \in 0 .. MaxPid
      /\ \A p \in Pids : proc[p].pc # "none" <=> p <= Used
  BY PidsCounted DEF GroupInv
<1>2. Used + 1 \in Pids
  BY <1>1 DEF Room, Pids
<1>3. proc[Used + 1].pc = "none"
  BY <1>1, <1>2
<1> QED BY <1>1, <1>2, <1>3, RecordTypes DEF GroupInv, Memberships, Pids

\* The figurehead forks the first process.
LEMMA LaunchKeeps ==
  ASSUME GroupInv, NEW f \in Figureheads, fig[f] = "init", Room(1),
         proc' = [proc EXCEPT ![Used + 1] =
                    [NoProc EXCEPT !.pc = "fork", !.fig = f, !.parent = f]],
         fig' = [fig EXCEPT ![f] = "read"], UNCHANGED <<env, file, pipe, shm>>
  PROVE  GroupInv'
<1> DEFINE new == [NoProc EXCEPT !.pc = "fork", !.fig = f, !.parent = f]
<1>0. PICK n \in Pids : n = Used + 1
  BY NextPid
<1>1. /\ proc[n] \in Processes /\ proc[n].pc = "none" /\ proc[n].fig = NoFile
      /\ \A p \in Pids : proc[p].pc # "none" => p < n
      /\ \A p \in Pids : p < n => proc[p].pc # "none"
  BY <1>0, NextPid
<1>2. new \in Processes
  <2>1. NoProc \in Processes /\ "fork" \in PCs
    BY FreeTypes DEF PCs
  <2> QED BY <2>1 DEF Processes
<1>3. proc' = [proc EXCEPT ![n] = new]
  BY <1>0
<1>4. /\ new.pc = "fork" /\ new.fig = f /\ new.parent = f /\ new.maps = NoFile
      /\ new.slot = NoSlot /\ new.wait = NoWait
  BY DEF NoProc
<1> HIDE DEF new
<1>5. /\ proc' \in [Pids -> Processes] /\ proc'[n] = new
      /\ \A p \in Pids : p # n => proc'[p] = proc[p]
  <2>1. proc \in [Pids -> Processes]
    BY DEF GroupInv, GroupTypeOK
  <2> QED BY <1>2, <1>3, <2>1
<1>6. /\ \A g \in Figureheads : fig'[g] = IF g = f THEN "read" ELSE fig[g]
      /\ fig' \in [Figureheads -> FigPCs]
  BY DEF GroupInv, GroupTypeOK, FigPCs
<1>7. Alive(n)' /\ Unplaced(n)' /\ ~Alive(n) /\ ~Unplaced(n)
  BY <1>1, <1>4, <1>5 DEF Alive, Ended, Unplaced
<1>8. \A p \in Pids : p # n => (Alive(p)' <=> Alive(p)) /\ (Unplaced(p)' <=> Unplaced(p))
  BY <1>5 DEF Alive, Unplaced
<1>9. Fresh(f) /\ ~pipe[f] /\ \A p \in Pids : proc[p].fig # f
  BY DEF GroupInv, Launches
<1>10. GroupTypeOK'
  BY <1>5, <1>6 DEF GroupInv, GroupTypeOK
<1>11. PidsInOrder'
  BY <1>1, <1>5, <1>4 DEF GroupInv, PidsInOrder, Pids
<1>12. OneName'
  BY <1>6 DEF GroupInv, OneName
<1>13. Memberships'
  <2> SUFFICES ASSUME NEW q \in Pids
               PROVE  /\ proc'[q].pc = "none" <=> proc'[q].fig = NoFile
                      /\ Alive(q)' => Belongs(q)'
                      /\ ~Alive(q)' => Left(q)'
    BY DEF Memberships
  <2>1. CASE q = n
    <3>1. /\ proc'[q].pc = "fork" /\ proc'[q].fig = f /\ proc'[q].maps = NoFile
          /\ fig'[f] = "read" /\ f # NoFile
      BY <1>4, <1>5, <1>6, <2>1
    <3>2. Alive(q)' /\ Belongs(q)'
      BY <1>7, <2>1, <3>1 DEF Belongs
    <3> QED BY <3>1, <3>2
  <2>2. CASE q # n
    <3>1. proc'[q] = proc[q] /\ (Alive(q)' <=> Alive(q)) /\ (Left(q)' <=> Left(q))
      BY <1>5, <1>8, <2>2 DEF Left
    <3>2. /\ proc[q].pc = "none" <=> proc[q].fig = NoFile
          /\ Alive(q) => Belongs(q)
          /\ ~Alive(q) => Left(q)
      BY DEF GroupInv, Memberships
    <3>3. Belongs(q) => Belongs(q)'
      BY <1>6, <1>9, <3>1 DEF Belongs
    <3> QED BY <3>1, <3>2, <3>3
  <2> QED BY <2>1, <2>2
<1>14. Parents'
  <2> SUFFICES ASSUME NEW q \in Pids, Alive(q)', fig'[proc'[q].fig] \in FigRunning,
                      proc'[q].parent # proc'[q].fig
               PROVE  /\ proc'[q].parent \in Pids /\ proc'[q].parent < q
                      /\ Alive(proc[q].parent)' /\ proc'[proc'[q].parent].fig = proc'[q].fig
                      /\ proc'[q].parent = proc[q].parent
    BY DEF Parents
  <2>1. q # n /\ Alive(q) /\ proc'[q] = proc[q] /\ proc[q].fig \in Figureheads /\ proc[q].fig # f
    BY <1>4, <1>5, <1>8, <1>9 DEF GroupInv, Memberships, Belongs
  <2>2. /\ proc[q].parent \in Pids /\ proc[q].parent < q
        /\ Alive(proc[q].parent) /\ proc[proc[q].parent].fig = proc[q].fig
    BY <1>6, <2>1 DEF GroupInv, Parents
  <2> QED BY <1>5, <1>7, <1>8, <2>1, <2>2
<1>15. Launches'
  <2>1. \A m \in Figureheads : Fresh(m)' <=> Fresh(m)
    BY DEF Fresh
  <2>2. ASSUME NEW g \in Figureheads
        PROVE  /\ fig'[g] \in {"start", "init"} => Fresh(g)'
               /\ fig'[g] \in {"start", "refused", "init", "gaveUp"}
                    => ~pipe[g] /\ \A q \in Pids : proc'[q].fig # g
               /\ pipe[g] => \A q \in Pids : Alive(q)' /\ proc'[q].fig = g => proc'[q].pc = "noexec"
    BY <1>4, <1>5, <1>6, <1>8, <1>9, <2>1 DEF GroupInv, Launches
  <2>3. ASSUME NEW q \in Pids, Unplaced(q)', q # n
        PROVE  /\ Fresh(proc[q].fig)' /\ proc'[q] = proc[q]
               /\ \A r \in Pids : proc'[r].fig = proc'[q].fig => r = q
    <3>1. Unplaced(q) /\ proc[q].fig \in Figureheads
      BY <1>8, <2>3 DEF GroupInv, Memberships, Belongs, Unplaced, Alive, Ended
    <3>2. Fresh(proc[q].fig) /\ \A r \in Pids : proc[r].fig = proc[q].fig => r = q
      BY <3>1 DEF GroupInv, Launches
    <3> QED BY <1>4, <1>5, <1>9, <2>1, <2>3, <3>1, <3>2
  <2>4. /\ Fresh(proc[n].fig)'
        /\ \A r \in Pids : proc'[r].fig = proc'[n].fig => r = n
    BY <1>4, <1>5, <1>9, <2>1
  <2>5. ASSUME NEW q \in Pids, proc'[q].pc \in {"noexec", "failed"}
        PROVE  pipe[proc'[q].fig]
    BY <1>4, <1>5, <2>5 DEF GroupInv, Launches
  <2> QED BY <2>2, <2>3, <2>4, <2>5 DEF Launches
<1>16. Memory'
  BY <1>1, <1>4, <1>5, <1>8, <1>9 DEF GroupInv, Memory, Fresh
<1>17. Owners'
  <2>1. \A m : Slots(m)' = Slots(m)
    BY DEF Slots
  <2>2. proc'[n].slot = NoSlot
    BY <1>4, <1>5
  <2> QED BY <1>5, <1>7, <1>8, <2>1, <2>2 DEF GroupInv, Owners
<1>18. OneProcessPerSlot'
  <2>1. proc'[n].slot = NoSlot /\ proc'[n].fig = f
    BY <1>4, <1>5
  <2> SUFFICES ASSUME NEW p \in Pids, Alive(p)', proc'[p].slot # NoSlot
               PROVE  /\ shm[proc'[p].fig].procs[proc'[p].slot].pid
                           = IF proc'[p].pc \in {"bornInit", "bornCopy"} THEN 0 ELSE p
                      /\ \A q \in Pids : Alive(q)' /\ q # p /\ proc'[q].fig = proc'[p].fig
                                           => proc'[q].slot # proc'[p].slot
    BY DEF OneProcessPerSlot
  <2>2. p # n /\ Alive(p) /\ proc'[p] = proc[p] /\ proc[p].fig # f
    BY <1>5, <1>8, <1>9, <2>1
  <2>3. /\ shm[proc[p].fig].procs[proc[p].slot].pid
             = IF proc[p].pc \in {"bornInit", "bornCopy"} THEN 0 ELSE p
        /\ \A q \in Pids : Alive(q) /\ q # p /\ proc[q].fig = proc[p].fig
                              => proc[q].slot # proc[p].slot
    BY <2>2 DEF GroupInv, OneProcessPerSlot
  <2>4. \A q \in Pids : proc'[q].fig = proc[p].fig => q # n
    BY <2>1, <2>2
  <2> QED BY <1>5, <1>8, <2>2, <2>3, <2>4
<1>19. Configured'
  BY <1>4, <1>5, <1>6 DEF GroupInv, Configured
<1>20. DeadlineKept'
  BY <1>4, <1>5, ZenonT(40) DEF GroupInv, DeadlineKept
<1> QED BY <1>10, <1>11, <1>12, <1>13, <1>14, <1>15, <1>16, <1>17, <1>18, <1>19, <1>20 DEF GroupInv

-----------------------------------------------------------------------------
(* Processes come to be, and fail to.                                      *)

\* execvp fails: the process was the only one of its run.
LEMMA ExecFailsKeeps ==
  ASSUME GroupInv, NEW p \in Pids, ExecFails(p)
  PROVE  GroupInv'
<1> DEFINE f == proc[p].fig
<1>1. /\ proc[p].pc = "fork" /\ proc' = [proc EXCEPT ![p].pc = "noexec"]
      /\ pipe' = [pipe EXCEPT ![f] = TRUE] /\ UNCHANGED <<env, file, fig, shm>>
  BY DEF ExecFails
<1>2. Alive(p) /\ Unplaced(p)
  BY <1>1 DEF Alive, Ended, Unplaced
<1>3. f \in Figureheads /\ Belongs(p)
  BY <1>2 DEF GroupInv, Memberships, Belongs
<1>4. /\ Fresh(f) /\ \A q \in Pids : proc[q].fig = f => q = p
      /\ proc[p].slot = NoSlot
  BY <1>2 DEF GroupInv, Launches, Owners
<1>5. /\ proc' \in [Pids -> Processes] /\ proc'[p] = [proc[p] EXCEPT !.pc = "noexec"]
      /\ \A q \in Pids : q # p => proc'[q] = proc[q]
  BY <1>1, "noexec" \in PCs DEF GroupInv, GroupTypeOK, Processes, PCs
<1>6. /\ proc'[p].pc = "noexec" /\ proc'[p].fig = f /\ proc'[p].parent = proc[p].parent
      /\ proc'[p].maps = proc[p].maps /\ proc'[p].slot = NoSlot /\ proc'[p].wait = proc[p].wait
  BY <1>4, <1>5, RecordTypes DEF GroupInv, Processes
<1>7. /\ pipe' \in [Figureheads -> BOOLEAN]
      /\ pipe'[f] = TRUE /\ \A g \in Figureheads : g # f => pipe'[g] = pipe[g]
  BY <1>1, <1>3 DEF GroupInv, GroupTypeOK
<1>8. /\ Alive(p)' /\ Unplaced(p)'
      /\ \A q \in Pids : q # p => (Alive(q)' <=> Alive(q)) /\ (Unplaced(q)' <=> Unplaced(q))
  BY <1>5, <1>6 DEF Alive, Ended, Unplaced
<1> HIDE DEF f
<1>9. GroupTypeOK'
  BY <1>1, <1>5, <1>7 DEF GroupInv, GroupTypeOK
<1>10. PidsInOrder'
  BY <1>1, <1>5, <1>6 DEF GroupInv, PidsInOrder
<1>11. OneName'
  BY <1>1 DEF GroupInv, OneName
<1>12. Memberships'
  <2> SUFFICES ASSUME NEW q \in Pids
               PROVE  /\ proc'[q].pc = "none" <=> proc'[q].fig = NoFile
                      /\ Alive(q)' => Belongs(q)'
                      /\ ~Alive(q)' => Left(q)'
    BY DEF Memberships
  <2>1. CASE q = p
    BY <1>1, <1>3, <1>6, <1>8, <2>1 DEF Belongs, f
  <2>2. CASE q # p
    BY <1>1, <1>5, <1>8, <2>2 DEF GroupInv, Memberships, Belongs, Left
  <2> QED BY <2>1, <2>2
<1>13. Parents'
  <2>1. \A q \in Pids : /\ proc'[q].fig = proc[q].fig /\ proc'[q].parent = proc[q].parent
                        /\ Alive(q)' <=> Alive(q)
    BY <1>2, <1>5, <1>6, <1>8 DEF f
  <2> QED BY <1>1, <2>1 DEF GroupInv, Parents
<1>14. Launches'
  <2>1. \A m \in Figureheads : Fresh(m)' <=> Fresh(m)
    BY <1>1 DEF Fresh
  <2>2. \A q \in Pids : proc'[q].fig = proc[q].fig
    BY <1>5, <1>6 DEF f
  <2>3. ASSUME NEW g \in Figureheads
        PROVE  /\ fig[g] \in {"start", "init"} => Fresh(g)'
               /\ fig[g] \in {"start", "refused", "init", "gaveUp"}
                    => ~pipe'[g] /\ \A q \in Pids : proc'[q].fig # g
               /\ pipe'[g] => \A q \in Pids : Alive(q)' /\ proc'[q].fig = g => proc'[q].pc = "noexec"
    <3>1. CASE g = f
      BY <1>3, <1>4, <1>6, <2>2, <3>1 DEF f, Belongs
    <3>2. CASE g # f
      BY <1>4, <1>5, <1>6, <1>7, <1>8, <2>1, <2>2, <3>2 DEF GroupInv, Launches
    <3> QED BY <3>1, <3>2
  <2>4. ASSUME NEW q \in Pids, Unplaced(q)'
        PROVE  /\ Fresh(proc[q].fig)'
               /\ \A r \in Pids : proc'[r].fig = proc'[q].fig => r = q
    <3>1. Unplaced(q) /\ proc[q].fig \in Figureheads
      BY <1>2, <1>8, <2>4 DEF GroupInv, Memberships, Belongs, Unplaced, Alive, Ended
    <3>2. Fresh(proc[q].fig) /\ \A r \in Pids : proc[r].fig = proc[q].fig => r = q
      BY <3>1 DEF GroupInv, Launches
    <3> QED BY <2>1, <2>2, <3>1, <3>2
  <2>5. ASSUME NEW q \in Pids, proc'[q].pc \in {"noexec", "failed"}
        PROVE  pipe'[proc'[q].fig]
    <3>1. CASE q = p
      BY <1>6, <1>7, <3>1
    <3>2. CASE q # p
      <4>1. proc'[q] = proc[q] /\ proc[q].pc \in {"noexec", "failed"} /\ proc[q].fig # f
        BY <1>4, <1>5, <2>5, <3>2
      <4>2. proc[q].fig \in Figureheads
        BY <4>1, RecordTypes DEF GroupInv, Memberships
      <4>3. pipe[proc[q].fig]
        BY <4>1 DEF GroupInv, Launches
      <4> QED BY <1>7, <4>1, <4>2, <4>3
    <3> QED BY <3>1, <3>2
  <2> QED BY <1>1, <2>3, <2>4, <2>5 DEF Launches
<1>15. Memory'
  BY <1>1, <1>2, <1>4, <1>5, <1>6, <1>8 DEF GroupInv, Memory, f
<1>16. Owners'
  <2>1. \A m : Slots(m)' = Slots(m)
    BY <1>1 DEF Slots
  <2> QED BY <1>1, <1>5, <1>6, <1>8, <2>1 DEF GroupInv, Owners
<1>17. OneProcessPerSlot'
  BY <1>1, <1>2, <1>5, <1>6, <1>8, <1>4 DEF GroupInv, OneProcessPerSlot, f
<1>18. Configured'
  BY <1>1, <1>5, <1>6 DEF GroupInv, Configured
<1>19. DeadlineKept'
  BY <1>1, <1>5, <1>6 DEF GroupInv, DeadlineKept, f
<1> QED BY <1>9, <1>10, <1>11, <1>12, <1>13, <1>14, <1>15, <1>16, <1>17, <1>18, <1>19 DEF GroupInv

\* A newborn takes its slot.
TakesSlot(p, d) ==
  LET m == proc[p].fig
      s == proc[p].slot
  IN /\ Alive(p) /\ proc[p].pc \in {"bornInit", "bornCopy"}
     /\ proc' \in [Pids -> Processes]
     /\ \A q \in Pids : q # p => proc'[q] = proc[q]
     /\ proc'[p].pc \in {"pin", "app", "plr"}
     /\ proc'[p].fig = m /\ proc'[p].parent = proc[p].parent
     /\ proc'[p].maps = proc[p].maps /\ proc'[p].slot = s /\ proc'[p].wait = proc[p].wait
     /\ d \in ProcData /\ d.pid = p /\ (proc'[p].pc = "pin" => d.insidePLR)
     /\ shm' \in [Figureheads -> Shm] /\ shm'[m].procs[s] = d
     /\ \A g \in Figureheads :
          /\ shm'[g].nProc = shm[g].nProc
          /\ shm'[g].didProcessInit = shm[g].didProcessInit
          /\ shm'[g].insidePLRInitTrue = shm[g].insidePLRInitTrue
          /\ shm'[g].watchdogTimeout = shm[g].watchdogTimeout
          /\ \A t \in AllSlots : g # m \/ t # s => shm'[g].procs[t] = shm[g].procs[t]
     /\ UNCHANGED <<env, file, fig, pipe>>

LEMMA TakesSlotKeeps ==
  ASSUME GroupInv, NEW p \in Pids, NEW d, TakesSlot(p, d)
  PROVE  GroupInv'
<1>1. /\ Alive(p) /\ ~Unplaced(p) /\ Alive(p)' /\ ~Unplaced(p)'
      /\ \A q \in Pids : q # p => proc'[q] = proc[q]
      /\ UNCHANGED <<env, file, fig, pipe>>
  BY DEF TakesSlot, Alive, Ended, Unplaced
<1>2. /\ Belongs(p) /\ proc[p].fig \in Figureheads /\ proc[p].slot \in AllSlots
      /\ proc[p].slot \in Slots(proc[p].fig) /\ proc[p].slot # NoSlot
      /\ shm[proc[p].fig].didProcessInit
      /\ ~pipe[proc[p].fig]
  BY <1>1 DEF GroupInv, Memberships, Belongs, Owners, Launches, TakesSlot, AllSlots, NoSlot
<1>3. \A q \in Pids : /\ proc'[q].fig = proc[q].fig /\ proc'[q].parent = proc[q].parent
                      /\ proc'[q].slot = proc[q].slot /\ proc'[q].maps = proc[q].maps
                      /\ proc'[q].wait = proc[q].wait
                      /\ Alive(q)' <=> Alive(q)
                      /\ Unplaced(q)' <=> Unplaced(q)
  BY <1>1 DEF TakesSlot, Alive, Unplaced
<1>4. GroupTypeOK'
  BY DEF GroupInv, GroupTypeOK, TakesSlot
<1>5. PidsInOrder'
  BY <1>1 DEF GroupInv, PidsInOrder, TakesSlot, Alive
<1>6. OneName'
  BY <1>1 DEF GroupInv, OneName
<1>7. Memberships'
  <2> SUFFICES ASSUME NEW q \in Pids
               PROVE  /\ proc'[q].pc = "none" <=> proc'[q].fig = NoFile
                      /\ Alive(q)' => Belongs(q)'
                      /\ ~Alive(q)' => Left(q)'
    BY DEF Memberships
  <2>1. CASE q = p
    BY <1>1, <1>2, <1>3, <2>1 DEF TakesSlot, Belongs
  <2>2. CASE q # p
    BY <1>1, <1>3, <2>2 DEF GroupInv, Memberships, Belongs, Left
  <2> QED BY <2>1, <2>2
<1>8. Parents'
  BY <1>1, <1>3, RecordTypes DEF GroupInv, Parents
<1>9. Launches'
  <2>1. \A m \in Figureheads : ~shm[m].didProcessInit => m # proc[p].fig
    BY <1>2
  <2>2. \A m \in Figureheads : Fresh(m) => Fresh(m)'
    BY <2>1 DEF Fresh, TakesSlot
  <2>3. \A q \in Pids : proc'[q].pc \in {"noexec", "failed"} => proc'[q].pc = proc[q].pc
    BY <1>1 DEF TakesSlot
  <2>4. ASSUME NEW f \in Figureheads
        PROVE  /\ fig[f] \in {"start", "init"} => Fresh(f)'
               /\ fig[f] \in {"start", "refused", "init", "gaveUp"}
                    => ~pipe[f] /\ \A q \in Pids : proc'[q].fig # f
               /\ pipe[f] => \A q \in Pids : Alive(q)' /\ proc'[q].fig = f => proc'[q].pc = "noexec"
    BY <1>1, <1>2, <1>3, <2>2 DEF GroupInv, Launches
  <2>5. ASSUME NEW q \in Pids, Unplaced(q)'
        PROVE  /\ Fresh(proc[q].fig)'
               /\ \A r \in Pids : proc'[r].fig = proc'[q].fig => r = q
    <3>1. Unplaced(q) /\ proc[q].fig \in Figureheads
      BY <1>3, <2>5 DEF GroupInv, Memberships, Belongs, Unplaced, Alive, Ended
    <3>2. Fresh(proc[q].fig) /\ \A r \in Pids : proc[r].fig = proc[q].fig => r = q
      BY <3>1 DEF GroupInv, Launches
    <3> QED BY <1>3, <2>2, <3>1, <3>2
  <2>6. ASSUME NEW q \in Pids, proc'[q].pc \in {"noexec", "failed"}
        PROVE  pipe[proc'[q].fig]
    BY <1>3, <2>3, <2>6 DEF GroupInv, Launches
  <2> QED BY <1>1, <2>4, <2>5, <2>6 DEF Launches
<1>10. Memory'
  BY <1>1, <1>2, <1>3 DEF GroupInv, Memory, TakesSlot
<1>11. Owners'
  <2>1. \A m \in Figureheads : Slots(m)' = Slots(m)
    BY DEF Slots, TakesSlot
  <2> QED BY <1>3, <2>1 DEF GroupInv, Owners, TakesSlot, Memberships, Belongs
<1>12. OneProcessPerSlot'
  <2> SUFFICES ASSUME NEW q \in Pids, Alive(q)', proc'[q].slot # NoSlot
               PROVE  /\ shm'[proc'[q].fig].procs[proc'[q].slot].pid
                           = IF proc'[q].pc \in {"bornInit", "bornCopy"} THEN 0 ELSE q
                      /\ \A r \in Pids : Alive(r)' /\ r # q /\ proc'[r].fig = proc'[q].fig
                                           => proc'[r].slot # proc'[q].slot
    BY DEF OneProcessPerSlot
  <2>1. /\ shm[proc[q].fig].procs[proc[q].slot].pid
             = IF proc[q].pc \in {"bornInit", "bornCopy"} THEN 0 ELSE q
        /\ \A r \in Pids : Alive(r) /\ r # q /\ proc[r].fig = proc[q].fig
                             => proc[r].slot # proc[q].slot
    BY <1>3 DEF GroupInv, OneProcessPerSlot
  <2>2. CASE q = p
    BY <1>3, <2>1, <2>2 DEF TakesSlot
  <2>3. CASE q # p
    <3>1. proc[q].fig \in Figureheads /\ proc[q].slot \in AllSlots
      BY <1>3 DEF GroupInv, Memberships, Belongs, Owners
    <3>2. proc[q].fig # proc[p].fig \/ proc[q].slot # proc[p].slot
      BY <1>1, <1>3, <2>1, <2>3
    <3>3. shm'[proc[q].fig].procs[proc[q].slot] = shm[proc[q].fig].procs[proc[q].slot]
      BY <3>1, <3>2 DEF TakesSlot
    <3> QED BY <1>1, <1>3, <2>1, <2>3, <3>3
  <2> QED BY <2>2, <2>3
<1>13. Configured'
  <2>1. ASSUME NEW q \in Pids, proc'[q].pc = "pin"
        PROVE  shm'[proc'[q].fig].procs[proc'[q].slot].insidePLR
    <3>1. CASE q = p
      BY <2>1, <3>1 DEF TakesSlot
    <3>2. CASE q # p
      <4>1. proc[q].pc = "pin" /\ Alive(q) /\ ~Unplaced(q)
        BY <1>1, <2>1, <3>2 DEF Alive, Ended, Unplaced
      <4>2. proc[q].fig \in Figureheads /\ proc[q].slot \in AllSlots /\ proc[q].slot # NoSlot
        BY <4>1 DEF GroupInv, Memberships, Belongs, Owners, AllSlots, NoSlot
      <4>3. proc[q].fig # proc[p].fig \/ proc[q].slot # proc[p].slot
        BY <1>1, <3>2, <4>1, <4>2 DEF GroupInv, OneProcessPerSlot
      <4>4. shm[proc[q].fig].procs[proc[q].slot].insidePLR
        BY <4>1 DEF GroupInv, Configured
      <4> QED BY <1>3, <4>2, <4>3, <4>4 DEF TakesSlot
    <3> QED BY <3>1, <3>2
  <2>2. \A f \in Figureheads : /\ shm'[f].nProc = shm[f].nProc
                              /\ shm'[f].watchdogTimeout = shm[f].watchdogTimeout
                              /\ shm'[f].insidePLRInitTrue = shm[f].insidePLRInitTrue
    BY DEF TakesSlot
  <2>3. \A f \in Figureheads : fig'[f] \notin {"start", "refused"} =>
          /\ f \in DOMAIN env'.opts
          /\ shm'[f].nProc = env'.opts[f].nProc
          /\ shm'[f].watchdogTimeout = env'.opts[f].watchdogTimeout
          /\ shm'[f].insidePLRInitTrue <=> env'.opts[f].pintoolMode # "off"
    BY <1>1, <2>2 DEF GroupInv, Configured
  <2> QED BY <2>1, <2>3 DEF Configured
<1>14. DeadlineKept'
  BY <1>1, <1>3 DEF GroupInv, DeadlineKept
<1> QED BY <1>4, <1>5, <1>6, <1>7, <1>8, <1>9, <1>10, <1>11, <1>12, <1>13, <1>14 DEF GroupInv

\* The first process starts the group: it was the only one of its run, in fresh memory.
LEMMA StartGroupKeeps ==
  ASSUME GroupInv, NEW p \in Pids, StartGroup(p)
  PROVE  GroupInv'
<1>0. PICK m \in Figureheads, last \in 0 .. MaxPid, k \in Pids :
        /\ m = proc[p].fig /\ m = proc[p].maps /\ last = Used /\ k = shm[m].nProc
        /\ last + (k - 1) <= MaxPid
        /\ \A q \in Pids : proc[q].pc # "none" <=> q <= last
  <2>1. Alive(p) /\ proc[p].pc = "first"
    BY DEF StartGroup, Alive, Ended
  <2>2. Belongs(p) /\ proc[p].fig \in Figureheads /\ proc[p].maps = proc[p].fig
    BY <2>1 DEF GroupInv, Memberships, Belongs
  <2>3. fig[proc[p].fig] \notin {"start", "refused"}
    BY <2>2 DEF Belongs
  <2>4. shm[proc[p].fig].nProc \in Pids
    BY <2>2, <2>3, OptionTypes DEF GroupInv, Configured
  <2>5. Used \in 0 .. MaxPid /\ \A q \in Pids : proc[q].pc # "none" <=> q <= Used
    BY PidsCounted DEF GroupInv
  <2>6. Used + (shm[proc[p].fig].nProc - 1) <= MaxPid
    BY <2>2 DEF StartGroup, Room
  <2> QED BY <2>2, <2>4, <2>5, <2>6
<1> DEFINE children == last + 1 .. last + k - 1
           born(q) == [NoProc EXCEPT !.pc = "bornInit", !.fig = m,
                                     !.parent = p, !.maps = m, !.slot = q - last]
           d == [FreeProcData EXCEPT !.pid = p, !.insidePLR = StartsInside(m, TRUE)]
<1>1. /\ proc[p].pc = "first" /\ Alive(p) /\ Unplaced(p) /\ ~Unplaced(p)' /\ Alive(p)'
      /\ Fresh(m) /\ \A q \in Pids : proc[q].fig = m => q = p
      /\ UNCHANGED <<env, file, fig, pipe>>
  <2>1. proc[p].pc = "first" /\ Alive(p) /\ Unplaced(p) /\ UNCHANGED <<env, file, fig, pipe>>
    BY DEF StartGroup, Alive, Ended, Unplaced
  <2>2. proc'[p].pc \in {"pin", "app"}
    <3>1. proc'[p] = [proc[p] EXCEPT !.pc = Started(p), !.slot = 0]
      BY DEF StartGroup
    <3> QED BY <3>1, RecordTypes DEF Processes, Started, GroupInv
  <2>3. Fresh(m) /\ \A q \in Pids : proc[q].fig = m => q = p
    BY <1>0, <2>1 DEF GroupInv, Launches
  <2> QED BY <2>1, <2>2, <2>3 DEF Alive, Ended, Unplaced
<1>2. /\ p <= last /\ p \notin children /\ children \subseteq Pids
      /\ \A q \in children : proc[q].pc = "none" /\ proc[q].fig = NoFile /\ q > p
  BY <1>0, <1>1 DEF GroupInv, Memberships, Pids
<1>3. /\ proc' = [q \in Pids |->
                    IF q = p THEN [proc[p] EXCEPT !.pc = Started(p), !.slot = 0]
                    ELSE IF q \in children THEN born(q) ELSE proc[q]]
      /\ shm' = [shm EXCEPT ![m].didProcessInit = TRUE, ![m].procs[0] = d]
  BY <1>0 DEF StartGroup
<1>4. \A q \in children : born(q) \in Processes
  <2>1. NoProc \in Processes /\ "bornInit" \in PCs
    BY FreeTypes DEF PCs
  <2>2. ASSUME NEW q \in children
        PROVE  born(q) \in Processes
    <3>1. q - last \in Int
      BY <1>0
    <3> QED BY <2>1, <3>1 DEF Processes
  <2> QED BY <2>2
<1>5. \A q \in children :
        /\ proc'[q].pc = "bornInit" /\ proc'[q].fig = m /\ proc'[q].parent = p
        /\ proc'[q].maps = m /\ proc'[q].slot = q - last /\ proc'[q].wait = NoWait
        /\ proc'[q] \in Processes
  BY <1>2, <1>3, <1>4 DEF NoProc
<1>6. /\ proc'[p].pc = Started(p) /\ proc'[p].fig = m /\ proc'[p].parent = proc[p].parent
      /\ proc'[p].maps = m /\ proc'[p].slot = 0 /\ proc'[p].wait = proc[p].wait
      /\ proc'[p] \in Processes /\ Started(p) \in {"pin", "app"}
      /\ Started(p) = "pin" <=> env.opts[m].pintoolMode # "off"
  <2>1. proc'[p] = [proc[p] EXCEPT !.pc = Started(p), !.slot = 0] /\ proc[p] \in Processes
    BY <1>3, RecordTypes DEF GroupInv
  <2>2. Started(p) \in {"pin", "app"} /\ (Started(p) = "pin" <=> env.opts[m].pintoolMode # "off")
    BY <1>0 DEF Started
  <2>3. Started(p) \in PCs
    BY <2>2 DEF PCs
  <2>4. /\ proc'[p].pc = Started(p) /\ proc'[p].slot = 0 /\ proc'[p] \in Processes
        /\ proc'[p].fig = proc[p].fig /\ proc'[p].parent = proc[p].parent
        /\ proc'[p].maps = proc[p].maps /\ proc'[p].wait = proc[p].wait
    <3>1. PICK where \in PCs : where = Started(p)
      BY <2>3
    <3>2. proc'[p] = [proc[p] EXCEPT !.pc = where, !.slot = 0] /\ proc[p] \in Processes
      BY <2>1, <3>1
    <3>3. /\ proc'[p].pc = where /\ proc'[p].slot = 0
          /\ proc'[p].fig = proc[p].fig /\ proc'[p].parent = proc[p].parent
          /\ proc'[p].maps = proc[p].maps /\ proc'[p].wait = proc[p].wait
      BY <3>2 DEF Processes
    <3>4. \A w \in PCs : [proc[p] EXCEPT !.pc = w, !.slot = 0] \in Processes
      <4>1. 0 \in Int
        OBVIOUS
      <4> QED BY <3>2, <4>1 DEF Processes
    <3> QED BY <3>1, <3>2, <3>3, <3>4
  <2> QED BY <1>0, <2>2, <2>4
<1>7. \A q \in Pids : q # p /\ q \notin children => proc'[q] = proc[q]
  BY <1>3
<1>8. d \in ProcData /\ d.pid = p /\ d.insidePLR = shm[m].insidePLRInitTrue
  <2>1. PICK b \in BOOLEAN : b = shm[m].insidePLRInitTrue
    BY DEF GroupInv, GroupTypeOK, Shm
  <2>2. d = [FreeProcData EXCEPT !.pid = p, !.insidePLR = b]
    BY <2>1 DEF StartsInside
  <2> HIDE DEF d
  <2>3. d = [pid |-> p, insidePLR |-> b, open |-> FALSE]
    BY <2>2 DEF FreeProcData
  <2>4. d.insidePLR = b
    BY <2>3
  <2> QED BY <2>1, <2>3, <2>4 DEF ProcData, Pids
<1> HIDE DEF d, born
<1>9. /\ shm' \in [Figureheads -> Shm] /\ shm'[m].procs[0] = d /\ shm'[m].didProcessInit
      /\ \A g \in Figureheads :
           /\ shm'[g].nProc = shm[g].nProc
           /\ shm'[g].insidePLRInitTrue = shm[g].insidePLRInitTrue
           /\ shm'[g].watchdogTimeout = shm[g].watchdogTimeout
           /\ g # m => shm'[g] = shm[g]
           /\ \A t \in AllSlots : g # m \/ t # 0 => shm'[g].procs[t] = shm[g].procs[t]
  <2>1. shm \in [Figureheads -> Shm] /\ 0 \in 0 .. MaxPid - 1
    BY <1>0 DEF GroupInv, GroupTypeOK, Pids
  <2> QED BY <1>3, <1>8, <2>1 DEF Shm, AllSlots
<1>10. /\ \A q \in children : Alive(q)' /\ ~Unplaced(q)' /\ ~Alive(q) /\ ~Unplaced(q)
       /\ \A q \in Pids : q \notin children => (Alive(q)' <=> Alive(q))
       /\ \A q \in Pids : Unplaced(q)' <=> Unplaced(q) /\ q # p
  BY <1>1, <1>2, <1>5, <1>7 DEF Alive, Ended, Unplaced
<1> HIDE DEF children
<1>11. GroupTypeOK'
  <2>1. proc' \in [Pids -> Processes]
    <3>1. \A q \in Pids : proc'[q] \in Processes
      BY <1>5, <1>6, <1>7, RecordTypes DEF GroupInv
    <3> QED BY <1>3, <3>1
  <2> QED BY <1>1, <1>9, <2>1 DEF GroupInv, GroupTypeOK
<1>12. PidsInOrder'
  <2>1. \A q \in Pids : proc'[q].pc # "none" <=> q <= last + (k - 1)
    <3> TAKE q \in Pids
    <3>1. CASE q = p
      BY <1>0, <1>2, <1>6, <3>1 DEF Pids
    <3>2. CASE q \in children
      BY <1>0, <1>5, <3>2 DEF Pids, children
    <3>3. CASE q # p /\ q \notin children
      BY <1>0, <1>7, <3>3 DEF Pids, children
    <3> QED BY <3>1, <3>2, <3>3
  <2> QED BY <1>0, <2>1 DEF PidsInOrder, Pids
<1>13. OneName'
  BY <1>1 DEF GroupInv, OneName
<1>14. Memberships'
  <2> SUFFICES ASSUME NEW q \in Pids
               PROVE  /\ proc'[q].pc = "none" <=> proc'[q].fig = NoFile
                      /\ Alive(q)' => Belongs(q)'
                      /\ ~Alive(q)' => Left(q)'
    BY DEF Memberships
  <2>0. Belongs(p)
    BY <1>1 DEF GroupInv, Memberships
  <2>1. CASE q = p
    BY <1>0, <1>1, <1>6, <2>0, <2>1 DEF Belongs
  <2>2. CASE q \in children
    BY <1>0, <1>1, <1>5, <1>10, <2>0, <2>2 DEF Belongs
  <2>3. CASE q # p /\ q \notin children
    BY <1>1, <1>7, <1>10, <2>3 DEF GroupInv, Memberships, Belongs, Left
  <2> QED BY <2>1, <2>2, <2>3
<1>15. Parents'
  <2> SUFFICES ASSUME NEW q \in Pids, Alive(q)', fig[proc'[q].fig] \in FigRunning,
                      proc'[q].parent # proc'[q].fig
               PROVE  \E r \in Pids : /\ proc'[q].parent = r /\ r < q
                                      /\ Alive(r)' /\ proc'[r].fig = proc'[q].fig
    BY <1>1 DEF Parents
  <2>1. CASE q \in children
    BY <1>1, <1>2, <1>5, <1>6, <2>1 DEF Pids
  <2>2. CASE q \notin children
    <3>1. Alive(q) /\ proc'[q].fig = proc[q].fig /\ proc'[q].parent = proc[q].parent
      BY <1>0, <1>1, <1>6, <1>7, <1>10, <2>2
    <3>2. /\ proc[q].parent \in Pids /\ proc[q].parent < q
          /\ Alive(proc[q].parent) /\ proc[proc[q].parent].fig = proc[q].fig
      BY <1>1, <3>1 DEF GroupInv, Parents
    <3>3. proc[q].parent \notin children /\ proc'[proc[q].parent].fig = proc[q].fig
      BY <1>0, <1>6, <1>7, <1>10, <3>2
    <3> QED BY <1>10, <3>1, <3>2, <3>3
  <2> QED BY <2>1, <2>2
<1>16. Launches'
  <2>1. /\ fig[m] \notin {"start", "refused", "init", "gaveUp"} /\ ~pipe[m]
    BY <1>0, <1>1 DEF GroupInv, Memberships, Belongs, Launches
  <2>2. \A g \in Figureheads : g # m /\ Fresh(g) => Fresh(g)'
    BY <1>9 DEF Fresh
  <2>3. ASSUME NEW g \in Figureheads
        PROVE  /\ fig[g] \in {"start", "init"} => Fresh(g)'
               /\ fig[g] \in {"start", "refused", "init", "gaveUp"}
                    => ~pipe[g] /\ \A q \in Pids : proc'[q].fig # g
               /\ pipe[g] => \A q \in Pids : Alive(q)' /\ proc'[q].fig = g => proc'[q].pc = "noexec"
    <3>1. CASE g = m
      BY <2>1, <3>1
    <3>2. CASE g # m
      <4>1. \A q \in Pids : proc'[q].fig = g =>
              proc[q].fig = g /\ proc'[q] = proc[q] /\ (Alive(q)' <=> Alive(q))
        BY <1>5, <1>6, <1>7, <1>10, <3>2
      <4> QED BY <2>2, <3>2, <4>1 DEF GroupInv, Launches
    <3> QED BY <3>1, <3>2
  <2>4. ASSUME NEW q \in Pids, Unplaced(q)'
        PROVE  /\ Fresh(proc[q].fig)' /\ proc'[q] = proc[q]
               /\ \A r \in Pids : proc'[r].fig = proc'[q].fig => r = q
    <3>1. Unplaced(q) /\ q # p /\ q \notin children /\ proc'[q] = proc[q]
      BY <1>7, <1>10, <2>4
    <3>2. proc[q].fig \in Figureheads /\ proc[q].fig # m
      BY <1>1, <3>1 DEF GroupInv, Memberships, Belongs, Unplaced, Alive, Ended
    <3>3. Fresh(proc[q].fig) /\ \A r \in Pids : proc[r].fig = proc[q].fig => r = q
      BY <3>1 DEF GroupInv, Launches
    <3>4. \A r \in Pids : proc'[r].fig = proc[q].fig => r = q
      BY <1>5, <1>6, <1>7, <3>2, <3>3
    <3> QED BY <2>2, <3>1, <3>2, <3>3, <3>4
  <2>5. ASSUME NEW q \in Pids, proc'[q].pc \in {"noexec", "failed"}
        PROVE  pipe[proc'[q].fig]
    <3>1. proc'[q] = proc[q]
      BY <1>5, <1>6, <1>7, <2>5
    <3> QED BY <2>5, <3>1 DEF GroupInv, Launches
  <2> QED BY <1>1, <2>3, <2>4, <2>5 DEF Launches
<1>17. Memory'
  <2> SUFFICES ASSUME NEW g \in Figureheads, NEW s \in AllSlots, NEW q \in Pids,
                      shm'[g].procs[s].pid = q
               PROVE  proc'[q].fig = g /\ (Alive(q)' => proc'[q].slot = s)
    BY DEF Memory
  <2>1. CASE g = m
    <3>1. s # 0 => shm'[g].procs[s].pid = 0
      BY <1>1, <1>9, <2>1 DEF Fresh
    <3>2. s = 0 /\ q = p
      BY <1>8, <1>9, <2>1, <3>1 DEF Pids
    <3> QED BY <1>6, <2>1, <3>2
  <2>2. CASE g # m
    <3>1. proc[q].fig = g /\ (Alive(q) => proc[q].slot = s)
      BY <1>9, <2>2 DEF GroupInv, Memory
    <3>2. q # p /\ q \notin children
      BY <1>0, <1>2, <2>2, <3>1
    <3> QED BY <1>7, <1>10, <3>1, <3>2
  <2> QED BY <2>1, <2>2
<1>18. Owners'
  <2>1. \A g \in Figureheads : Slots(g)' = Slots(g)
    BY <1>9 DEF Slots
  <2> SUFFICES ASSUME NEW q \in Pids
               PROVE  /\ Unplaced(q)' => proc'[q].slot = NoSlot
                      /\ Alive(q)' /\ ~Unplaced(q)' =>
                           /\ proc'[q].slot \in AllSlots /\ proc'[q].slot \in Slots(proc[q].fig)'
                           /\ shm'[proc'[q].fig].didProcessInit
    BY DEF Owners
  <2>2. 0 \in AllSlots /\ 0 \in 0 .. k - 1
    BY <1>0 DEF Pids, AllSlots
  <2>3. CASE q = p
    BY <1>0, <1>6, <1>9, <1>10, <2>2, <2>3 DEF Slots
  <2>4. CASE q \in children
    <3>1. q - last \in 0 .. k - 1 /\ q - last \in AllSlots
      BY <1>0, <2>4 DEF children, Pids, AllSlots
    <3> QED BY <1>0, <1>5, <1>9, <1>10, <2>4, <3>1 DEF Slots
  <2>5. CASE q # p /\ q \notin children
    <3>1. /\ Unplaced(q) => proc[q].slot = NoSlot
          /\ Alive(q) /\ ~Unplaced(q) => /\ proc[q].slot \in AllSlots
                                         /\ proc[q].slot \in Slots(proc[q].fig)
                                         /\ shm[proc[q].fig].didProcessInit
                                         /\ proc[q].fig \in Figureheads
      BY DEF GroupInv, Owners, Memberships, Belongs
    <3>2. shm[proc[q].fig].didProcessInit /\ proc[q].fig \in Figureheads
            => shm'[proc[q].fig].didProcessInit
      BY <1>9
    <3> QED BY <1>7, <1>10, <2>1, <2>5, <3>1, <3>2
  <2> QED BY <2>3, <2>4, <2>5
<1>19. OneProcessPerSlot'
  <2> SUFFICES ASSUME NEW q \in Pids, Alive(q)', proc'[q].slot # NoSlot
               PROVE  /\ shm'[proc'[q].fig].procs[proc'[q].slot].pid
                           = IF proc'[q].pc \in {"bornInit", "bornCopy"} THEN 0 ELSE q
                      /\ \A r \in Pids : Alive(r)' /\ r # q /\ proc'[r].fig = proc'[q].fig
                                           => proc'[r].slot # proc'[q].slot
    BY DEF OneProcessPerSlot
  <2>0. \A r \in Pids : proc'[r].fig = m => r = p \/ r \in children
    BY <1>1, <1>7
  <2>1. CASE q = p
    <3>1. \A r \in children : proc'[r].slot # 0
      BY <1>0, <1>5 DEF children
    <3> QED BY <1>6, <1>8, <1>9, <2>0, <2>1, <3>1
  <2>2. CASE q \in children
    <3>1. q - last # 0 /\ q - last \in AllSlots
      BY <1>0, <2>2 DEF children, Pids, AllSlots
    <3>2. shm'[m].procs[q - last].pid = 0
      BY <1>1, <1>9, <3>1 DEF Fresh
    <3>3. \A r \in children : r # q => r - last # q - last
      BY <1>0, <2>2 DEF children
    <3> QED BY <1>5, <1>6, <2>0, <2>2, <3>1, <3>2, <3>3
  <2>3. CASE q # p /\ q \notin children
    <3>1. proc'[q] = proc[q] /\ Alive(q) /\ proc[q].fig \in Figureheads /\ proc[q].fig # m
      BY <1>1, <1>7, <1>10, <2>3 DEF GroupInv, Memberships, Belongs
    <3>2. /\ shm[proc[q].fig].procs[proc[q].slot].pid
               = IF proc[q].pc \in {"bornInit", "bornCopy"} THEN 0 ELSE q
          /\ \A r \in Pids : Alive(r) /\ r # q /\ proc[r].fig = proc[q].fig
                               => proc[r].slot # proc[q].slot
      BY <3>1 DEF GroupInv, OneProcessPerSlot
    <3>3. \A r \in Pids : proc'[r].fig = proc[q].fig => proc'[r] = proc[r] /\ r \notin children
      BY <1>5, <1>6, <1>7, <3>1
    <3> QED BY <1>9, <1>10, <3>1, <3>2, <3>3
  <2> QED BY <2>1, <2>2, <2>3
<1>20. Configured'
  <2>1. ASSUME NEW q \in Pids, proc'[q].pc = "pin"
        PROVE  shm'[proc'[q].fig].procs[proc'[q].slot].insidePLR
    <3>1. CASE q = p
      <4>1. fig[m] \notin {"start", "refused"}
        BY <1>0, <1>1 DEF GroupInv, Memberships, Belongs
      <4> QED BY <1>6, <1>8, <1>9, <2>1, <3>1, <4>1 DEF GroupInv, Configured
    <3>2. CASE q # p
      <4>1. q \notin children /\ proc'[q] = proc[q] /\ proc[q].pc = "pin"
        BY <1>5, <1>7, <2>1, <3>2
      <4>2. proc[q].fig \in Figureheads /\ proc[q].fig # m
        BY <1>1, <3>2, <4>1 DEF GroupInv, Memberships, Belongs, Alive, Ended
      <4> QED BY <1>9, <4>1, <4>2 DEF GroupInv, Configured
    <3> QED BY <3>1, <3>2
  <2> QED BY <1>1, <1>9, <2>1 DEF GroupInv, Configured
<1>21. DeadlineKept'
  <2> SUFFICES ASSUME NEW q \in Pids, proc'[q].wait # NoWait
               PROVE  proc'[q].wait = proc[q].wait /\ proc'[q].fig = proc[q].fig
    BY <1>1 DEF GroupInv, DeadlineKept
  <2> QED BY <1>0, <1>5, <1>6, <1>7
<1> QED
  BY <1>11, <1>12, <1>13, <1>14, <1>15, <1>16, <1>17, <1>18, <1>19, <1>20, <1>21 DEF GroupInv

\* A process that has died or been condemned gives its slot to a copy of another.
LEMMA ReplaceKeeps ==
  ASSUME GroupInv, NEW p \in Pids, NEW s \in Slots(proc[p].maps), plr_replaceProcessIdx(p, s)
  PROVE  GroupInv'
<1>0. PICK m \in Figureheads, n \in Pids, v \in Pids, copy \in ProcData :
        /\ m = proc[p].maps /\ m = proc[p].fig /\ n = Used + 1
        /\ v = shm[m].procs[s].pid /\ copy = Mine(p) /\ s \in AllSlots
        /\ proc[p].pc = "plr" /\ Alive(p) /\ ~Unplaced(p)
        /\ fig[m] \in {"read", "wait", "killed"} /\ proc[p].slot # s
  <2>1. Alive(p) /\ ~Unplaced(p) /\ proc[p].pc = "plr" /\ proc[p].slot # s
    BY DEF plr_replaceProcessIdx, Alive, Ended, Unplaced
  <2>2. /\ proc[p].fig \in Figureheads /\ proc[p].maps = proc[p].fig
        /\ fig[proc[p].fig] \in {"read", "wait", "killed"}
    BY <2>1 DEF GroupInv, Memberships, Belongs
  <2>3. proc[p].slot \in AllSlots
    BY <2>1 DEF GroupInv, Owners
  <2>4. s \in AllSlots
    BY <2>2 DEF GroupInv, GroupTypeOK, Shm, Slots, AllSlots
  <2>5. \A t \in AllSlots : shm[proc[p].fig].procs[t] \in ProcData
    BY <2>2 DEF GroupInv, GroupTypeOK, Shm, AllSlots
  <2>6. shm[proc[p].fig].procs[s].pid \in Pids
    <3>1. shm[proc[p].fig].procs[s].pid # 0
      BY <2>2 DEF plr_replaceProcessIdx
    <3> QED BY <2>4, <2>5, <3>1 DEF ProcData, Pids
  <2>7. Mine(p) \in ProcData
    BY <2>2, <2>3, <2>5 DEF Mine
  <2>8. Used + 1 \in Pids
    BY NextPid DEF plr_replaceProcessIdx
  <2> QED BY <2>1, <2>2, <2>4, <2>6, <2>7, <2>8
<1>1. /\ proc[n].pc = "none" /\ proc[n].fig = NoFile /\ ~Alive(n)
      /\ \A q \in Pids : proc[q].pc # "none" => q < n
      /\ \A q \in Pids : q < n => proc[q].pc # "none"
  BY <1>0, NextPid DEF plr_replaceProcessIdx, Alive
<1>2. /\ v # p /\ v # n /\ proc[v].fig = m /\ proc[v].pc # "none"
      /\ Alive(v) => proc[v].slot = s
  <2>1. proc[v].fig = m /\ (Alive(v) => proc[v].slot = s)
    BY <1>0, SMTT(30) DEF GroupInv, Memory
  <2> QED BY <1>0, <1>1, <2>1 DEF plr_replaceProcessIdx, GroupInv, Memberships
<1> DEFINE new == [NoProc EXCEPT !.pc = "bornCopy", !.fig = m, !.parent = p,
                                 !.maps = m, !.slot = s, !.copy = copy]
           rest == IF Alive(v) THEN Without(proc, v, "dead") ELSE proc
<1>3. /\ proc' = [rest EXCEPT ![n] = new]
      /\ shm' = [shm EXCEPT ![m].procs[s] = FreeProcData]
      /\ UNCHANGED <<env, file, fig, pipe>>
  BY <1>0 DEF plr_replaceProcessIdx
<1>4. /\ new \in Processes /\ new.pc = "bornCopy" /\ new.fig = m /\ new.parent = p
      /\ new.maps = m /\ new.slot = s /\ new.wait = NoWait
  <2>1. "bornCopy" \in PCs /\ s \in Int
    BY <1>0 DEF PCs, AllSlots
  <2> QED BY <1>0, <2>1, FreeTypes DEF NoProc, Processes
<1>5. /\ rest \in [Pids -> Processes]
      /\ \A q \in Pids : q # v =>
           /\ rest[q].pc = proc[q].pc /\ rest[q].fig = proc[q].fig
           /\ rest[q].maps = proc[q].maps /\ rest[q].slot = proc[q].slot
           /\ rest[q].wait = proc[q].wait
           /\ rest[q].parent # proc[q].parent =>
                /\ Alive(q) /\ proc[q].parent = v
                /\ rest[q].parent = Adopter(proc[q].fig)
           /\ Alive(v) => rest[q].parent # v
      /\ rest[v].pc = "failed" => proc[v].pc = "failed"
      /\ rest[v].pc \in Ended /\ rest[v].fig = m
      /\ rest[v].slot = NoSlot /\ rest[v].parent = Outside
      /\ rest[v].wait \in {proc[v].wait, NoWait}
  <2>1. CASE Alive(v)
    <3>1. /\ rest \in [Pids -> Processes]
          /\ rest[v] = [NoProc EXCEPT !.pc = "dead", !.fig = m]
          /\ \A q \in Pids : q # v =>
               rest[q] = IF proc[q].parent = v
                           THEN [proc[q] EXCEPT !.parent = Adopter(proc[q].fig)] ELSE proc[q]
          /\ \A q \in Pids : proc[q].parent = v => Alive(q)
      <4>1. "dead" \in Ended
        BY DEF Ended
      <4>2. /\ Without(proc, v, "dead") \in [Pids -> Processes]
            /\ Without(proc, v, "dead")[v] = [NoProc EXCEPT !.pc = "dead", !.fig = proc[v].fig]
            /\ \A q \in Pids : q # v =>
                 Without(proc, v, "dead")[q] =
                   IF proc[q].parent = v
                     THEN [proc[q] EXCEPT !.parent = Adopter(proc[q].fig)] ELSE proc[q]
            /\ \A q \in Pids : proc[q].parent = v => Alive(q)
        BY <2>1, <4>1, AfterEnd
      <4>3. rest = Without(proc, v, "dead")
        BY <2>1
      <4> QED BY <1>2, <4>2, <4>3
    <3> HIDE DEF rest
    <3>2. /\ rest[v].pc = "dead" /\ rest[v].fig = m /\ rest[v].slot = NoSlot
          /\ rest[v].parent = Outside /\ rest[v].wait = NoWait
      BY <3>1 DEF NoProc
    <3>3. ASSUME NEW q \in Pids, q # v
          PROVE  /\ rest[q].pc = proc[q].pc /\ rest[q].fig = proc[q].fig
                 /\ rest[q].maps = proc[q].maps /\ rest[q].slot = proc[q].slot
                 /\ rest[q].wait = proc[q].wait
                 /\ rest[q].parent # proc[q].parent =>
                      /\ Alive(q) /\ proc[q].parent = v
                      /\ rest[q].parent = Adopter(proc[q].fig)
                 /\ rest[q].parent # v
      <4>1. proc[q] \in Processes
        BY RecordTypes DEF GroupInv
      <4>2. proc[q].parent = v => Adopter(proc[q].fig) # v
        BY <3>1 DEF GroupInv, Memberships, Belongs, Adopter
      <4>3. CASE proc[q].parent = v
        <5>1. rest[q] = [proc[q] EXCEPT !.parent = Adopter(proc[q].fig)] /\ Alive(q)
          BY <3>1, <3>3, <4>3
        <5> QED BY <4>1, <4>2, <4>3, <5>1 DEF Processes
      <4>4. CASE proc[q].parent # v
        <5>1. rest[q] = proc[q]
          BY <3>1, <3>3, <4>4
        <5> QED BY <4>4, <5>1
      <4> QED BY <4>3, <4>4
    <3> QED BY <3>1, <3>2, <3>3 DEF Ended
  <2>2. CASE ~Alive(v)
    <3>1. rest = proc
      BY <2>2
    <3>2. proc \in [Pids -> Processes]
      BY DEF GroupInv, GroupTypeOK
    <3>3. proc[v].pc \in Ended /\ proc[v].slot = NoSlot /\ proc[v].parent = Outside
      BY <1>2, <2>2 DEF GroupInv, Memberships, Left, Alive
    <3> HIDE DEF rest
    <3> QED BY <1>2, <2>2, <3>1, <3>2, <3>3
  <2> QED BY <2>1, <2>2
<1> HIDE DEF new, rest
<1>6. /\ proc' \in [Pids -> Processes] /\ proc'[n] = new
      /\ \A q \in Pids : q # n => proc'[q] = rest[q]
  BY <1>3, <1>4, <1>5
<1>7. /\ shm' \in [Figureheads -> Shm] /\ shm'[m].procs[s].pid = 0
      /\ \A g \in Figureheads :
           /\ shm'[g].nProc = shm[g].nProc
           /\ shm'[g].didProcessInit = shm[g].didProcessInit
           /\ shm'[g].insidePLRInitTrue = shm[g].insidePLRInitTrue
           /\ shm'[g].watchdogTimeout = shm[g].watchdogTimeout
           /\ \A t \in AllSlots : g # m \/ t # s => shm'[g].procs[t] = shm[g].procs[t]
  <2>1. shm \in [Figureheads -> Shm] /\ FreeProcData \in ProcData /\ FreeProcData.pid = 0
    BY FreeTypes DEF GroupInv, GroupTypeOK, FreeProcData
  <2>2. /\ shm'[m] = [shm[m] EXCEPT !.procs = [@ EXCEPT ![s] = FreeProcData]]
        /\ \A g \in Figureheads : g # m => shm'[g] = shm[g]
        /\ DOMAIN shm' = Figureheads /\ shm' = [g \in Figureheads |-> shm'[g]]
    BY <1>3, <2>1
  <2>3. shm[m] \in Shm /\ shm[m].procs \in [AllSlots -> ProcData]
    BY <2>1 DEF Shm, AllSlots
  <2>4. /\ [shm[m].procs EXCEPT ![s] = FreeProcData] \in [AllSlots -> ProcData]
        /\ [shm[m].procs EXCEPT ![s] = FreeProcData][s] = FreeProcData
        /\ \A t \in AllSlots : t # s =>
             [shm[m].procs EXCEPT ![s] = FreeProcData][t] = shm[m].procs[t]
    BY <1>0, <2>1, <2>3
  <2>5. /\ shm'[m] \in Shm /\ shm'[m].procs = [shm[m].procs EXCEPT ![s] = FreeProcData]
        /\ shm'[m].nProc = shm[m].nProc
        /\ shm'[m].didProcessInit = shm[m].didProcessInit
        /\ shm'[m].insidePLRInitTrue = shm[m].insidePLRInitTrue
        /\ shm'[m].watchdogTimeout = shm[m].watchdogTimeout
    BY <2>2, <2>3, <2>4 DEF Shm, AllSlots
  <2>6. shm' \in [Figureheads -> Shm]
    <3>1. \A g \in Figureheads : shm'[g] \in Shm
      BY <2>1, <2>2, <2>5
    <3> QED BY <2>2, <3>1
  <2> QED BY <2>1, <2>2, <2>4, <2>5, <2>6, ZenonT(40)
<1>8. /\ Alive(n)' /\ ~Unplaced(n)' /\ ~Alive(v)' /\ ~Unplaced(v)'
      /\ \A q \in Pids : q \notin {n, v} =>
           (Alive(q)' <=> Alive(q)) /\ (Unplaced(q)' <=> Unplaced(q))
  BY <1>2, <1>4, <1>5, <1>6 DEF Alive, Ended, Unplaced
<1>9. \A q \in Pids : q \notin {n, v} =>
        /\ proc'[q].pc = proc[q].pc /\ proc'[q].fig = proc[q].fig
        /\ proc'[q].maps = proc[q].maps /\ proc'[q].slot = proc[q].slot
        /\ proc'[q].wait = proc[q].wait
  BY <1>5, <1>6
<1>10. GroupTypeOK'
  BY <1>3, <1>6, <1>7 DEF GroupInv, GroupTypeOK
<1>11. PidsInOrder'
  <2>1. \A q \in Pids : q # n => (proc'[q].pc = "none" <=> proc[q].pc = "none")
    BY <1>2, <1>5, <1>6 DEF Ended
  <2>2. proc'[n].pc # "none"
    BY <1>4, <1>6
  <2> QED BY <1>1, <2>1, <2>2 DEF PidsInOrder, Pids
<1>12. OneName'
  BY <1>3 DEF GroupInv, OneName
<1>13. Memberships'
  <2> SUFFICES ASSUME NEW q \in Pids
               PROVE  /\ proc'[q].pc = "none" <=> proc'[q].fig = NoFile
                      /\ Alive(q)' => Belongs(q)'
                      /\ ~Alive(q)' => Left(q)'
    BY DEF Memberships
  <2>1. CASE q = n
    BY <1>0, <1>3, <1>4, <1>6, <1>8, <2>1 DEF Belongs
  <2>2. CASE q = v
    BY <1>2, <1>5, <1>6, <1>8, <2>2 DEF Left, Ended
  <2>3. CASE q \notin {n, v}
    <3>1. Alive(q)' => Belongs(q)'
      BY <1>3, <1>8, <1>9, <2>3 DEF GroupInv, Memberships, Belongs
    <3>2. ~Alive(q)' => Left(q)'
      BY <1>5, <1>6, <1>8, <1>9, <2>3 DEF GroupInv, Memberships, Left
    <3> QED BY <1>9, <2>3, <3>1, <3>2 DEF GroupInv, Memberships
  <2> QED BY <2>1, <2>2, <2>3
<1>14. Parents'
  <2> SUFFICES ASSUME NEW q \in Pids, Alive(q)', fig[proc'[q].fig] \in FigRunning,
                      proc'[q].parent # proc'[q].fig
               PROVE  \E r \in Pids : /\ proc'[q].parent = r /\ r < q
                                      /\ Alive(r)' /\ proc'[r].fig = proc'[q].fig
    BY <1>3 DEF Parents
  <2>1. CASE q = n
    <3>1. p < n /\ p \notin {n, v}
      BY <1>0, <1>1, <1>2 DEF Alive
    <3>2. Alive(p)' /\ proc'[p].fig = m
      BY <1>0, <1>8, <1>9, <3>1
    <3>3. proc'[q].parent = p /\ proc'[q].fig = m
      BY <1>4, <1>6, <2>1
    <3> QED BY <2>1, <3>1, <3>2, <3>3
  <2>2. CASE q # n
    <3>1. q # v /\ Alive(q) /\ proc'[q].fig = proc[q].fig
      BY <1>8, <1>9, <2>2
    <3>2. proc'[q].parent = proc[q].parent /\ (Alive(v) => proc'[q].parent # v)
      BY <1>5, <1>6, <2>2, <3>1 DEF Adopter
    <3>3. /\ proc[q].parent \in Pids /\ proc[q].parent < q
          /\ Alive(proc[q].parent) /\ proc[proc[q].parent].fig = proc[q].fig
      BY <3>1, <3>2 DEF GroupInv, Parents
    <3>4. proc[q].parent \notin {n, v}
      BY <1>1, <3>2, <3>3
    <3> QED BY <1>8, <1>9, <3>1, <3>2, <3>3, <3>4
  <2> QED BY <2>1, <2>2
<1>15. Launches'
  <2>1. ~pipe[m] /\ shm[m].didProcessInit
    BY <1>0 DEF GroupInv, Launches, Owners
  <2>2. \A g \in Figureheads : Fresh(g) => g # m /\ Fresh(g)'
    BY <1>7, <2>1 DEF Fresh
  <2>3. ASSUME NEW g \in Figureheads
        PROVE  /\ fig[g] \in {"start", "init"} => Fresh(g)'
               /\ fig[g] \in {"start", "refused", "init", "gaveUp"}
                    => ~pipe[g] /\ \A q \in Pids : proc'[q].fig # g
               /\ pipe[g] => \A q \in Pids : Alive(q)' /\ proc'[q].fig = g => proc'[q].pc = "noexec"
    <3>1. CASE g = m
      BY <1>0, <2>1, <3>1
    <3>2. CASE g # m
      <4>1. \A q \in Pids : proc'[q].fig = g =>
              proc[q].fig = g /\ proc'[q].pc = proc[q].pc /\ (Alive(q)' <=> Alive(q))
        BY <1>4, <1>5, <1>6, <1>8, <1>9, <3>2
      <4> QED BY <2>2, <3>2, <4>1 DEF GroupInv, Launches
    <3> QED BY <3>1, <3>2
  <2>4. ASSUME NEW q \in Pids, Unplaced(q)'
        PROVE  /\ Fresh(proc[q].fig)' /\ proc'[q].fig = proc[q].fig
               /\ \A r \in Pids : proc'[r].fig = proc'[q].fig => r = q
    <3>1. Unplaced(q) /\ q \notin {n, v}
      BY <1>8, <2>4
    <3>2. proc[q].fig \in Figureheads
      BY <3>1 DEF GroupInv, Memberships, Belongs, Unplaced, Alive, Ended
    <3>3. Fresh(proc[q].fig) /\ \A r \in Pids : proc[r].fig = proc[q].fig => r = q
      BY <3>1 DEF GroupInv, Launches
    <3>4. proc[q].fig # m /\ Fresh(proc[q].fig)' /\ proc'[q].fig = proc[q].fig
      BY <1>9, <2>2, <3>1, <3>2, <3>3
    <3>5. \A r \in Pids : proc'[r].fig = proc[q].fig => r = q
      BY <1>4, <1>5, <1>6, <1>9, <3>3, <3>4
    <3> QED BY <3>4, <3>5
  <2>5. ASSUME NEW q \in Pids, proc'[q].pc \in {"noexec", "failed"}
        PROVE  pipe[proc'[q].fig]
    <3>1. q # n
      BY <1>4, <1>6, <2>5
    <3>2. q = v => proc[v].pc = "failed"
      BY <1>2, <1>5, <1>6, <2>5 DEF Ended
    <3> QED BY <1>2, <1>5, <1>6, <1>9, <2>5, <3>1, <3>2 DEF GroupInv, Launches
  <2> QED BY <1>3, <2>3, <2>4, <2>5 DEF Launches
<1>16. Memory'
  <2> SUFFICES ASSUME NEW g \in Figureheads, NEW t \in AllSlots, NEW q \in Pids,
                      shm'[g].procs[t].pid = q
               PROVE  proc'[q].fig = g /\ (Alive(q)' => proc'[q].slot = t)
    BY DEF Memory
  <2>1. g # m \/ t # s
    BY <1>7 DEF Pids
  <2>2. proc[q].fig = g /\ (Alive(q) => proc[q].slot = t)
    BY <1>7, <2>1 DEF GroupInv, Memory
  <2>3. q # n
    BY <1>1, <2>2
  <2>4. CASE q = v
    BY <1>2, <1>5, <1>6, <1>8, <2>2, <2>4
  <2>5. CASE q # v
    BY <1>8, <1>9, <2>2, <2>3, <2>5
  <2> QED BY <2>4, <2>5
<1>17. Owners'
  <2>1. \A g \in Figureheads : Slots(g)' = Slots(g)
    BY <1>7 DEF Slots
  <2> SUFFICES ASSUME NEW q \in Pids
               PROVE  /\ Unplaced(q)' => proc'[q].slot = NoSlot
                      /\ Alive(q)' /\ ~Unplaced(q)' =>
                           /\ proc'[q].slot \in AllSlots
                           /\ \E g \in Figureheads :
                                /\ proc'[q].fig = g /\ proc'[q].slot \in Slots(g)'
                                /\ shm'[g].didProcessInit
    BY DEF Owners
  <2>2. CASE q = n
    <3>1. shm[m].didProcessInit /\ s \in Slots(m)
      BY <1>0 DEF GroupInv, Owners
    <3>2. proc'[n].slot = s /\ proc'[n].fig = m /\ ~Unplaced(n)'
      BY <1>4, <1>6, <1>8
    <3>3. s \in Slots(m)' /\ shm'[m].didProcessInit /\ s \in AllSlots /\ m \in Figureheads
      BY <1>0, <1>7, <2>1, <3>1
    <3> QED BY <2>2, <3>2, <3>3
  <2>3. CASE q = v
    BY <1>8, <2>3
  <2>4. CASE q \notin {n, v}
    <3>1. /\ Unplaced(q) => proc[q].slot = NoSlot
          /\ Alive(q) /\ ~Unplaced(q) => /\ proc[q].slot \in AllSlots
                                         /\ proc[q].slot \in Slots(proc[q].fig)
                                         /\ shm[proc[q].fig].didProcessInit
                                         /\ proc[q].fig \in Figureheads
      BY DEF GroupInv, Owners, Memberships, Belongs
    <3>2. /\ proc'[q].fig = proc[q].fig /\ proc'[q].slot = proc[q].slot
          /\ Unplaced(q)' <=> Unplaced(q)
          /\ Alive(q)' <=> Alive(q)
      BY <1>8, <1>9, <2>4
    <3> QED BY <1>7, <2>1, <3>1, <3>2
  <2> QED BY <2>2, <2>3, <2>4
<1>18. OneProcessPerSlot'
  <2> SUFFICES ASSUME NEW q \in Pids, Alive(q)', proc'[q].slot # NoSlot
               PROVE  /\ shm'[proc'[q].fig].procs[proc'[q].slot].pid
                           = IF proc'[q].pc \in {"bornInit", "bornCopy"} THEN 0 ELSE q
                      /\ \A r \in Pids : Alive(r)' /\ r # q /\ proc'[r].fig = proc'[q].fig
                                           => proc'[r].slot # proc'[q].slot
    BY DEF OneProcessPerSlot
  <2>1. ASSUME NEW r \in Pids, Alive(r)', r # n, proc'[r].slot # NoSlot
        PROVE  /\ r \notin {n, v} /\ Alive(r) /\ proc[r].slot # NoSlot
               /\ proc[r].fig \in Figureheads /\ proc[r].slot \in AllSlots
               /\ proc[r].fig # m \/ proc[r].slot # s
    <3>1. r \notin {n, v} /\ Alive(r) /\ proc[r].slot # NoSlot
      BY <1>8, <1>9, <2>1
    <3>2. proc[r].fig \in Figureheads /\ proc[r].slot \in AllSlots
      BY <3>1 DEF GroupInv, Memberships, Belongs, Owners
    <3>3. shm[proc[r].fig].procs[proc[r].slot].pid \in {0, r}
      BY <3>1 DEF GroupInv, OneProcessPerSlot
    <3>4. v # 0 /\ v # r /\ v = shm[m].procs[s].pid
      BY <1>0, <3>1 DEF Pids
    <3> QED BY <3>1, <3>2, <3>3, <3>4
  <2>2. s # NoSlot
    BY <1>0 DEF AllSlots, NoSlot
  <2>3. CASE q = n
    BY <1>4, <1>6, <1>7, <1>9, <2>1, <2>2, <2>3
  <2>4. CASE q # n
    <3>1. /\ q \notin {n, v} /\ Alive(q) /\ proc[q].slot # NoSlot
          /\ proc[q].fig \in Figureheads /\ proc[q].slot \in AllSlots
          /\ proc[q].fig # m \/ proc[q].slot # s
      BY <2>1, <2>4
    <3>2. /\ shm[proc[q].fig].procs[proc[q].slot].pid
               = IF proc[q].pc \in {"bornInit", "bornCopy"} THEN 0 ELSE q
          /\ \A r \in Pids : Alive(r) /\ r # q /\ proc[r].fig = proc[q].fig
                               => proc[r].slot # proc[q].slot
      BY <3>1 DEF GroupInv, OneProcessPerSlot
    <3>3. shm'[proc[q].fig].procs[proc[q].slot] = shm[proc[q].fig].procs[proc[q].slot]
      BY <1>7, <3>1
    <3>4. ASSUME NEW r \in Pids, Alive(r)', r # q, proc'[r].fig = proc[q].fig
          PROVE  proc'[r].slot # proc[q].slot
      <4>1. CASE r = n
        BY <1>4, <1>6, <3>1, <3>4, <4>1
      <4>2. CASE r # n
        BY <1>8, <1>9, <3>2, <3>4, <4>2
      <4> QED BY <4>1, <4>2
    <3> QED BY <1>9, <3>1, <3>2, <3>3, <3>4, SMTT(30)
  <2> QED BY <2>3, <2>4
<1>19. Configured'
  <2>1. ASSUME NEW q \in Pids, proc'[q].pc = "pin"
        PROVE  shm'[proc'[q].fig].procs[proc'[q].slot].insidePLR
    <3>1. q \notin {n, v} /\ proc[q].pc = "pin"
      BY <1>4, <1>5, <1>6, <1>9, <2>1 DEF Ended
    <3>2. Alive(q) /\ ~Unplaced(q)
      BY <3>1 DEF Alive, Ended, Unplaced
    <3>3. proc[q].fig \in Figureheads /\ proc[q].slot \in AllSlots /\ proc[q].slot # NoSlot
      BY <3>2 DEF GroupInv, Memberships, Belongs, Owners, AllSlots, NoSlot
    <3>4. shm[proc[q].fig].procs[proc[q].slot].pid = q
      BY <3>1, <3>2, <3>3 DEF GroupInv, OneProcessPerSlot
    <3>5. proc[q].fig # m \/ proc[q].slot # s
      BY <1>0, <3>1, <3>4
    <3>6. shm[proc[q].fig].procs[proc[q].slot].insidePLR
      BY <3>1 DEF GroupInv, Configured
    <3> QED BY <1>7, <1>9, <3>1, <3>3, <3>5, <3>6
  <2> QED BY <1>3, <1>7, <2>1, ZenonT(40) DEF GroupInv, Configured
<1>20. DeadlineKept'
  <2> SUFFICES ASSUME NEW q \in Pids, proc'[q].wait # NoWait
               PROVE  proc'[q].wait = proc[q].wait /\ proc'[q].fig = proc[q].fig
    BY <1>3 DEF GroupInv, DeadlineKept
  <2> QED BY <1>2, <1>4, <1>5, <1>6, <1>9
<1> QED
  BY <1>10, <1>11, <1>12, <1>13, <1>14, <1>15, <1>16, <1>17, <1>18, <1>19, <1>20 DEF GroupInv

-----------------------------------------------------------------------------
(* Each action is of one of these kinds.                                   *)

LEMMA MemoryUntouched ==
  ASSUME GroupInv, NEW p \in Pids, UNCHANGED shm
  PROVE  OwnFlags(p)
BY DEF GroupInv, GroupTypeOK, OwnFlags

Written(m, s, d) == shm' = [shm EXCEPT ![m].procs = [@ EXCEPT ![s] = d]]

\* A process writes to its own slot: not its pid.
LEMMA SlotWritten ==
  ASSUME GroupInv, NEW p \in Pids, NEW m \in Figureheads, NEW s \in AllSlots,
         m = proc[p].fig, s = proc[p].slot, NEW d \in ProcData, d.pid = shm[m].procs[s].pid,
         Written(m, s, d)
  PROVE  OwnFlags(p)
<1>1. shm \in [Figureheads -> Shm]
  BY DEF GroupInv, GroupTypeOK
<1>2. shm[m] \in Shm /\ shm[m].procs \in [AllSlots -> ProcData]
  BY <1>1 DEF Shm, AllSlots
<1>3. /\ shm'[m] = [shm[m] EXCEPT !.procs = [@ EXCEPT ![s] = d]]
      /\ \A g \in Figureheads : g # m => shm'[g] = shm[g]
      /\ shm' = [g \in Figureheads |-> shm'[g]]
  BY <1>1 DEF Written
<1>4. /\ [shm[m].procs EXCEPT ![s] = d] \in [AllSlots -> ProcData]
      /\ [shm[m].procs EXCEPT ![s] = d][s] = d
      /\ \A t \in AllSlots : t # s => [shm[m].procs EXCEPT ![s] = d][t] = shm[m].procs[t]
  BY <1>2
<1>5. /\ shm'[m] \in Shm /\ shm'[m].procs = [shm[m].procs EXCEPT ![s] = d]
      /\ shm'[m].nProc = shm[m].nProc
      /\ shm'[m].didProcessInit = shm[m].didProcessInit
      /\ shm'[m].insidePLRInitTrue = shm[m].insidePLRInitTrue
      /\ shm'[m].watchdogTimeout = shm[m].watchdogTimeout
  BY <1>2, <1>3, <1>4 DEF Shm, AllSlots
<1>6. shm' \in [Figureheads -> Shm]
  <2>1. \A g \in Figureheads : shm'[g] \in Shm
    BY <1>1, <1>3, <1>5
  <2> QED BY <1>3, <2>1
<1>7. \A t \in AllSlots :
        /\ shm'[m].procs[t].pid = shm[m].procs[t].pid
        /\ t # s => shm'[m].procs[t].insidePLR = shm[m].procs[t].insidePLR
  BY <1>4, <1>5
<1>8. ASSUME NEW g \in Figureheads
      PROVE  /\ shm'[g].nProc = shm[g].nProc
             /\ shm'[g].didProcessInit = shm[g].didProcessInit
             /\ shm'[g].insidePLRInitTrue = shm[g].insidePLRInitTrue
             /\ shm'[g].watchdogTimeout = shm[g].watchdogTimeout
             /\ \A t \in AllSlots :
                  /\ shm'[g].procs[t].pid = shm[g].procs[t].pid
                  /\ g # m \/ t # s => shm'[g].procs[t].insidePLR = shm[g].procs[t].insidePLR
  <2>1. CASE g = m
    BY <1>5, <1>7, <2>1
  <2>2. CASE g # m
    BY <1>3, <2>2
  <2> QED BY <2>1, <2>2
<1> QED BY <1>6, <1>8 DEF OwnFlags

\* insidePLR and shmFd are no pids.
LEMMA FlagTypes ==
  ASSUME GroupInv, NEW m \in Figureheads, NEW s \in AllSlots, NEW b \in BOOLEAN
  PROVE  LET slot == shm[m].procs[s] IN
         /\ slot \in ProcData
         /\ [slot EXCEPT !.insidePLR = b] \in ProcData
         /\ [slot EXCEPT !.insidePLR = b].pid = slot.pid
         /\ [slot EXCEPT !.open = b] \in ProcData
         /\ [slot EXCEPT !.open = b].pid = slot.pid
<1>1. shm[m].procs[s] \in ProcData
  BY DEF GroupInv, GroupTypeOK, Shm, AllSlots
<1> QED BY <1>1 DEF ProcData

\* A process in a wrapper or in the program: where it belongs.
LEMMA InProgram ==
  ASSUME GroupInv, NEW p \in Pids, proc[p].pc \in {"app", "plr", "pin"}
  PROVE  /\ Alive(p) /\ ~Unplaced(p)
         /\ proc[p].fig \in Figureheads /\ proc[p].maps = proc[p].fig /\ file = proc[p].fig
         /\ proc[p].slot \in AllSlots
         /\ OwnSlots(proc[p].fig, p) = {proc[p].slot}
         /\ fig[proc[p].fig] \notin {"start", "refused"}
<1>1. Alive(p) /\ ~Unplaced(p)
  BY DEF Alive, Ended, Unplaced
<1>2. file = proc[p].fig
  BY <1>1, FileFound DEF FileOutlivesGroup
<1>3. /\ proc[p].fig \in Figureheads /\ proc[p].maps = proc[p].fig
      /\ fig[proc[p].fig] \notin {"start", "refused"}
  BY <1>1 DEF GroupInv, Memberships, Belongs
<1> QED BY <1>1, <1>2, <1>3, SlotFound

LEMMA ExecKeeps == ASSUME GroupInv, NEW p \in Pids, Exec(p) PROVE GroupInv'
<1>1. proc[p].pc = "fork" /\ proc' = [proc EXCEPT ![p].pc = "image"]
      /\ UNCHANGED <<env, file, fig, pipe, shm>>
  BY DEF Exec
<1>2. Alive(p) /\ Unplaced(p) /\ proc[p].slot = NoSlot /\ Belongs(p)
  BY <1>1 DEF Alive, Ended, Unplaced, GroupInv, Owners, Memberships
<1>3. /\ proc' \in [Pids -> Processes] /\ proc'[p] = [proc[p] EXCEPT !.pc = "image"]
      /\ proc[p] \in Processes /\ \A q \in Pids : q # p => proc'[q] = proc[q]
  BY <1>1, "image" \in PCs DEF GroupInv, GroupTypeOK, Processes, PCs
<1>4. /\ proc'[p].pc = "image" /\ proc'[p].fig = proc[p].fig /\ proc'[p].parent = proc[p].parent
      /\ proc'[p].slot = proc[p].slot /\ proc'[p].maps = proc[p].maps /\ proc'[p].wait = proc[p].wait
  BY <1>3 DEF Processes
<1>5. GoesOn(p)
  BY <1>1, <1>2, <1>3, <1>4 DEF GoesOn, Alive, Ended, Unplaced, Belongs
<1> QED BY <1>1, <1>5, MemoryUntouched, GoesOnKeeps DEF GroupInv, GroupTypeOK

\* Nobody fails in plr_processInit.
LEMMA ProcessInitKeeps == ASSUME GroupInv, NEW p \in Pids, ProcessInit(p) PROVE GroupInv'
<1>1. proc[p].pc = "image" /\ UNCHANGED <<env, file, fig, pipe, shm>>
  BY DEF ProcessInit
<1>2. Alive(p) /\ Belongs(p)
  BY <1>1 DEF Alive, Ended, GroupInv, Memberships
<1>3. PICK m \in Figureheads : m = file /\ m = proc[p].fig /\ m # NoFile
  BY <1>1, <1>2, FileFound DEF FileOutlivesGroup, Belongs
<1>4. proc[p] \in Processes /\ proc \in [Pids -> Processes]
  BY DEF GroupInv, GroupTypeOK
<1>5. CASE Unplaced(p)
  <2>1. ~shm[m].didProcessInit /\ proc[p].slot = NoSlot
    BY <1>3, <1>5 DEF GroupInv, Launches, Fresh, Owners
  <2>2. proc' = [proc EXCEPT ![p].pc = "first", ![p].maps = m]
    BY <1>3, <2>1 DEF ProcessInit
  <2>3. /\ proc' \in [Pids -> Processes]
        /\ proc'[p] = [proc[p] EXCEPT !.pc = "first", !.maps = m]
        /\ \A q \in Pids : q # p => proc'[q] = proc[q]
    BY <1>4, <2>2, "first" \in PCs DEF Processes, PCs
  <2>4. /\ proc'[p].pc = "first" /\ proc'[p].fig = m /\ proc'[p].parent = proc[p].parent
        /\ proc'[p].slot = NoSlot /\ proc'[p].maps = m /\ proc'[p].wait = proc[p].wait
    BY <1>3, <1>4, <2>1, <2>3 DEF Processes
  <2>5. GoesOn(p)
    BY <1>1, <1>2, <1>3, <1>5, <2>1, <2>3, <2>4 DEF GoesOn, Alive, Ended, Unplaced
  <2> QED BY <1>1, <2>5, MemoryUntouched, GoesOnKeeps DEF GroupInv, GroupTypeOK
<1>6. CASE ~Unplaced(p)
  <2>1. /\ shm[m].didProcessInit /\ OwnSlots(m, p) = {proc[p].slot}
    BY <1>1, <1>2, <1>3, <1>6, SlotFound DEF GroupInv, Owners
  <2>2. (CHOOSE s \in OwnSlots(m, p) : TRUE) = proc[p].slot
    BY <2>1
  <2>3. proc' = [proc EXCEPT ![p].pc = "app", ![p].maps = m, ![p].slot = proc[p].slot]
    BY <1>3, <2>1, <2>2 DEF ProcessInit
  <2>4. proc'[p] = [proc[p] EXCEPT !.pc = "app", !.maps = m]
        /\ \A q \in Pids : q # p => proc'[q] = proc[q]
    BY <1>4, <2>3 DEF Processes
  <2>5. [proc[p] EXCEPT !.pc = "app", !.maps = m] \in Processes
    BY <1>4, "app" \in PCs DEF Processes, PCs
  <2>6. proc' \in [Pids -> Processes]
    BY <1>4, <2>3, <2>4, <2>5
  <2>7. /\ proc'[p].pc = "app" /\ proc'[p].fig = m /\ proc'[p].parent = proc[p].parent
        /\ proc'[p].slot = proc[p].slot /\ proc'[p].maps = m /\ proc'[p].wait = proc[p].wait
    BY <1>3, <1>4, <2>4 DEF Processes
  <2>8. GoesOn(p)
    BY <1>1, <1>2, <1>3, <1>6, <2>4, <2>6, <2>7 DEF GoesOn, Alive, Ended, Unplaced
  <2> QED BY <1>1, <2>8, MemoryUntouched, GoesOnKeeps DEF GroupInv, GroupTypeOK
<1> QED BY <1>5, <1>6

LEMMA ApplicationStartKeeps == ASSUME GroupInv, NEW p \in Pids, ApplicationStart(p) PROVE GroupInv'
<1>1. proc[p].pc = "pin" /\ UNCHANGED <<env, file, fig, pipe>>
  BY DEF ApplicationStart
<1>2. PICK m \in Figureheads, s \in AllSlots :
        /\ m = proc[p].fig /\ m = file /\ s = proc[p].slot /\ m # NoFile
        /\ OwnSlots(m, p) = {s} /\ Alive(p) /\ ~Unplaced(p)
  BY <1>1, InProgram
<1>3. shm[m].procs[s].insidePLR
  BY <1>1, <1>2 DEF GroupInv, Configured
<1>4. (CHOOSE t \in OwnSlots(m, p) : TRUE) = s
  BY <1>2
<1>5. /\ shm' = [shm EXCEPT ![m].procs[s].insidePLR = FALSE]
      /\ proc' = [proc EXCEPT ![p].pc = "image", ![p].maps = NoFile]
  BY <1>2, <1>3, <1>4 DEF ApplicationStart
<1>6. OwnFlags(p)
  <2> DEFINE d == [shm[m].procs[s] EXCEPT !.insidePLR = FALSE]
  <2>1. d \in ProcData /\ d.pid = shm[m].procs[s].pid
    BY FlagTypes
  <2>2. Written(m, s, d)
    BY <1>5 DEF Written
  <2> HIDE DEF d
  <2> QED BY <1>2, <2>1, <2>2, SlotWritten
<1>7. proc[p] \in Processes /\ proc \in [Pids -> Processes]
  BY DEF GroupInv, GroupTypeOK
<1>8. /\ proc' \in [Pids -> Processes]
      /\ proc'[p] = [proc[p] EXCEPT !.pc = "image", !.maps = NoFile]
      /\ \A q \in Pids : q # p => proc'[q] = proc[q]
  BY <1>5, <1>7, "image" \in PCs DEF Processes, PCs
<1>9. /\ proc'[p].pc = "image" /\ proc'[p].fig = m /\ proc'[p].parent = proc[p].parent
      /\ proc'[p].slot = s /\ proc'[p].maps = NoFile /\ proc'[p].wait = proc[p].wait
  BY <1>2, <1>7, <1>8 DEF Processes
<1>10. s # NoSlot
  BY DEF AllSlots, NoSlot
<1>11. GoesOn(p)
  BY <1>1, <1>2, <1>8, <1>9, <1>10 DEF GoesOn, Alive, Ended, Unplaced
<1> QED BY <1>1, <1>6, <1>11, GoesOnKeeps DEF GroupInv, GroupTypeOK

LEMMA EnterKeeps == ASSUME GroupInv, NEW p \in Pids, EnterPLR(p) PROVE GroupInv'
<1>1. proc[p].pc = "app" /\ UNCHANGED <<env, file, fig, pipe>>
  BY DEF EnterPLR
<1>2. PICK m \in Figureheads, s \in AllSlots :
        /\ m = proc[p].fig /\ m = proc[p].maps /\ s = proc[p].slot
        /\ Alive(p) /\ ~Unplaced(p) /\ fig[m] \notin {"start", "refused"}
  BY <1>1, InProgram
<1> DEFINE until(now) == tspecAddMs(now, shm[m].watchdogTimeout)
           wait(now) == [from |-> now, until |-> until(now)]
<1>3. PICK now \in Times : proc' = [proc EXCEPT ![p].pc = "plr", ![p].wait = wait(now)]
  BY <1>2 DEF EnterPLR
<1>4. /\ shm[m].watchdogTimeout \in Nat
      /\ shm[m].watchdogTimeout = env.opts[m].watchdogTimeout
  BY <1>2 DEF GroupInv, GroupTypeOK, Shm, Configured
<1>5. /\ Normal(until(now)) /\ Nanos(until(now)) = Nanos(now) + shm[m].watchdogTimeout * NsPerMs
      /\ Normal(now)
  BY <1>4, TimesAssumption, DeadlineExact
<1>6. Nanos(until(now)) - Nanos(now) = shm[m].watchdogTimeout * NsPerMs
  <2>1. Nanos(now) \in Int
    BY <1>5, NsPerSecPositive DEF Nanos, Normal, Timespec
  <2>2. shm[m].watchdogTimeout * NsPerMs \in Int
    BY <1>4, UnitsAssumption
  <2> HIDE DEF until
  <2> QED BY <1>5, <2>1, <2>2
<1> HIDE DEF until
<1>7. wait(now) \in Waits /\ wait(now).from = now /\ wait(now).until = until(now)
  BY <1>5 DEF Waits, Normal
<1> HIDE DEF wait
<1>8. OwnFlags(p)
  <2> DEFINE d == [shm[m].procs[s] EXCEPT !.insidePLR = TRUE]
  <2>1. d \in ProcData /\ d.pid = shm[m].procs[s].pid
    BY FlagTypes
  <2>2. Written(m, s, d)
    BY <1>2 DEF EnterPLR, Written
  <2> HIDE DEF d
  <2> QED BY <1>2, <2>1, <2>2, SlotWritten
<1>9. proc[p] \in Processes /\ proc \in [Pids -> Processes]
  BY DEF GroupInv, GroupTypeOK
<1>10. /\ proc' \in [Pids -> Processes]
       /\ proc'[p] = [proc[p] EXCEPT !.pc = "plr", !.wait = wait(now)]
       /\ \A q \in Pids : q # p => proc'[q] = proc[q]
  BY <1>3, <1>7, <1>9, "plr" \in PCs DEF Processes, PCs
<1>11. /\ proc'[p].pc = "plr" /\ proc'[p].fig = m /\ proc'[p].parent = proc[p].parent
       /\ proc'[p].slot = s /\ proc'[p].maps = m /\ proc'[p].wait = wait(now)
  BY <1>2, <1>9, <1>10 DEF Processes
<1>12. GoesOn(p)
  BY <1>1, <1>2, <1>4, <1>5, <1>6, <1>7, <1>10, <1>11 DEF GoesOn, Alive, Ended, Unplaced
<1> QED BY <1>1, <1>8, <1>12, GoesOnKeeps DEF GroupInv, GroupTypeOK

LEMMA LeaveWrapperKeeps == ASSUME GroupInv, NEW p \in Pids, LeavePLR(p) PROVE GroupInv'
<1>1. /\ proc[p].pc = "plr" /\ proc' = [proc EXCEPT ![p].pc = "app", ![p].wait = NoWait]
      /\ UNCHANGED <<env, file, fig, pipe>>
  BY DEF LeavePLR
<1>2. PICK m \in Figureheads, s \in AllSlots :
        /\ m = proc[p].fig /\ m = proc[p].maps /\ s = proc[p].slot /\ Alive(p) /\ ~Unplaced(p)
  BY <1>1, InProgram
<1>3. OwnFlags(p)
  <2> DEFINE d == [shm[m].procs[s] EXCEPT !.insidePLR = FALSE]
  <2>1. d \in ProcData /\ d.pid = shm[m].procs[s].pid
    BY FlagTypes
  <2>2. Written(m, s, d)
    BY <1>2 DEF LeavePLR, Written
  <2> HIDE DEF d
  <2> QED BY <1>2, <2>1, <2>2, SlotWritten
<1>4. proc[p] \in Processes /\ proc \in [Pids -> Processes]
  BY DEF GroupInv, GroupTypeOK
<1>5. /\ proc' \in [Pids -> Processes]
      /\ proc'[p] = [proc[p] EXCEPT !.pc = "app", !.wait = NoWait]
      /\ \A q \in Pids : q # p => proc'[q] = proc[q]
  BY <1>1, <1>4, FreeTypes, "app" \in PCs DEF Processes, PCs
<1>6. /\ proc'[p].pc = "app" /\ proc'[p].fig = m /\ proc'[p].parent = proc[p].parent
      /\ proc'[p].slot = s /\ proc'[p].maps = m /\ proc'[p].wait = NoWait
  BY <1>2, <1>4, <1>5 DEF Processes
<1>7. GoesOn(p)
  BY <1>1, <1>2, <1>5, <1>6 DEF GoesOn, Alive, Ended, Unplaced
<1> QED BY <1>1, <1>3, <1>7, GoesOnKeeps DEF GroupInv, GroupTypeOK

\* The file is there whenever the extra shared memory is first used.
LEMMA OpenExtraShmKeeps == ASSUME GroupInv, NEW p \in Pids, OpenExtraShm(p) PROVE GroupInv'
<1>1. proc[p].pc = "plr" /\ UNCHANGED <<env, file, fig, pipe>>
  BY DEF OpenExtraShm
<1>2. PICK m \in Figureheads, s \in AllSlots :
        /\ m = proc[p].fig /\ m = proc[p].maps /\ m = file /\ s = proc[p].slot
        /\ Alive(p) /\ ~Unplaced(p)
  BY <1>1, InProgram
<1>3. UNCHANGED proc /\ shm' = [shm EXCEPT ![m].procs[s].open = TRUE]
  BY <1>2 DEF OpenExtraShm
<1>4. OwnFlags(p)
  <2> DEFINE d == [shm[m].procs[s] EXCEPT !.open = TRUE]
  <2>1. d \in ProcData /\ d.pid = shm[m].procs[s].pid
    BY FlagTypes
  <2>2. Written(m, s, d)
    BY <1>3 DEF Written
  <2> HIDE DEF d
  <2> QED BY <1>2, <2>1, <2>2, SlotWritten
<1>5. GoesOn(p)
  BY <1>1, <1>2, <1>3 DEF GoesOn, Alive, Ended, Unplaced, GroupInv, GroupTypeOK
<1> QED BY <1>1, <1>4, <1>5, GoesOnKeeps DEF GroupInv, GroupTypeOK

\* A process goes on with wrong data.
LEMMA FaultyKeeps ==
  ASSUME GroupInv, NEW p \in Pids, proc[p].pc \in {"image", "app", "plr"},
         proc' = [proc EXCEPT ![p].faulty = TRUE], UNCHANGED <<file, fig, pipe, shm>>,
         env'.opts = env.opts, \E runs \in SUBSET Figureheads : env' \in Environment(runs)
  PROVE  GroupInv'
<1>1. Alive(p) /\ Belongs(p)
  BY DEF Alive, Ended, GroupInv, Memberships
<1>2. proc[p] \in Processes /\ proc \in [Pids -> Processes]
  BY DEF GroupInv, GroupTypeOK
<1>3. /\ proc' \in [Pids -> Processes] /\ proc'[p] = [proc[p] EXCEPT !.faulty = TRUE]
      /\ \A q \in Pids : q # p => proc'[q] = proc[q]
  BY <1>2 DEF Processes
<1>4. /\ proc'[p].pc = proc[p].pc /\ proc'[p].fig = proc[p].fig
      /\ proc'[p].parent = proc[p].parent /\ proc'[p].slot = proc[p].slot
      /\ proc'[p].maps = proc[p].maps /\ proc'[p].wait = proc[p].wait
  BY <1>2, <1>3 DEF Processes
<1>5. GoesOn(p)
  BY <1>1, <1>3, <1>4 DEF GoesOn, Alive, Ended, Unplaced, Belongs
<1> QED BY <1>5, MemoryUntouched, GoesOnKeeps

LEMMA BirthInitKeeps == ASSUME GroupInv, NEW p \in Pids, BirthInit(p) PROVE GroupInv'
<1>1. proc[p].pc = "bornInit" /\ UNCHANGED <<env, file, fig, pipe>>
  BY DEF BirthInit
<1>2. Alive(p) /\ ~Unplaced(p)
  BY <1>1 DEF Alive, Ended, Unplaced
<1>3. PICK m \in Figureheads, s \in AllSlots :
        /\ m = proc[p].fig /\ m = proc[p].maps /\ s = proc[p].slot /\ shm[m].didProcessInit
        /\ fig[m] \notin {"start", "refused"}
  BY <1>1, <1>2 DEF GroupInv, Memberships, Belongs, Owners
<1> DEFINE d == [FreeProcData EXCEPT !.pid = p, !.insidePLR = StartsInside(m, FALSE)]
<1>4. /\ d \in ProcData /\ d.pid = p
      /\ d.insidePLR = shm[m].insidePLRInitTrue
  <2>1. PICK b \in BOOLEAN : b = shm[m].insidePLRInitTrue
    BY DEF GroupInv, GroupTypeOK, Shm
  <2>2. d = [FreeProcData EXCEPT !.pid = p, !.insidePLR = b]
    BY <2>1 DEF StartsInside
  <2> HIDE DEF d
  <2>3. d = [pid |-> p, insidePLR |-> b, open |-> FALSE]
    BY <2>2 DEF FreeProcData
  <2>4. d.insidePLR = b
    BY <2>3
  <2> QED BY <2>1, <2>3, <2>4 DEF ProcData, Pids
<1>5. /\ shm' = [shm EXCEPT ![m].didProcessInit = TRUE, ![m].procs[s] = d]
      /\ \A q \in Pids : proc'[q] = IF q = p THEN [proc[p] EXCEPT !.pc = Started(p)] ELSE proc[q]
      /\ DOMAIN proc' = Pids /\ proc' = [q \in Pids |-> proc'[q]]
  BY <1>3 DEF BirthInit, ForksFor
<1> HIDE DEF d
<1>6. Started(p) \in {"pin", "app"} /\ (Started(p) = "pin" <=> env.opts[m].pintoolMode # "off")
  BY <1>3 DEF Started
<1>7. PICK where \in PCs : where = Started(p)
  BY <1>6 DEF PCs
<1>8. proc[p] \in Processes /\ proc'[p] = [proc[p] EXCEPT !.pc = where]
  BY <1>5, <1>7, RecordTypes DEF GroupInv
<1>9. /\ proc'[p].pc = where /\ proc'[p].fig = m /\ proc'[p].parent = proc[p].parent
      /\ proc'[p].maps = proc[p].maps /\ proc'[p].slot = s /\ proc'[p].wait = proc[p].wait
  BY <1>3, <1>8, ZenonT(30) DEF Processes
<1>10. proc' \in [Pids -> Processes]
  <2>1. proc'[p] \in Processes
    BY <1>7, <1>8 DEF Processes
  <2>2. \A q \in Pids : proc'[q] \in Processes
    BY <1>5, <2>1, RecordTypes DEF GroupInv
  <2> QED BY <1>5, <2>2
<1>11. Started(p) = "pin" => d.insidePLR
  BY <1>3, <1>4, <1>6 DEF GroupInv, Configured
<1>12. /\ shm' \in [Figureheads -> Shm] /\ shm'[m].procs[s] = d
       /\ \A g \in Figureheads :
            /\ shm'[g].nProc = shm[g].nProc
            /\ shm'[g].didProcessInit = shm[g].didProcessInit
            /\ shm'[g].insidePLRInitTrue = shm[g].insidePLRInitTrue
            /\ shm'[g].watchdogTimeout = shm[g].watchdogTimeout
            /\ \A t \in AllSlots : g # m \/ t # s => shm'[g].procs[t] = shm[g].procs[t]
  <2>1. shm \in [Figureheads -> Shm] /\ shm[m].didProcessInit = TRUE
    BY <1>3 DEF GroupInv, GroupTypeOK, Shm
  <2>2. /\ shm'[m] = [shm[m] EXCEPT !.didProcessInit = TRUE, !.procs = [@ EXCEPT ![s] = d]]
        /\ \A g \in Figureheads : g # m => shm'[g] = shm[g]
        /\ shm' = [g \in Figureheads |-> shm'[g]]
    <3>1. shm' = [shm EXCEPT ![m].didProcessInit = TRUE, ![m].procs[s] = d]
      BY <1>5
    <3>2. DOMAIN shm = Figureheads /\ m \in Figureheads
      BY <2>1
    <3>3. shm'[m] = [shm[m] EXCEPT !.didProcessInit = TRUE, !.procs = [@ EXCEPT ![s] = d]]
      BY <3>1, <3>2
    <3>4. \A g \in Figureheads : g # m => shm'[g] = shm[g]
      BY <3>1, <3>2
    <3>5. shm' = [g \in Figureheads |-> shm'[g]]
      BY <3>1, <3>2
    <3> QED BY <3>3, <3>4, <3>5
  <2>3. shm[m] \in Shm /\ shm[m].procs \in [AllSlots -> ProcData]
    BY <2>1 DEF Shm, AllSlots
  <2>4. /\ [shm[m].procs EXCEPT ![s] = d] \in [AllSlots -> ProcData]
        /\ [shm[m].procs EXCEPT ![s] = d][s] = d
        /\ \A t \in AllSlots : t # s => [shm[m].procs EXCEPT ![s] = d][t] = shm[m].procs[t]
    BY <1>4, <2>3
  <2>5. /\ shm'[m] \in Shm /\ shm'[m].procs = [shm[m].procs EXCEPT ![s] = d]
        /\ shm'[m].nProc = shm[m].nProc
        /\ shm'[m].didProcessInit = shm[m].didProcessInit
        /\ shm'[m].insidePLRInitTrue = shm[m].insidePLRInitTrue
        /\ shm'[m].watchdogTimeout = shm[m].watchdogTimeout
    BY <2>1, <2>2, <2>3, <2>4, ZenonT(40) DEF Shm, AllSlots
  <2>6. shm' \in [Figureheads -> Shm]
    <3>1. \A g \in Figureheads : shm'[g] \in Shm
      BY <2>1, <2>2, <2>5
    <3> QED BY <2>2, <3>1
  <2> QED BY <2>2, <2>4, <2>5, <2>6
<1>13. TakesSlot(p, d)
  <2>1. proc'[p].pc \in {"pin", "app", "plr"} /\ (proc'[p].pc = "pin" => d.insidePLR)
    BY <1>6, <1>7, <1>9, <1>11
  <2>2. \A q \in Pids : q # p => proc'[q] = proc[q]
    BY <1>5
  <2> QED BY <1>1, <1>2, <1>3, <1>4, <1>9, <1>10, <1>12, <2>1, <2>2 DEF TakesSlot
<1> QED BY <1>13, TakesSlotKeeps

LEMMA BirthCopyKeeps == ASSUME GroupInv, NEW p \in Pids, BirthCopy(p) PROVE GroupInv'
<1> DEFINE d == [proc[p].copy EXCEPT !.pid = p]
<1>1. proc[p].pc = "bornCopy" /\ UNCHANGED <<env, file, fig, pipe>>
  BY DEF BirthCopy
<1>2. Alive(p) /\ ~Unplaced(p)
  BY <1>1 DEF Alive, Ended, Unplaced
<1>3. PICK m \in Figureheads, s \in AllSlots :
        m = proc[p].fig /\ m = proc[p].maps /\ s = proc[p].slot
  BY <1>1, <1>2 DEF GroupInv, Memberships, Belongs, Owners
<1>4. d \in ProcData /\ d.pid = p
  BY RecordTypes DEF GroupInv, ProcData, Pids
<1>5. /\ shm' = [shm EXCEPT ![m].procs[s] = d]
      /\ proc' = [proc EXCEPT ![p].pc = "plr", ![p].copy = FreeProcData]
  BY <1>3 DEF BirthCopy
<1> HIDE DEF d
<1>6. proc[p] \in Processes /\ proc \in [Pids -> Processes]
  BY DEF GroupInv, GroupTypeOK
<1>7. /\ proc' \in [Pids -> Processes]
      /\ proc'[p] = [proc[p] EXCEPT !.pc = "plr", !.copy = FreeProcData]
      /\ \A q \in Pids : q # p => proc'[q] = proc[q]
  BY <1>5, <1>6, FreeTypes, "plr" \in PCs DEF Processes, PCs
<1>8. /\ proc'[p].pc = "plr" /\ proc'[p].fig = m /\ proc'[p].parent = proc[p].parent
      /\ proc'[p].maps = proc[p].maps /\ proc'[p].slot = s /\ proc'[p].wait = proc[p].wait
  BY <1>3, <1>6, <1>7 DEF Processes
<1>9. /\ shm' \in [Figureheads -> Shm] /\ shm'[m].procs[s] = d
      /\ \A g \in Figureheads :
           /\ shm'[g].nProc = shm[g].nProc
           /\ shm'[g].didProcessInit = shm[g].didProcessInit
           /\ shm'[g].insidePLRInitTrue = shm[g].insidePLRInitTrue
           /\ shm'[g].watchdogTimeout = shm[g].watchdogTimeout
           /\ \A t \in AllSlots : g # m \/ t # s => shm'[g].procs[t] = shm[g].procs[t]
  <2>1. shm \in [Figureheads -> Shm]
    BY DEF GroupInv, GroupTypeOK
  <2> QED BY <1>3, <1>4, <1>5, <2>1, ZenonT(40) DEF Shm, AllSlots
<1>10. TakesSlot(p, d)
  BY <1>1, <1>2, <1>3, <1>4, <1>7, <1>8, <1>9 DEF TakesSlot
<1> QED BY <1>10, TakesSlotKeeps

-----------------------------------------------------------------------------
(* Steps of figureheads and of processes.                                  *)

\* What a step leaves to the processes ps, and to the memory of the runs.
OthersStay(ps) ==
  \A q \in ps : proc[q].pc # "none" => proc'[q].pc \in {proc[q].pc} \cup Ended

SizesStay ==
  \A m \in Figureheads : /\ fig'[m] = "start" => fig[m] = "start"
                         /\ fig[m] # "start" => shm'[m].nProc = shm[m].nProc

LEMMA FigureheadStep ==
  ASSUME GroupInv, NEW f \in Figureheads, FigureheadRuns(f) \/ KillFigurehead(f)
  PROVE  GroupInv' /\ OthersStay(Pids) /\ SizesStay
<1>0. fig \in [Figureheads -> FigPCs] /\ shm \in [Figureheads -> Shm]
  BY DEF GroupInv, GroupTypeOK
<1>1. ASSUME NEW to, Moves(f, to)
      PROVE  GroupInv' /\ OthersStay(Pids) /\ SizesStay
  BY <1>0, <1>1, MoveKeeps DEF Moves, OthersStay, SizesStay
<1>2. CASE plr_figureheadInit(f)
  <2>1. CASE file = NoFile
    <3>1. GroupInv'
      BY <1>2, <2>1, CreateKeeps
    <3>2. /\ fig' = [fig EXCEPT ![f] = "init"] /\ UNCHANGED proc /\ fig[f] = "start"
          /\ \A m \in Figureheads : m # f => shm'[m] = shm[m]
      BY <1>0, <1>2, <2>1 DEF plr_figureheadInit
    <3> QED BY <1>0, <3>1, <3>2 DEF OthersStay, SizesStay
  <2>2. CASE file # NoFile
    <3>1. Moves(f, "refused")
      BY <1>2, <2>2 DEF plr_figureheadInit, Moves
    <3> QED BY <1>1, <3>1
  <2> QED BY <2>1, <2>2
<1>3. CASE StartFirstProcess(f)
  <2>1. fig[f] = "init" /\ UNCHANGED <<env, file, pipe, shm>>
    BY <1>3 DEF StartFirstProcess
  <2>2. CASE /\ Room(1)
             /\ proc' = [proc EXCEPT ![Used + 1] =
                           [NoProc EXCEPT !.pc = "fork", !.fig = f, !.parent = f]]
             /\ fig' = [fig EXCEPT ![f] = "read"]
    <3>1. GroupInv'
      BY <2>1, <2>2, LaunchKeeps
    <3>2. Used + 1 \in Pids /\ proc[Used + 1].pc = "none" /\ proc \in [Pids -> Processes]
      BY <2>2, NextPid DEF GroupInv, GroupTypeOK
    <3>3. OthersStay(Pids)
      BY <2>2, <3>2 DEF OthersStay
    <3> QED BY <1>0, <2>1, <2>2, <3>1, <3>3 DEF SizesStay
  <2>3. CASE LaunchFailed(f) /\ UNCHANGED proc
    <3>1. \A p \in Pids : proc[p].fig # f
      BY <2>1 DEF GroupInv, Launches
    <3>2. Moves(f, "exit")
      BY <2>1, <2>3, <3>1 DEF LaunchFailed, Moves
    <3> QED BY <1>1, <3>2
  <2>4. CASE fig' = [fig EXCEPT ![f] = "gaveUp"] /\ UNCHANGED proc
    <3>1. Moves(f, "gaveUp")
      BY <2>1, <2>4 DEF Moves
    <3> QED BY <1>1, <3>1
  <2> QED BY <1>3, <2>2, <2>3, <2>4 DEF StartFirstProcess
<1>4. CASE ReadExecPipe(f)
  <2>1. fig[f] = "read" /\ UNCHANGED <<env, file, pipe, shm, proc>>
    BY <1>4 DEF ReadExecPipe
  <2>2. CASE pipe[f] /\ LaunchFailed(f)
    <3>1. \A p \in Pids : Alive(p) /\ proc[p].fig = f => proc[p].pc = "noexec"
      BY <2>2 DEF GroupInv, Launches
    <3>2. Moves(f, "exit")
      BY <2>1, <2>2, <3>1 DEF LaunchFailed, Moves
    <3> QED BY <1>1, <3>2
  <2>3. CASE fig' = [fig EXCEPT ![f] = "wait"]
    <3>1. Moves(f, "wait")
      BY <2>1, <2>3 DEF Moves
    <3> QED BY <1>1, <3>1
  <2> QED BY <1>4, <2>2, <2>3 DEF ReadExecPipe
<1>5. CASE WaitLoopEnds(f)
  <2>1. /\ fig[f] = "wait" /\ fig' = [fig EXCEPT ![f] = "exit"]
        /\ UNCHANGED <<env, file, pipe, shm, proc>>
        /\ \A p \in Pids : Alive(p) => proc[p].parent # f
    BY <1>5 DEF WaitLoopEnds
  <2> DEFINE left == {p \in Pids : Alive(p) /\ proc[p].fig = f}
  <2>2. left = {}
    <3> SUFFICES ASSUME left # {} PROVE FALSE
      OBVIOUS
    <3>1. left \in SUBSET Nat
      BY DEF Pids
    <3>2. PICK p \in left : \A q \in left : p <= q
      BY <3>1, LeastElement
    <3>3. proc[p].parent \in left /\ proc[p].parent < p /\ p \in Nat /\ proc[p].parent \in Nat
      BY <2>1 DEF GroupInv, Parents, FigRunning, Pids
    <3> QED BY <3>2, <3>3
  <2>3. Moves(f, "exit")
    BY <2>1, <2>2 DEF Moves
  <2> QED BY <1>1, <2>3
<1>6. CASE atexit_cleanupShm(f)
  <2>1. Leave(f, "over") /\ UNCHANGED env
    BY <1>6 DEF atexit_cleanupShm, Leave
  <2>2. GroupInv'
    BY <2>1, LeaveKeeps DEF GroupInv, GroupTypeOK
  <2> QED BY <1>0, <2>1, <2>2, RecordTypes DEF Leave, Orphaned, OthersStay, SizesStay, GroupInv, Processes
<1>7. CASE KillFigurehead(f)
  <2>1. Leave(f, "killed") /\ env' = [env EXCEPT !.kills = @ - 1] /\ env.kills > 0
    BY <1>7 DEF KillFigurehead, Leave
  <2>2. PICK runs \in SUBSET Figureheads : env \in Environment(runs)
    BY DEF GroupInv, GroupTypeOK
  <2>3. env'.opts = env.opts /\ env' \in Environment(runs)
    BY <2>1, <2>2 DEF Environment
  <2>4. GroupInv'
    BY <2>1, <2>3, LeaveKeeps
  <2> QED BY <1>0, <2>1, <2>4, RecordTypes DEF Leave, Orphaned, OthersStay, SizesStay, GroupInv, Processes
<1> QED BY <1>2, <1>3, <1>4, <1>5, <1>6, <1>7 DEF FigureheadRuns

\* A process that ends leaves the others what they are.
LEMMA EndStep ==
  ASSUME GroupInv, NEW p \in Pids, NEW how, Ends(p, how),
         UNCHANGED <<file, fig, pipe, shm>>, env'.opts = env.opts,
         \E runs \in SUBSET Figureheads : env' \in Environment(runs)
  PROVE  GroupInv' /\ OthersStay(Pids) /\ SizesStay /\ proc'[p].pc \in Ended
<1>1. GroupInv'
  BY EndKeeps
<1>2. \A q \in Pids : proc'[q].pc = IF q = p THEN how ELSE proc[q].pc
  <2> TAKE q \in Pids
  <2>1. Alive(p) /\ how \in Ended /\ proc' = Without(proc, p, how)
    BY DEF Ends
  <2>2. proc[q] \in Processes
    BY RecordTypes DEF GroupInv
  <2>3. CASE q = p
    BY <2>1, <2>3 DEF Without, NoProc
  <2>4. CASE q # p
    BY <2>1, <2>2, <2>4 DEF Without, Processes
  <2> QED BY <2>3, <2>4
<1>3. how \in Ended
  BY DEF Ends
<1> QED BY <1>1, <1>2, <1>3 DEF OthersStay, SizesStay

\* A process that finds its slot again goes on in the program.
LEMMA BackInProgram ==
  ASSUME GroupInv, NEW p \in Pids, ProcessInit(p), proc[p].slot # NoSlot
  PROVE  proc'[p].pc = "app"
<1>1. proc[p].pc = "image" /\ Alive(p) /\ ~Unplaced(p)
  BY DEF ProcessInit, Alive, Ended, Unplaced
<1>2. PICK m \in Figureheads : m = file /\ m = proc[p].fig /\ m # NoFile
  BY <1>1, FileFound DEF FileOutlivesGroup, GroupInv, Memberships, Belongs
<1>3. shm[m].didProcessInit /\ OwnSlots(m, p) # {}
  BY <1>1, <1>2, SlotFound DEF GroupInv, Owners
<1>4. proc'[p] = [proc[p] EXCEPT !.pc = "app", !.maps = m,
                                 !.slot = CHOOSE s \in OwnSlots(m, p) : TRUE]
  <2>1. proc \in [Pids -> Processes]
    BY DEF GroupInv, GroupTypeOK
  <2>2. proc' = [proc EXCEPT ![p].pc = "app", ![p].maps = m,
                             ![p].slot = CHOOSE s \in OwnSlots(m, p) : TRUE]
    BY <1>2, <1>3 DEF ProcessInit
  <2> QED BY <2>1, <2>2
<1> QED BY <1>4, RecordTypes DEF Processes, GroupInv

\* Any step of the program or of the library.
LEMMA ProcessStep ==
  ASSUME GroupInv, NEW p \in Pids, ProcessRuns(p)
  PROVE  /\ GroupInv' /\ OthersStay(Pids \ {p}) /\ SizesStay
         /\ proc[p].pc = "image" /\ proc[p].slot # NoSlot => proc'[p].pc = "app"
<1>0. /\ proc \in [Pids -> Processes] /\ shm \in [Figureheads -> Shm]
      /\ \E runs \in SUBSET Figureheads : env \in Environment(runs)
  BY DEF GroupInv, GroupTypeOK
<1>1. CASE Exec(p)
  <2>1. GroupInv'
    BY <1>1, ExecKeeps
  <2>2. proc[p].pc # "image"
    BY <1>1 DEF Exec
  <2> QED BY <1>0, <1>1, <2>1, <2>2 DEF Exec, OthersStay, SizesStay
<1>2. CASE ExecFails(p)
  <2>1. GroupInv'
    BY <1>2, ExecFailsKeeps
  <2>2. proc[p].pc # "image"
    BY <1>2 DEF ExecFails
  <2> QED BY <1>0, <1>2, <2>1, <2>2 DEF ExecFails, OthersStay, SizesStay
<1>3. CASE ExitNoExec(p)
  <2>1. proc[p].pc = "noexec" /\ Alive(p) /\ UNCHANGED <<env, file, fig, pipe, shm>>
    BY <1>3 DEF ExitNoExec, Alive, Ended
  <2>2. Ends(p, "failed")
    BY <1>3, <2>1 DEF ExitNoExec, Ends, Ended, GroupInv, Launches
  <2> QED BY <1>0, <2>1, <2>2, EndStep DEF OthersStay
<1>4. CASE ProcessInit(p)
  <2>1. GroupInv' /\ UNCHANGED <<fig, shm>>
    BY <1>4, ProcessInitKeeps DEF ProcessInit
  <2>2. proc[p].slot # NoSlot => proc'[p].pc = "app"
    BY <1>4, BackInProgram
  <2>3. OthersStay(Pids \ {p})
    <3> SUFFICES ASSUME NEW q \in Pids, q # p
                 PROVE  proc'[q].pc \in {proc[q].pc} \cup Ended
      BY DEF OthersStay
    <3>1. proc'[q] = proc[q] \/ proc'[q] = [proc[q] EXCEPT !.parent = Adopter(proc[q].fig)]
      BY <1>0, <1>4 DEF ProcessInit, Without
    <3> QED BY <1>0, <3>1 DEF Processes
  <2> QED BY <2>1, <2>2, <2>3 DEF SizesStay
<1>5. CASE StartGroup(p)
  <2>1. GroupInv' /\ proc[p].pc = "first" /\ UNCHANGED fig
    BY <1>5, StartGroupKeeps DEF StartGroup
  <2>2. OthersStay(Pids \ {p})
    <3> SUFFICES ASSUME NEW q \in Pids, q # p, proc[q].pc # "none"
                 PROVE  proc'[q] = proc[q]
      BY DEF OthersStay
    <3>1. q <= Used /\ Used \in Int
      BY PidsCounted DEF GroupInv
    <3>2. q \notin Used + 1 .. Used + shm[proc[p].maps].nProc - 1
      BY <3>1
    <3> QED BY <1>5, <3>2 DEF StartGroup
  <2>3. \A m \in Figureheads : shm'[m].nProc = shm[m].nProc
    BY <1>0, <1>5, ZenonT(40) DEF StartGroup, Shm
  <2> QED BY <2>1, <2>2, <2>3 DEF SizesStay
<1>6. CASE BirthInit(p)
  <2>1. GroupInv' /\ proc[p].pc = "bornInit" /\ UNCHANGED fig
    BY <1>6, BirthInitKeeps DEF BirthInit
  <2>2. \A q \in Pids : q # p => proc'[q] = proc[q]
    BY <1>6 DEF BirthInit, ForksFor
  <2>3. \A m \in Figureheads : shm'[m].nProc = shm[m].nProc
    BY <1>0, <1>6, ZenonT(40) DEF BirthInit, Shm
  <2> QED BY <2>1, <2>2, <2>3 DEF OthersStay, SizesStay
<1>7. CASE ApplicationStart(p)
  <2>1. GroupInv' /\ proc[p].pc = "pin" /\ UNCHANGED fig
    BY <1>7, ApplicationStartKeeps DEF ApplicationStart
  <2>2. OthersStay(Pids \ {p})
    <3> SUFFICES ASSUME NEW q \in Pids, q # p
                 PROVE  proc'[q].pc \in {proc[q].pc} \cup Ended
      BY DEF OthersStay
    <3>1. proc'[q] = proc[q] \/ proc'[q] = [proc[q] EXCEPT !.parent = Adopter(proc[q].fig)]
      BY <1>0, <1>7 DEF ApplicationStart, Without
    <3> QED BY <1>0, <3>1 DEF Processes
  <2>3. \A m \in Figureheads : shm'[m].nProc = shm[m].nProc
    <3>1. CASE UNCHANGED shm
      BY <3>1
    <3>2. CASE \E s \in Int :
                 shm' = [shm EXCEPT ![file].procs[s].insidePLR = FALSE]
      BY <1>0, <3>2 DEF Shm
    <3>3. CASE file # NoFile /\ \E s \in OwnSlots(file, p) : shm[file].procs[s].insidePLR
      <4>1. PICK s \in OwnSlots(file, p) : s = CHOOSE t \in OwnSlots(file, p) : TRUE
        BY <3>3
      <4>2. file \in Figureheads
        BY <3>3 DEF GroupInv, GroupTypeOK
      <4>3. s \in Int
        BY <1>0, <4>1, <4>2 DEF OwnSlots, Slots, Shm
      <4>4. shm' = [shm EXCEPT ![file].procs[s].insidePLR = FALSE]
        BY <1>7, <3>3, <4>1 DEF ApplicationStart
      <4> QED BY <3>2, <4>3, <4>4
    <3> QED BY <1>7, <3>1, <3>3 DEF ApplicationStart
  <2> QED BY <2>1, <2>2, <2>3 DEF SizesStay
<1>8. CASE BirthCopy(p)
  <2>1. GroupInv' /\ proc[p].pc = "bornCopy" /\ UNCHANGED fig
    BY <1>8, BirthCopyKeeps DEF BirthCopy
  <2>2. \A q \in Pids : q # p => proc'[q] = proc[q]
    BY <1>0, <1>8 DEF BirthCopy
  <2>3. \A m \in Figureheads : shm'[m].nProc = shm[m].nProc
    BY <1>0, <1>8 DEF BirthCopy, Shm
  <2> QED BY <2>1, <2>2, <2>3 DEF OthersStay, SizesStay
<1>9. CASE EnterPLR(p)
  <2>1. GroupInv' /\ proc[p].pc = "app" /\ UNCHANGED fig
    BY <1>9, EnterKeeps DEF EnterPLR
  <2>2. \A q \in Pids : q # p => proc'[q] = proc[q]
    BY <1>0, <1>9 DEF EnterPLR
  <2>3. \A m \in Figureheads : shm'[m].nProc = shm[m].nProc
    BY <1>0, <1>9 DEF EnterPLR, Shm
  <2> QED BY <2>1, <2>2, <2>3 DEF OthersStay, SizesStay
<1>10. CASE LeavePLR(p)
  <2>1. GroupInv' /\ proc[p].pc = "plr" /\ UNCHANGED fig
    BY <1>10, LeaveWrapperKeeps DEF LeavePLR
  <2>2. \A q \in Pids : q # p => proc'[q] = proc[q]
    BY <1>0, <1>10 DEF LeavePLR
  <2>3. \A m \in Figureheads : shm'[m].nProc = shm[m].nProc
    BY <1>0, <1>10 DEF LeavePLR, Shm
  <2> QED BY <2>1, <2>2, <2>3 DEF OthersStay, SizesStay
<1>11. CASE OpenExtraShm(p)
  <2>1. GroupInv' /\ proc[p].pc = "plr" /\ UNCHANGED fig
    BY <1>11, OpenExtraShmKeeps DEF OpenExtraShm
  <2>2. file # NoFile
    BY <2>1, InProgram
  <2>3. UNCHANGED proc
    BY <1>11, <2>2 DEF OpenExtraShm
  <2>4. PICK m \in {proc[p].maps}, s \in {proc[p].slot} :
               shm' = [shm EXCEPT ![m].procs[s].open = TRUE]
    BY <1>11, <2>2 DEF OpenExtraShm
  <2>5. \A f \in Figureheads : shm'[f].nProc = shm[f].nProc
    BY <1>0, <2>4 DEF Shm
  <2> QED BY <2>1, <2>3, <2>5 DEF OthersStay, SizesStay
<1>12. CASE Exit(p)
  <2>1. proc[p].pc = "app" /\ Alive(p) /\ UNCHANGED <<env, file, fig, pipe, shm>>
    BY <1>12 DEF Exit, Alive, Ended
  <2>2. Ends(p, "done")
    BY <1>12, <2>1 DEF Exit, Ends, Ended
  <2> QED BY <1>0, <2>1, <2>2, EndStep DEF OthersStay
<1>13. ASSUME NEW s \in Slots(proc[p].maps), plr_replaceProcessIdx(p, s)
       PROVE  /\ GroupInv' /\ OthersStay(Pids \ {p}) /\ SizesStay
              /\ proc[p].pc # "image"
  <2>1. GroupInv' /\ proc[p].pc = "plr" /\ UNCHANGED fig
    BY <1>13, ReplaceKeeps DEF plr_replaceProcessIdx
  <2>2. PICK n \in Pids : n = Used + 1 /\ proc[n].pc = "none"
    BY <1>13, NextPid DEF plr_replaceProcessIdx
  <2>3. OthersStay(Pids \ {p})
    <3> SUFFICES ASSUME NEW q \in Pids, q # p, q # n
                 PROVE  proc'[q].pc \in {proc[q].pc} \cup Ended
      BY <2>2 DEF OthersStay
    <3> DEFINE rest(v) == IF Alive(v) THEN Without(proc, v, "dead") ELSE proc
    <3>1. PICK v : v = shm[proc[p].maps].procs[s].pid
      OBVIOUS
    <3>2. PICK new : proc' = [rest(v) EXCEPT ![n] = new]
      BY <1>13, <2>2, <3>1 DEF plr_replaceProcessIdx
    <3>3. DOMAIN rest(v) = Pids
      BY <1>0 DEF Without
    <3>4. proc'[q] = rest(v)[q]
      <4> HIDE DEF rest
      <4> QED BY <3>2, <3>3
    <3>5. rest(v)[q] \in {proc[q], [proc[q] EXCEPT !.parent = Adopter(proc[q].fig)],
                         [NoProc EXCEPT !.pc = "dead", !.fig = proc[q].fig]}
      BY DEF Without
    <3>6. [NoProc EXCEPT !.pc = "dead", !.fig = proc[q].fig].pc \in Ended
      BY DEF NoProc, Ended
    <3>7. [proc[q] EXCEPT !.parent = Adopter(proc[q].fig)].pc = proc[q].pc
      BY <1>0 DEF Processes
    <3> HIDE DEF rest
    <3> QED BY <3>4, <3>5, <3>6, <3>7
  <2>4. PICK m \in {proc[p].maps} : shm' = [shm EXCEPT ![m].procs[s] = FreeProcData]
    BY <1>13 DEF plr_replaceProcessIdx
  <2>5. \A f \in Figureheads : shm'[f].nProc = shm[f].nProc
    BY <1>0, <2>4 DEF Shm
  <2> QED BY <2>1, <2>3, <2>5 DEF SizesStay
<1> QED
  BY <1>1, <1>2, <1>3, <1>4, <1>5, <1>6, <1>7, <1>8, <1>9, <1>10, <1>11, <1>12, <1>13
     DEF ProcessRuns, StartsUp

\* A fault, of the scenario or of the tool.
LEMMA FaultStep ==
  ASSUME GroupInv, NEW p \in Pids, Fault(p)
  PROVE  GroupInv' /\ OthersStay(Pids) /\ SizesStay
<1>1. /\ Alive(p) /\ env.crashes > 0 /\ env' = [env EXCEPT !.crashes = @ - 1]
      /\ UNCHANGED <<file, fig, pipe, shm>>
  BY DEF Fault
<1>2. /\ env'.opts = env.opts
      /\ \E runs \in SUBSET Figureheads : env' \in Environment(runs)
  <2>1. PICK runs \in SUBSET Figureheads : env \in Environment(runs)
    BY DEF GroupInv, GroupTypeOK
  <2> QED BY <1>1, <2>1 DEF Environment
<1>3. CASE proc' = Without(proc, p, "dead")
  <2>1. Ends(p, "dead")
    BY <1>1, <1>3 DEF Ends, Ended
  <2> QED BY <1>1, <1>2, <2>1, EndStep
<1>4. CASE proc[p].pc = "app" /\ proc' = [proc EXCEPT ![p].faulty = TRUE]
  <2>1. GroupInv'
    BY <1>1, <1>2, <1>4, FaultyKeeps
  <2>2. \A q \in Pids : proc'[q].pc = proc[q].pc
    BY <1>4, RecordTypes DEF GroupInv, GroupTypeOK, Processes
  <2> QED BY <1>1, <2>1, <2>2 DEF OthersStay, SizesStay
<1> QED BY <1>3, <1>4 DEF Fault

-----------------------------------------------------------------------------
(* The tool.                                                               *)

ToolData == [toolLock : 0 .. MaxPid, faultInjected : BOOLEAN,
             nextFaultIdx : Nat, nextFaultPid : 0 .. MaxPid,
             eventCount : Nat, targetCount : Nat]

\* Only a process in a program is in the tool; nobody is chosen before there is a group.
ToolInv ==
  /\ tool \in [Figureheads -> ToolData] /\ tpc \in [Pids -> ToolPCs]
  /\ \A m \in Figureheads : /\ tool[m].nextFaultIdx \in Slots(m) \cup {0}
                            /\ fig[m] = "start" => tool[m].nextFaultIdx = 0
  /\ \A p \in Pids : tpc[p] # "idle" => proc[p].pc \in {"image", "app", "plr"}

\* The tool waits while figureheads run.
LEMMA ToolWaits ==
  ASSUME ToolInv, UNCHANGED <<tool, tpc>>, OthersStay(Pids), SizesStay,
         \A p \in Pids : tpc[p] # "idle" => proc'[p].pc \notin Ended
  PROVE  ToolInv'
<1>1. \A m \in Figureheads : fig[m] # "start" => Slots(m)' = Slots(m)
  BY DEF SizesStay, Slots
<1>2. \A m \in Figureheads : /\ tool'[m].nextFaultIdx \in Slots(m)' \cup {0}
                             /\ fig'[m] = "start" => tool'[m].nextFaultIdx = 0
  BY <1>1 DEF ToolInv, SizesStay
<1>3. \A p \in Pids : tpc'[p] # "idle" => proc'[p].pc \in {"image", "app", "plr"}
  BY DEF ToolInv, OthersStay
<1> QED BY <1>2, <1>3 DEF ToolInv

\* After a step of the program the tool is where it was, or at its initial call.
LEMMA ToolFollowsKeeps ==
  ASSUME ToolInv, NEW p \in Pids, ToolFollows(p), SizesStay, OthersStay(Pids \ {p}),
         tpc[p] # "idle" => proc'[p].pc \in {proc[p].pc} \cup Ended,
         Instrumented(p) /\ proc[p].pc = "image" => proc'[p].pc \in {"app"} \cup Ended
  PROVE  ToolInv'
<1>1. \A m \in Figureheads : fig[m] # "start" => Slots(m)' = Slots(m)
  BY DEF SizesStay, Slots
<1>2. \A m \in Figureheads : /\ tool'[m].nextFaultIdx \in Slots(m)' \cup {0}
                             /\ fig'[m] = "start" => tool'[m].nextFaultIdx = 0
  BY <1>1 DEF ToolInv, SizesStay, ToolFollows
<1>3. tpc' \in [Pids -> ToolPCs]
  BY DEF ToolInv, ToolFollows, ToolPCs
<1>4. ASSUME NEW q \in Pids, tpc'[q] # "idle"
      PROVE  proc'[q].pc \in {"image", "app", "plr"}
  <2>1. proc'[q].pc \notin Ended
    BY <1>4 DEF ToolFollows
  <2>2. CASE q = p /\ Instrumented(p) /\ proc[p].pc = "image"
    BY <2>1, <2>2
  <2>3. CASE ~(q = p /\ Instrumented(p) /\ proc[p].pc = "image")
    <3>1. tpc[q] # "idle"
      BY <1>4, <2>1, <2>3 DEF ToolFollows
    <3>2. proc[q].pc \in {"image", "app", "plr"}
      BY <3>1 DEF ToolInv
    <3>3. proc'[q].pc = proc[q].pc
      BY <2>1, <3>1, <3>2 DEF OthersStay
    <3> QED BY <3>2, <3>3
  <2> QED BY <2>2, <2>3
<1> QED BY <1>2, <1>3, <1>4 DEF ToolInv, ToolFollows

\* What the tool writes to the memory of one run, in a step of process p.
ToolWrites(p, m, t, where) ==
  /\ tool' = [tool EXCEPT ![m] = t] /\ t \in ToolData /\ t.nextFaultIdx \in Slots(m) \cup {0}
  /\ where \in ToolPCs /\ tpc' = [tpc EXCEPT ![p] = where]

LEMMA ToolWritesKeeps ==
  ASSUME ToolInv, NEW p \in Pids, NEW m \in Figureheads, NEW t, NEW where,
         ToolWrites(p, m, t, where), fig[m] # "start", SizesStay, OthersStay(Pids),
         \A q \in Pids : tpc'[q] # "idle" => proc[q].pc \in {"image", "app", "plr"}
                                             /\ proc'[q].pc \notin Ended
  PROVE  ToolInv'
<1>1. \A g \in Figureheads : fig[g] # "start" => Slots(g)' = Slots(g)
  BY DEF SizesStay, Slots
<1>2. tool' \in [Figureheads -> ToolData] /\ tpc' \in [Pids -> ToolPCs]
  BY DEF ToolInv, ToolWrites
<1>3. tool'[m] = t /\ \A g \in Figureheads : g # m => tool'[g] = tool[g]
  BY DEF ToolInv, ToolWrites
<1>4. \A g \in Figureheads : /\ tool'[g].nextFaultIdx \in Slots(g)' \cup {0}
                             /\ fig'[g] = "start" => tool'[g].nextFaultIdx = 0
  BY <1>1, <1>3 DEF ToolInv, SizesStay, ToolWrites
<1>5. \A q \in Pids : tpc'[q] # "idle" => proc'[q].pc \in {"image", "app", "plr"}
  BY DEF OthersStay
<1> QED BY <1>2, <1>4, <1>5 DEF ToolInv

\* The record of the tool after updateNextProcToFault.
LEMMA Chosen ==
  ASSUME GroupInv, ToolInv, NEW m \in Figureheads, NEW initialCall \in BOOLEAN,
         updateNextProcToFault(m, initialCall)
  PROVE  \E t \in ToolData : /\ tool' = [tool EXCEPT ![m] = t]
                             /\ t.nextFaultIdx \in Slots(m) \cup {0}
<1>0. tool[m] \in ToolData /\ tool[m].nextFaultIdx \in Slots(m) \cup {0}
      /\ shm[m] \in Shm
  BY DEF ToolInv, GroupInv, GroupTypeOK
<1>1. PICK t \in {tool[m]} \cup {Drawn(m, idx) : idx \in Slots(m)}, n \in Targets :
        tool' = [tool EXCEPT ![m] = [t EXCEPT !.eventCount = 0, !.targetCount = n, !.toolLock = 0]]
  BY DEF updateNextProcToFault
<1>2. t \in ToolData /\ t.nextFaultIdx \in Slots(m) \cup {0}
  <2>1. CASE t = tool[m]
    BY <1>0, <2>1
  <2>2. ASSUME NEW idx \in Slots(m), t = Drawn(m, idx), t # tool[m]
        PROVE  t \in ToolData /\ t.nextFaultIdx \in Slots(m) \cup {0}
    <3>1. idx \in Nat /\ idx \in AllSlots
      BY <1>0 DEF Slots, Shm, AllSlots
    <3>2. shm[m].procs[idx].pid \in 0 .. MaxPid
      BY <1>0, <3>1 DEF Shm, ProcData, AllSlots
    <3>3. PICK pid \in 0 .. MaxPid : t = Targeting(tool[m], pid, idx)
      BY <2>2, <3>2 DEF Drawn
    <3>4. t \in ToolData /\ t.nextFaultIdx = idx
      BY <1>0, <3>1, <3>3 DEF Targeting, ToolData
    <3> QED BY <3>4
  <2> QED BY <1>1, <2>1, <2>2
<1>3. n \in Nat /\ 0 \in 0 .. MaxPid
  BY TargetsAssumption
<1> DEFINE u == [t EXCEPT !.eventCount = 0, !.targetCount = n, !.toolLock = 0]
<1>4. u \in ToolData /\ u.nextFaultIdx = t.nextFaultIdx
  BY <1>2, <1>3 DEF ToolData
<1> QED BY <1>1, <1>2, <1>4

\* A process in the tool is in its program, and so belongs to a run.
LEMMA InTool ==
  ASSUME GroupInv, ToolInv, NEW p \in Pids, proc[p].pc \in {"image", "app", "plr"}
  PROVE  /\ Alive(p) /\ proc[p].fig \in Figureheads /\ fig[proc[p].fig] # "start"
         /\ tool[proc[p].fig] \in ToolData
         /\ tool[proc[p].fig].nextFaultIdx \in Slots(proc[p].fig) \cup {0}
<1>1. Alive(p)
  BY DEF Alive, Ended
<1> QED BY <1>1 DEF GroupInv, Memberships, Belongs, ToolInv

\* The group rests while the tool works.
LEMMA GroupStutters == ASSUME GroupInv, UNCHANGED groupVars PROVE GroupInv'
<1>1. UNCHANGED <<env, file, fig, pipe, shm, proc>>
  BY DEF groupVars
<1>2. \A p \in Pids : /\ (Alive(p)' <=> Alive(p)) /\ (Unplaced(p)' <=> Unplaced(p))
                      /\ (Belongs(p)' <=> Belongs(p)) /\ (Left(p)' <=> Left(p))
  BY <1>1 DEF Alive, Unplaced, Belongs, Left
<1>3. \A m \in Figureheads : (Fresh(m)' <=> Fresh(m)) /\ Slots(m)' = Slots(m)
  BY <1>1 DEF Fresh, Slots
<1>4. GroupTypeOK' /\ PidsInOrder' /\ OneName'
  BY <1>1 DEF GroupInv, GroupTypeOK, PidsInOrder, OneName
<1>5. Memberships' /\ Parents'
  BY <1>1, <1>2 DEF GroupInv, Memberships, Parents
<1>6. Launches'
  BY <1>1, <1>2, <1>3 DEF GroupInv, Launches, Alive, Unplaced, Fresh
<1>7. Memory' /\ OneProcessPerSlot'
  BY <1>1, <1>2 DEF GroupInv, Memory, OneProcessPerSlot
<1>8. Owners'
  BY <1>1, <1>2 DEF GroupInv, Owners, Slots
<1>9. Configured' /\ DeadlineKept'
  BY <1>1 DEF GroupInv, Configured, DeadlineKept
<1> QED BY <1>4, <1>5, <1>6, <1>7, <1>8, <1>9 DEF GroupInv

\* The tool's own steps, none of which is a step of the program.
LEMMA ToolStep ==
  ASSUME GroupInv, ToolInv, NEW p \in Pids, ToolRuns(p) \/ Event(p) \/ DieOfFault(p)
  PROVE  GroupInv' /\ ToolInv'
<1> DEFINE m == proc[p].fig
<1>0. \A q \in Pids : tpc[q] # "idle" => proc[q].pc \in {"image", "app", "plr"}
  BY DEF ToolInv
<1>1. ASSUME UNCHANGED groupVars, NEW t, NEW where, m \in Figureheads, fig[m] # "start",
             ToolWrites(p, m, t, where), proc[p].pc \in {"image", "app", "plr"}
      PROVE  GroupInv' /\ ToolInv'
  <2>1. GroupInv'
    BY <1>1, GroupStutters
  <2>2. OthersStay(Pids) /\ SizesStay
    BY <1>1 DEF groupVars, OthersStay, SizesStay
  <2>3. \A q \in Pids : tpc'[q] # "idle" =>
          proc[q].pc \in {"image", "app", "plr"} /\ proc'[q].pc \notin Ended
    <3> TAKE q \in Pids
    <3> HAVE tpc'[q] # "idle"
    <3>1. proc[q].pc \in {"image", "app", "plr"}
      BY <1>0, <1>1 DEF ToolWrites, ToolInv
    <3> QED BY <1>1, <3>1 DEF groupVars, Ended
  <2> QED BY <1>1, <2>1, <2>2, <2>3, ToolWritesKeeps
<1>2. ASSUME NEW t, NEW where \in ToolPCs, Ends(p, "dead"), m \in Figureheads, fig[m] # "start",
             UNCHANGED <<env, file, fig, pipe, shm>>, ToolWrites(p, m, t, "idle")
      PROVE  GroupInv' /\ ToolInv'
  <2>1. env'.opts = env.opts /\ \E runs \in SUBSET Figureheads : env' \in Environment(runs)
    BY <1>2 DEF GroupInv, GroupTypeOK
  <2>2. GroupInv' /\ OthersStay(Pids) /\ SizesStay
    BY <1>2, <2>1, EndStep
  <2>3. ASSUME NEW q \in Pids, q # p
        PROVE  proc'[q].pc = proc[q].pc
    <3>1. proc'[q] \in {proc[q], [proc[q] EXCEPT !.parent = Adopter(proc[q].fig)]}
      BY <1>2, <2>3 DEF Ends, Without
    <3> QED BY <3>1, RecordTypes DEF GroupInv, Processes
  <2>4. tpc'[p] = "idle" /\ \A q \in Pids : q # p => tpc'[q] = tpc[q]
    BY <1>2 DEF ToolWrites, ToolInv
  <2>5. \A q \in Pids : tpc'[q] # "idle" =>
          proc[q].pc \in {"image", "app", "plr"} /\ proc'[q].pc \notin Ended
    BY <1>0, <2>3, <2>4 DEF Ended
  <2> QED BY <1>2, <2>2, <2>5, ToolWritesKeeps
<1>3. ASSUME tpc[p] # "idle"
      PROVE  /\ proc[p].pc \in {"image", "app", "plr"} /\ Alive(p)
             /\ m \in Figureheads /\ fig[m] # "start" /\ tool[m] \in ToolData
             /\ tool[m].nextFaultIdx \in Slots(m) \cup {0}
  BY <1>0, <1>3, InTool
<1>4. CASE InitialCall(p) \/ Update(p)
  <2>1. tpc[p] # "idle" /\ UNCHANGED groupVars
    BY <1>4 DEF InitialCall, Update
  <2>2. PICK t \in ToolData : tool' = [tool EXCEPT ![m] = t] /\ t.nextFaultIdx \in Slots(m) \cup {0}
    BY <1>3, <1>4, <2>1, Chosen DEF InitialCall, Update
  <2>3. PICK where \in {"idle", "decide"} : tpc' = [tpc EXCEPT ![p] = where]
    BY <1>4 DEF InitialCall, Update, Goto
  <2>4. ToolWrites(p, m, t, where)
    BY <2>2, <2>3 DEF ToolWrites, ToolPCs
  <2> QED BY <1>1, <1>3, <2>1, <2>4
<1>5. CASE TakeToolLock(p)
  <2>1. tpc[p] # "idle" /\ UNCHANGED groupVars
    BY <1>5 DEF TakeToolLock
  <2> DEFINE t == [tool[m] EXCEPT !.toolLock = p]
  <2>2. p \in 0 .. MaxPid
    BY DEF Pids
  <2>3. t \in ToolData /\ t.nextFaultIdx = tool[m].nextFaultIdx
    BY <1>3, <2>1, <2>2 DEF ToolData
  <2>4. tool' = [tool EXCEPT ![m] = t]
    BY <1>3, <1>5, <2>1 DEF TakeToolLock, ToolInv
  <2>5. ToolWrites(p, m, t, "locked")
    BY <1>3, <1>5, <2>1, <2>3, <2>4 DEF ToolWrites, TakeToolLock, Goto, ToolPCs
  <2> QED BY <1>1, <1>3, <2>1, <2>5
<1>6. CASE CheckVictim(p)
  <2>1. tpc[p] # "idle" /\ UNCHANGED groupVars
    BY <1>6 DEF CheckVictim
  <2>2. tool = [tool EXCEPT ![m] = tool[m]]
    BY DEF ToolInv
  <2>3. CASE Goto(p, "update") /\ UNCHANGED tool
    <3>1. ToolWrites(p, m, tool[m], "update")
      BY <1>3, <2>1, <2>2, <2>3 DEF ToolWrites, Goto, ToolPCs
    <3> QED BY <1>1, <1>3, <2>1, <3>1
  <2>4. CASE Goto(p, "decide") /\ tool' = [tool EXCEPT ![m].toolLock = 0]
    <3> DEFINE t == [tool[m] EXCEPT !.toolLock = 0]
    <3>1. t \in ToolData /\ t.nextFaultIdx = tool[m].nextFaultIdx
      BY <1>3, <2>1 DEF ToolData
    <3>2. tool' = [tool EXCEPT ![m] = t]
      BY <1>3, <2>1, <2>4 DEF ToolInv
    <3>3. ToolWrites(p, m, t, "decide")
      BY <1>3, <2>1, <2>4, <3>1, <3>2 DEF ToolWrites, Goto, ToolPCs
    <3> QED BY <1>1, <1>3, <2>1, <3>3
  <2> QED BY <1>6, <2>3, <2>4 DEF CheckVictim
<1>7. CASE Decide(p)
  <2>1. tpc[p] # "idle" /\ UNCHANGED groupVars
    BY <1>7 DEF Decide
  <2>2. tool = [tool EXCEPT ![m] = tool[m]]
    BY DEF ToolInv
  <2>3. CASE Goto(p, "idle") /\ UNCHANGED tool
    <3>1. ToolWrites(p, m, tool[m], "idle")
      BY <1>3, <2>1, <2>2, <2>3 DEF ToolWrites, Goto, ToolPCs
    <3> QED BY <1>1, <1>3, <2>1, <3>1
  <2>4. ASSUME tool' = [tool EXCEPT ![m].eventCount = @ + 1],
               NEW where \in {"inject", "idle"}, Goto(p, where)
        PROVE  GroupInv' /\ ToolInv'
    <3> DEFINE t == [tool[m] EXCEPT !.eventCount = @ + 1]
    <3>1. t \in ToolData /\ t.nextFaultIdx = tool[m].nextFaultIdx
      BY <1>3, <2>1 DEF ToolData
    <3>2. tool' = [tool EXCEPT ![m] = t]
      BY <1>3, <2>1, <2>4 DEF ToolInv
    <3>3. ToolWrites(p, m, t, where)
      BY <1>3, <2>1, <2>4, <3>1, <3>2 DEF ToolWrites, Goto, ToolPCs
    <3> QED BY <1>1, <1>3, <2>1, <3>3
  <2> QED BY <1>7, <2>3, <2>4 DEF Decide
<1>8. CASE InjectTrace(p)
  <2>1. tpc[p] # "idle" /\ UNCHANGED <<env, file, fig, pipe, shm>>
    BY <1>8 DEF InjectTrace
  <2> DEFINE t == [tool[m] EXCEPT !.faultInjected = TRUE]
  <2>2. t \in ToolData /\ t.nextFaultIdx = tool[m].nextFaultIdx
    BY <1>3, <2>1 DEF ToolData
  <2>3. tool' = [tool EXCEPT ![m] = t]
    BY <1>3, <1>8, <2>1 DEF InjectTrace, ToolInv
  <2>4. ToolWrites(p, m, t, "idle")
    BY <1>3, <1>8, <2>1, <2>2, <2>3 DEF ToolWrites, InjectTrace, Goto, ToolPCs
  <2>5. Ends(p, "dead")
    BY <1>3, <1>8, <2>1 DEF InjectTrace, Ends, Ended
  <2> QED BY <1>2, <1>3, <2>1, <2>4, <2>5 DEF ToolPCs
<1>9. CASE InjectIns(p)
  <2>1. /\ tpc[p] # "idle" /\ UNCHANGED <<env, file, fig, pipe, shm>>
        /\ proc' = [proc EXCEPT ![p].faulty = TRUE]
    BY <1>9 DEF InjectIns
  <2>2. PICK n \in Nat : tool' = [tool EXCEPT ![m].faultInjected = TRUE, ![m].eventCount = 0,
                                             ![m].targetCount = n]
    BY <1>9, TargetsAssumption DEF InjectIns
  <2> DEFINE t == [tool[m] EXCEPT !.faultInjected = TRUE, !.eventCount = 0, !.targetCount = n]
  <2>3. t \in ToolData /\ t.nextFaultIdx = tool[m].nextFaultIdx
    BY <1>3, <2>1 DEF ToolData
  <2>4. tool' = [tool EXCEPT ![m] = t]
    BY <1>3, <2>1, <2>2 DEF ToolInv
  <2>5. ToolWrites(p, m, t, "idle")
    BY <1>3, <1>9, <2>1, <2>3, <2>4 DEF ToolWrites, InjectIns, Goto, ToolPCs
  <2>6. GroupInv'
    BY <1>3, <2>1, FaultyKeeps DEF GroupInv, GroupTypeOK
  <2>7. \A q \in Pids : proc'[q].pc = proc[q].pc
    BY <2>1, RecordTypes DEF GroupInv, GroupTypeOK, Processes
  <2>8. \A q \in Pids : tpc'[q] # "idle" =>
          proc[q].pc \in {"image", "app", "plr"} /\ proc'[q].pc \notin Ended
    BY <1>0, <2>5, <2>7 DEF ToolWrites, ToolInv, Ended
  <2> QED BY <1>3, <2>1, <2>5, <2>6, <2>7, <2>8, ToolWritesKeeps DEF OthersStay, SizesStay
<1>10. CASE Event(p)
  <2>1. Instrumented(p) /\ UNCHANGED <<groupVars, tool>>
    BY <1>10 DEF Event
  <2>2. proc[p].pc \in {"image", "app", "plr"}
    BY <2>1 DEF Instrumented
  <2>3. m \in Figureheads /\ fig[m] # "start" /\ tool[m] \in ToolData
        /\ tool[m].nextFaultIdx \in Slots(m) \cup {0}
    BY <2>2, InTool
  <2>4. PICK where \in {"suspect", "decide"} : tpc' = [tpc EXCEPT ![p] = where]
    BY <1>10 DEF Event, Goto
  <2>5. ToolWrites(p, m, tool[m], where)
    BY <2>1, <2>3, <2>4 DEF ToolWrites, ToolPCs, ToolInv
  <2> QED BY <1>1, <2>1, <2>2, <2>3, <2>5
<1>11. CASE DieOfFault(p)
  <2>1. Alive(p) /\ tpc[p] = "idle" /\ proc' = Without(proc, p, "dead")
        /\ UNCHANGED <<env, file, fig, pipe, shm, tool, tpc>>
    BY <1>11 DEF DieOfFault
  <2>2. Ends(p, "dead")
    BY <2>1 DEF Ends, Ended
  <2>3. m \in Figureheads /\ fig[m] # "start"
    BY <2>1 DEF GroupInv, Memberships, Belongs
  <2>4. ToolWrites(p, m, tool[m], "idle")
    BY <2>1, <2>3 DEF ToolWrites, ToolInv, ToolPCs
  <2> QED BY <1>2, <2>1, <2>2, <2>3, <2>4 DEF ToolPCs
<1> QED BY <1>4, <1>5, <1>6, <1>7, <1>8, <1>9, <1>10, <1>11 DEF ToolRuns

\* The invariant of the group and of the tool.
Inv == GroupInv /\ ToolInv

\* There is nothing but free memory at first.
LEMMA InitInv == ToolInit => Inv
<1> SUFFICES ASSUME ToolInit PROVE Inv
  OBVIOUS
<1>1. /\ env \in Scenarios /\ file = NoFile
      /\ \A f \in Figureheads : fig[f] = "start" /\ ~pipe[f] /\ Fresh(f)
      /\ \A p \in Pids : proc[p] = NoProc
  BY DEF ToolInit, Init, Fresh, FreeMemory, FreeProcData, AllSlots
<1>2. \A p \in Pids : /\ proc[p].pc = "none" /\ proc[p].fig = NoFile /\ proc[p].slot = NoSlot
                      /\ proc[p].parent = Outside /\ proc[p].wait = NoWait
  BY <1>1 DEF NoProc
<1>3. GroupTypeOK
  <2>1. \E runs \in SUBSET Figureheads : env \in Environment(runs)
    BY <1>1, ScenariosAssumption
  <2>2. fig \in [Figureheads -> FigPCs] /\ pipe \in [Figureheads -> BOOLEAN]
    BY DEF ToolInit, Init, FigPCs
  <2>3. shm \in [Figureheads -> Shm]
    <3>1. [nProc |-> 0, didProcessInit |-> FALSE, insidePLRInitTrue |-> FALSE,
           watchdogTimeout |-> 0, procs |-> FreeMemory] \in Shm
      BY FreeTypes DEF Shm, AllSlots
    <3> QED BY <3>1 DEF ToolInit, Init
  <2>4. proc \in [Pids -> Processes]
    BY FreeTypes DEF ToolInit, Init
  <2> QED BY <1>1, <2>1, <2>2, <2>3, <2>4 DEF GroupTypeOK
<1>4. \A p \in Pids : ~Alive(p) /\ ~Unplaced(p)
  BY <1>2 DEF Alive, Unplaced
<1>5. PidsInOrder /\ OneName /\ Memberships /\ Parents /\ Owners /\ OneProcessPerSlot
  BY <1>1, <1>2, <1>4 DEF PidsInOrder, OneName, Memberships, Parents, Owners,
                          OneProcessPerSlot, Left
<1>6. Launches
  BY <1>1, <1>2, <1>4 DEF Launches
<1>7. Memory
  BY <1>1 DEF Memory, Fresh, Pids
<1>8. Configured /\ DeadlineKept
  BY <1>1, <1>2 DEF Configured, DeadlineKept
<1>9. ToolInv
  <2>1. [toolLock |-> 0, faultInjected |-> FALSE, nextFaultIdx |-> 0,
         nextFaultPid |-> 0, eventCount |-> 0, targetCount |-> 0] \in ToolData
    BY DEF ToolData
  <2> QED BY <2>1 DEF ToolInit, ToolInv, ToolPCs
<1> QED BY <1>3, <1>5, <1>6, <1>7, <1>8, <1>9 DEF Inv, GroupInv

\* A figurehead ends no process.
LEMMA FigureheadSpares ==
  ASSUME GroupInv, NEW f \in Figureheads, FigureheadRuns(f) \/ KillFigurehead(f),
         NEW p \in Pids, proc[p].pc # "none"
  PROVE  proc'[p].pc = proc[p].pc
<1>1. CASE StartFirstProcess(f)
  <2>1. CASE UNCHANGED proc
    BY <2>1
  <2>2. CASE Room(1) /\ \E new \in {[NoProc EXCEPT !.pc = "fork", !.fig = f, !.parent = f]} :
                          proc' = [proc EXCEPT ![Used + 1] = new]
    <3>1. Used + 1 \in Pids /\ proc[Used + 1].pc = "none"
      BY <2>2, NextPid DEF GroupInv
    <3>2. proc'[p] = proc[p]
      BY <2>2, <3>1
    <3> QED BY <3>2
  <2> QED BY <1>1, <2>1, <2>2 DEF StartFirstProcess
<1>2. CASE proc' = Orphaned(f)
  <2>1. proc'[p] \in {proc[p], [proc[p] EXCEPT !.parent = Outside]}
    BY <1>2 DEF Orphaned
  <2> QED BY <2>1, RecordTypes DEF GroupInv, Processes
<1> QED BY <1>1, <1>2 DEF FigureheadRuns, KillFigurehead, plr_figureheadInit, ReadExecPipe,
                          WaitLoopEnds, atexit_cleanupShm

\* Every step of the group, of the tool, or of neither.
LEMMA StepInv == Inv /\ [ToolNext]_vars => Inv'
<1> SUFFICES ASSUME Inv, [ToolNext]_vars PROVE Inv'
  OBVIOUS
<1>0. GroupInv /\ ToolInv
  BY DEF Inv
<1>1. ASSUME NEW f \in Figureheads, FigureheadRuns(f) \/ KillFigurehead(f), UNCHANGED <<tool, tpc>>
      PROVE  Inv'
  <2>1. GroupInv' /\ OthersStay(Pids) /\ SizesStay
    BY <1>0, <1>1, FigureheadStep
  <2>2. \A p \in Pids : proc[p].pc # "none" => proc'[p].pc = proc[p].pc
    BY <1>0, <1>1, FigureheadSpares
  <2>3. \A p \in Pids : tpc[p] # "idle" => proc'[p].pc \notin Ended
    BY <1>0, <2>2 DEF ToolInv, Ended
  <2> QED BY <1>0, <1>1, <2>1, <2>3, ToolWaits DEF Inv
<1>2. ASSUME NEW p \in Pids, ProgramRuns(p)
      PROVE  Inv'
  <2>1. tpc[p] = "idle" /\ ProcessRuns(p) /\ ToolFollows(p)
    BY <1>2 DEF ProgramRuns
  <2>2. /\ GroupInv' /\ OthersStay(Pids \ {p}) /\ SizesStay
        /\ proc[p].pc = "image" /\ proc[p].slot # NoSlot => proc'[p].pc = "app"
    BY <1>0, <2>1, ProcessStep
  <2> QED BY <1>0, <2>1, <2>2, ToolFollowsKeeps DEF Inv, Instrumented
<1>3. ASSUME NEW p \in Pids, ToolRuns(p) \/ Event(p) \/ DieOfFault(p)
      PROVE  Inv'
  BY <1>0, <1>3, ToolStep DEF Inv
<1>4. ASSUME NEW p \in Pids, Fault(p), ToolFollows(p)
      PROVE  Inv'
  <2>1. GroupInv' /\ OthersStay(Pids) /\ SizesStay
    BY <1>0, <1>4, FaultStep
  <2>2. proc[p].pc # "none"
    BY <1>4 DEF Fault, Alive
  <2>3. proc'[p].pc \in {proc[p].pc} \cup Ended
    BY <2>1, <2>2 DEF OthersStay
  <2>4. proc[p].pc = "image" => proc'[p].pc \in Ended
    <3>1. ASSUME proc[p].pc = "image"
          PROVE  proc' = Without(proc, p, "dead")
      BY <1>4, <3>1 DEF Fault
    <3>2. Without(proc, p, "dead")[p].pc = "dead"
      BY DEF Without, NoProc
    <3> QED BY <3>1, <3>2 DEF Ended
  <2>5. OthersStay(Pids \ {p})
    BY <2>1 DEF OthersStay
  <2> QED BY <1>0, <1>4, <2>1, <2>3, <2>4, <2>5, ToolFollowsKeeps DEF Inv
<1>5. CASE UNCHANGED vars
  <2>1. GroupInv'
    BY <1>0, <1>5, GroupStutters DEF vars
  <2>2. ToolInv'
    BY <1>0, <1>5 DEF vars, groupVars, ToolInv, Slots
  <2> QED BY <2>1, <2>2 DEF Inv
<1> QED BY <1>1, <1>2, <1>3, <1>4, <1>5 DEF ToolNext

LEMMA Invariance == ToolSpec => []Inv
BY InitInv, StepInv, PTL DEF ToolSpec

-----------------------------------------------------------------------------
(* The theorems.                                                           *)

\* The state of the group and of the tool keeps its types; the slot the tool has
\* drawn is one of the group's (pinFaultInject.cpp:95).
THEOREM TypesKept == ToolSpec => []TypeOK
<1>1. Inv => TypeOK
  BY DEF Inv, GroupInv, ToolInv, TypeOK, ToolData
<1> QED BY <1>1, Invariance, PTL

\* While a process of a group is in the program or in the library, the name of the
\* shared memory leads to the memory of its group (plrMain.c:164-180,
\* plrSharedData.c:64, 203, 225), whichever figureheads and processes are killed.
THEOREM FileFoundByName == ToolSpec => []FileOutlivesGroup
<1>1. Inv => FileOutlivesGroup
  BY FileFound DEF Inv
<1> QED BY <1>1, Invariance, PTL

\* A slot has one process that works for it and, when it is filled in, that
\* process's pid or that of one that has ended (plr.c:150-167, 549-594).
THEOREM SlotsNotShared == ToolSpec => []OneProcessPerSlot
<1>1. Inv => OneProcessPerSlot
  BY DEF Inv, GroupInv
<1> QED BY <1>1, Invariance, PTL

\* Only a process in which execvp failed ends with an error: the others find the
\* file, their slot and its insidePLR flag (plr.c:65-87, 329, plrSharedData.c:203).
THEOREM PlacesFound == ToolSpec => []EveryoneFindsItsPlace
<1>1. Inv => EveryoneFindsItsPlace
  BY DEF Inv, GroupInv, Launches, EveryoneFindsItsPlace
<1> QED BY <1>1, Invariance, PTL

\* The deadline of the barrier's timed wait is one the kernel takes, as far away as
\* the watchdog timeout of the run's command line says (plr.c:463-473).
THEOREM DeadlinesKept == ToolSpec => []DeadlineKept
<1>1. Inv => DeadlineKept
  BY DEF Inv, GroupInv
<1> QED BY <1>1, Invariance, PTL

-----------------------------------------------------------------------------
(* The fault injection tool hits one process of a group at a time, however *)
(* the group's processes start, end and are replaced while they are in the *)
(* tool. The invariant.                                                    *)

\* In a group under the tool nothing else causes faults: the scenario has no other
\* (FaultsOfTool), which OneFaultyAtATime takes for granted.
ToolAlone ==
  \A scenario \in Scenarios :
    \/ scenario.crashes = 0
    \/ \A f \in DOMAIN scenario.opts : scenario.opts[f].pintoolMode = "off"

FaultsOfTool == env.crashes = 0 \/ \A f \in DOMAIN env.opts : env.opts[f].pintoolMode = "off"

AtFaultAlive == \A p \in Pids : proc[p].faulty => Alive(p)

\* Whoever was hit and has not been replaced, or is about to be hit, is the one to
\* be hit now.
HitOnly(m) ==
  \A p \in Pids :
    /\ proc[p].fig = m /\ proc[p].faulty => tool[m].nextFaultPid = p
    /\ proc[p].fig = m /\ tpc[p] = "inject" => tool[m].nextFaultPid = p
    /\ \A s \in AllSlots : shm[m].procs[s].pid = p /\ proc[p].pc = "dead"
         => tool[m].nextFaultPid = p /\ tool[m].nextFaultIdx = s

\* The one to be hit is in the slot it was drawn from, while it lives.
VictimPlaced(m) ==
  \A p \in Pids : tool[m].nextFaultPid = p =>
    /\ proc[p].pc # "none"
    /\ Alive(p) => shm[m].procs[tool[m].nextFaultIdx].pid = p

\* Under toolLock the process hit last is seen to have been replaced, and another
\* is drawn: it is replaced still.
ToolLocked(m) ==
  \A p \in Pids : proc[p].fig = m =>
    /\ tpc[p] \in {"locked", "update"} => tool[m].toolLock = p
    /\ tpc[p] = "update" => tool[m].nextFaultPid = 0 \/ VictimReplaced(m)

TargetInv ==
  /\ FaultsOfTool /\ AtFaultAlive
  /\ \A m \in Figureheads : Mode(m) # "off" => HitOnly(m) /\ VictimPlaced(m) /\ ToolLocked(m)

-----------------------------------------------------------------------------
(* Steps of the group while the tool waits.                                *)

\* A step of the group which is no fault, as far as the tool can tell: a process
\* may begin, end or be killed in a slot that is freed.
Passes(q) ==
  /\ proc[q].pc # "none" => proc'[q].pc # "none" /\ proc'[q].fig = proc[q].fig
  /\ proc'[q].faulty => proc[q].faulty /\ Alive(q)'
  /\ Alive(q)' => Alive(q) \/ proc[q].pc = "none"
  /\ proc'[q].pc = "dead" => \/ proc[q].pc = "dead"
                             \/ \A m \in Figureheads, s \in AllSlots : shm'[m].procs[s].pid # q

Passed(m, s) ==
  \/ shm'[m].procs[s].pid = shm[m].procs[s].pid
  \/ /\ shm'[m].procs[s].pid = 0
     /\ \A p \in Pids : shm[m].procs[s].pid = p => ~Alive(p)'
  \/ /\ shm[m].procs[s].pid = 0
     /\ \E p \in Pids : /\ shm'[m].procs[s].pid = p /\ Alive(p)
                        /\ \A t \in AllSlots : shm[m].procs[t].pid # p

Aftermath ==
  /\ \A q \in Pids : Passes(q)
  /\ \A m \in Figureheads, s \in AllSlots : Passed(m, s)

\* The tool waits meanwhile.
LEMMA AftermathKeeps ==
  ASSUME Inv, TargetInv, Aftermath, UNCHANGED tool,
         \A q \in Pids : tpc'[q] \in {tpc[q], "idle", "first"},
         env'.opts = env.opts, env'.crashes = env.crashes
  PROVE  TargetInv'
<1>1. FaultsOfTool' /\ AtFaultAlive' /\ \A m \in Figureheads : Mode(m)' = Mode(m)
  BY DEF TargetInv, FaultsOfTool, AtFaultAlive, Aftermath, Passes, Mode
<1>2. ASSUME NEW m \in Figureheads, Mode(m) # "off"
      PROVE  HitOnly(m)' /\ VictimPlaced(m)' /\ ToolLocked(m)'
  <2>1. HitOnly(m) /\ VictimPlaced(m) /\ ToolLocked(m)
    BY <1>2 DEF TargetInv
  <2>2. \A p \in Pids : /\ tool[m].nextFaultIdx \in AllSlots
                        /\ proc[p].pc = "none" => proc[p].fig # m
                        /\ tpc[p] # "idle" => proc[p].pc # "none"
    <3>1. shm[m].nProc \in 0 .. MaxPid
      BY DEF Inv, GroupInv, GroupTypeOK, Shm
    <3>2. \A p \in Pids : 0 \in AllSlots
      BY DEF Pids, AllSlots
    <3>3. \A p \in Pids : tool[m].nextFaultIdx \in AllSlots
      BY <3>1, <3>2 DEF Inv, ToolInv, Slots, AllSlots
    <3> QED BY <3>3 DEF Inv, GroupInv, ToolInv, Memberships
  <2>3. HitOnly(m)'
    <3> SUFFICES ASSUME NEW p \in Pids
                 PROVE  /\ proc'[p].fig = m /\ proc'[p].faulty => tool[m].nextFaultPid = p
                        /\ proc'[p].fig = m /\ tpc'[p] = "inject" => tool[m].nextFaultPid = p
                        /\ \A s \in AllSlots : shm'[m].procs[s].pid = p /\ proc'[p].pc = "dead"
                             => tool[m].nextFaultPid = p /\ tool[m].nextFaultIdx = s
      BY DEF HitOnly
    <3>1. Passes(p)
      BY DEF Aftermath
    <3>2. proc'[p].fig = m /\ proc'[p].faulty => tool[m].nextFaultPid = p
      BY <2>1, <3>1 DEF HitOnly, Passes, TargetInv, AtFaultAlive, Alive
    <3>3. proc'[p].fig = m /\ tpc'[p] = "inject" => tool[m].nextFaultPid = p
      BY <2>1, <2>2, <3>1 DEF HitOnly, Passes
    <3>4. ASSUME NEW s \in AllSlots, shm'[m].procs[s].pid = p, proc'[p].pc = "dead"
          PROVE  tool[m].nextFaultPid = p /\ tool[m].nextFaultIdx = s
      <4>1. proc[p].pc = "dead" /\ ~Alive(p)
        BY <3>1, <3>4 DEF Passes, Alive, Ended
      <4>2. Passed(m, s) /\ p # 0
        BY DEF Aftermath, Pids
      <4>3. shm[m].procs[s].pid = p
        BY <3>4, <4>1, <4>2 DEF Passed
      <4> QED BY <2>1, <4>1, <4>3 DEF HitOnly
    <3> QED BY <3>2, <3>3, <3>4
  <2>4. VictimPlaced(m)'
    <3> SUFFICES ASSUME NEW p \in Pids, tool[m].nextFaultPid = p
                 PROVE  /\ proc'[p].pc # "none"
                        /\ Alive(p)' => shm'[m].procs[tool[m].nextFaultIdx].pid = p
      BY DEF VictimPlaced
    <3>1. proc[p].pc # "none" /\ Passes(p) /\ Passed(m, tool[m].nextFaultIdx) /\ p # 0
      BY <2>1, <2>2 DEF VictimPlaced, Aftermath, Pids
    <3>2. Alive(p)' => shm[m].procs[tool[m].nextFaultIdx].pid = p
      BY <2>1, <3>1 DEF VictimPlaced, Passes
    <3> QED BY <3>1, <3>2 DEF Passes, Passed
  <2>5. ToolLocked(m)'
    <3> SUFFICES ASSUME NEW p \in Pids, proc'[p].fig = m, tpc'[p] \in {"locked", "update"}
                 PROVE  /\ tool[m].toolLock = p
                        /\ tpc'[p] = "update" => \/ tool[m].nextFaultPid = 0
                                                 \/ VictimReplaced(m)'
      BY DEF ToolLocked
    <3>1. tpc[p] = tpc'[p] /\ proc[p].fig = m
      BY <2>2 DEF Aftermath, Passes
    <3>2. ASSUME tpc[p] = "update", tool[m].nextFaultPid # 0
          PROVE  VictimReplaced(m)'
      <4>1. PICK v \in Pids : v = tool[m].nextFaultPid
        BY <3>2 DEF Inv, ToolInv, ToolData, Pids
      <4>2. shm[m].procs[tool[m].nextFaultIdx].pid # v
        BY <2>1, <3>1, <3>2, <4>1 DEF ToolLocked, VictimReplaced
      <4>3. ~Alive(v) /\ v # 0
        BY <2>1, <4>1, <4>2 DEF VictimPlaced, Pids
      <4>4. Passed(m, tool[m].nextFaultIdx)
        BY <2>2 DEF Aftermath
      <4>5. shm'[m].procs[tool[m].nextFaultIdx].pid # v
        BY <4>2, <4>3, <4>4 DEF Passed
      <4> QED BY <4>1, <4>5 DEF VictimReplaced
    <3> QED BY <2>1, <3>1, <3>2 DEF ToolLocked
  <2> QED BY <2>3, <2>4, <2>5
<1> QED BY <1>1, <1>2 DEF TargetInv

\* Where a process is, whose it is, and whether it is at fault.
Same(q) ==
  /\ proc'[q].pc = proc[q].pc /\ proc'[q].fig = proc[q].fig
  /\ proc'[q].faulty = proc[q].faulty

PidsStay == \A m \in Figureheads, s \in AllSlots : shm'[m].procs[s].pid = shm[m].procs[s].pid

\* Process p goes on, or ends of itself.
LEMMA OrdinaryStep ==
  ASSUME AtFaultAlive, NEW p \in Pids, Alive(p), PidsStay,
         \A q \in Pids : q # p => Same(q),
         proc'[p].fig = proc[p].fig, proc'[p].pc \notin {"none", "dead"},
         proc'[p].faulty => proc[p].faulty /\ Alive(p)'
  PROVE  Aftermath
<1>1. ASSUME NEW q \in Pids
      PROVE  Passes(q)
  <2>1. CASE q = p
    BY <2>1 DEF Passes
  <2>2. CASE q # p
    <3>1. Same(q) /\ (Alive(q)' <=> Alive(q))
      BY <2>2 DEF Same, Alive
    <3> QED BY <3>1 DEF Passes, Same, AtFaultAlive
  <2> QED BY <2>1, <2>2
<1>2. \A m \in Figureheads, s \in AllSlots : Passed(m, s)
  BY DEF PidsStay, Passed
<1> QED BY <1>1, <1>2 DEF Aftermath

\* The end of a process, as the tool may tell.
LEMMA OthersSame ==
  ASSUME GroupInv, NEW p \in Pids, Alive(p), NEW how \in Ended, NEW procs,
         procs = Without(proc, p, how)
  PROVE  /\ procs \in [Pids -> Processes]
         /\ procs[p].pc = how /\ procs[p].fig = proc[p].fig /\ ~procs[p].faulty
         /\ \A q \in Pids : q # p => /\ procs[q].pc = proc[q].pc /\ procs[q].fig = proc[q].fig
                                     /\ procs[q].faulty = proc[q].faulty
<1>1. /\ procs \in [Pids -> Processes]
      /\ procs[p] = [NoProc EXCEPT !.pc = how, !.fig = proc[p].fig]
  BY AfterEnd
<1>2. ASSUME NEW q \in Pids, q # p
      PROVE  /\ procs[q].pc = proc[q].pc /\ procs[q].fig = proc[q].fig
             /\ procs[q].faulty = proc[q].faulty
  <2>1. procs[q] \in {proc[q], [proc[q] EXCEPT !.parent = Adopter(proc[q].fig)]}
    BY <1>2 DEF Without
  <2> QED BY <2>1, RecordTypes DEF GroupInv, Processes
<1> QED BY <1>1, <1>2 DEF NoProc

LEMMA EndOrdinary ==
  ASSUME GroupInv, AtFaultAlive, NEW p \in Pids, Alive(p), NEW how \in {"done", "failed"},
         proc' = Without(proc, p, how), UNCHANGED shm
  PROVE  Aftermath
<1>1. /\ proc'[p].pc = how /\ proc'[p].fig = proc[p].fig /\ ~proc'[p].faulty
      /\ \A q \in Pids : q # p => Same(q)
  BY OthersSame DEF Same, Ended
<1> QED BY <1>1, OrdinaryStep DEF PidsStay

\* A newborn, and processes that stay.
LEMMA Newborn ==
  ASSUME NEW q \in Pids, proc[q].pc = "none", proc'[q].pc \notin {"none", "dead"},
         ~proc'[q].faulty
  PROVE  Passes(q)
BY DEF Passes

LEMMA SamePasses ==
  ASSUME AtFaultAlive, NEW q \in Pids, Same(q)
  PROVE  Passes(q)
<1>1. Alive(q)' <=> Alive(q)
  BY DEF Same, Alive
<1> QED BY <1>1 DEF Passes, Same, AtFaultAlive

LEMMA FigureheadPasses ==
  ASSUME GroupInv, AtFaultAlive, NEW f \in Figureheads, FigureheadRuns(f) \/ KillFigurehead(f)
  PROVE  Aftermath /\ env'.opts = env.opts /\ env'.crashes = env.crashes
<1>0. /\ proc \in [Pids -> Processes] /\ shm \in [Figureheads -> Shm]
      /\ \E runs \in SUBSET Figureheads : env \in Environment(runs)
  BY DEF GroupInv, GroupTypeOK
<1>1. env'.opts = env.opts /\ env'.crashes = env.crashes
  BY <1>0 DEF FigureheadRuns, KillFigurehead, plr_figureheadInit, StartFirstProcess, ReadExecPipe,
              WaitLoopEnds, atexit_cleanupShm, Environment
<1>2. \A q \in Pids : Passes(q)
  <2>1. CASE StartFirstProcess(f)
    <3>1. CASE UNCHANGED proc
      BY <3>1, SamePasses DEF Same
    <3>2. CASE Room(1) /\ \E new \in {[NoProc EXCEPT !.pc = "fork", !.fig = f, !.parent = f]} :
                            proc' = [proc EXCEPT ![Used + 1] = new]
      <4>1. Used + 1 \in Pids /\ proc[Used + 1].pc = "none"
        BY <3>2, NextPid
      <4>2. proc'[Used + 1].pc = "fork" /\ ~proc'[Used + 1].faulty
        BY <1>0, <3>2, <4>1 DEF NoProc
      <4>3. \A q \in Pids : q # Used + 1 => Same(q)
        BY <1>0, <3>2, <4>1 DEF Same
      <4> QED BY <4>1, <4>2, <4>3, Newborn, SamePasses
    <3> QED BY <2>1, <3>1, <3>2 DEF StartFirstProcess
  <2>2. CASE proc' = Orphaned(f)
    <3>1. \A q \in Pids : proc'[q] \in {proc[q], [proc[q] EXCEPT !.parent = Outside]}
      BY <2>2 DEF Orphaned
    <3>2. \A q \in Pids : Same(q)
      BY <1>0, <3>1 DEF Same, Processes
    <3> QED BY <3>2, SamePasses
  <2>3. CASE UNCHANGED proc
    BY <2>3, SamePasses DEF Same
  <2> QED BY <2>1, <2>2, <2>3 DEF FigureheadRuns, KillFigurehead, plr_figureheadInit,
                                  ReadExecPipe, WaitLoopEnds, atexit_cleanupShm
<1>3. PidsStay
  <2>1. CASE UNCHANGED shm
    BY <2>1 DEF PidsStay
  <2>2. CASE plr_figureheadInit(f) /\ file = NoFile
    <3>1. \A s \in AllSlots : shm[f].procs[s].pid = 0
      BY <2>2 DEF plr_figureheadInit, GroupInv, Launches, Fresh
    <3>2. /\ \A m \in Figureheads : m # f => shm'[m] = shm[m]
          /\ shm'[f].procs = FreeMemory
      BY <1>0, <2>2 DEF plr_figureheadInit
    <3>3. \A s \in AllSlots : shm'[f].procs[s].pid = 0
      BY <3>2 DEF FreeMemory, FreeProcData, AllSlots
    <3> QED BY <3>1, <3>2, <3>3 DEF PidsStay
  <2> QED BY <2>1, <2>2 DEF FigureheadRuns, KillFigurehead, plr_figureheadInit, StartFirstProcess,
                            ReadExecPipe, WaitLoopEnds, atexit_cleanupShm
<1> QED BY <1>1, <1>2, <1>3 DEF Aftermath, PidsStay, Passed

\* A pid is written to the slot of a process of the run that has had none.
LEMMA SlotTaken ==
  ASSUME GroupInv, NEW p \in Pids, proc[p].pc \in {"first", "bornInit", "bornCopy"},
         NEW m \in Figureheads, m = proc[p].fig, NEW s, s \in AllSlots => shm[m].procs[s].pid = 0,
         \A g \in Figureheads, t \in AllSlots :
           shm'[g].procs[t].pid = IF g = m /\ t = s THEN p ELSE shm[g].procs[t].pid
  PROVE  \A g \in Figureheads, t \in AllSlots : Passed(g, t)
<1>1. Alive(p)
  BY DEF Alive, Ended
<1>2. ASSUME NEW t \in AllSlots
      PROVE  shm[m].procs[t].pid # p
  <2>1. CASE proc[p].pc = "first"
    BY <1>1, <2>1 DEF GroupInv, Launches, Unplaced, Fresh, Pids
  <2>2. CASE proc[p].pc \in {"bornInit", "bornCopy"}
    <3>1. proc[p].slot \in AllSlots /\ proc[p].slot # NoSlot
      BY <1>1, <2>2 DEF GroupInv, Owners, Unplaced, AllSlots, NoSlot
    <3>2. shm[m].procs[proc[p].slot].pid = 0
      BY <1>1, <2>2, <3>1 DEF GroupInv, OneProcessPerSlot
    <3> QED BY <1>1, <3>2 DEF GroupInv, Memory, Pids
  <2> QED BY <2>1, <2>2
<1>3. ASSUME NEW g \in Figureheads, NEW t \in AllSlots, g = m, t = s
      PROVE  Passed(g, t)
  BY <1>1, <1>2, <1>3 DEF Passed
<1>4. ASSUME NEW g \in Figureheads, NEW t \in AllSlots, ~(g = m /\ t = s)
      PROVE  Passed(g, t)
  BY <1>4 DEF Passed
<1> QED BY <1>3, <1>4

LEMMA StartGroupPasses ==
  ASSUME GroupInv, AtFaultAlive, NEW p \in Pids, StartGroup(p)
  PROVE  Aftermath
<1>0. proc \in [Pids -> Processes] /\ shm \in [Figureheads -> Shm]
  BY DEF GroupInv, GroupTypeOK
<1> DEFINE m == proc[p].fig
           children == Used + 1 .. Used + shm[m].nProc - 1
           child(q) == [NoProc EXCEPT !.pc = "bornInit", !.fig = m, !.parent = p, !.maps = m,
                                      !.slot = q - Used]
<1>1. /\ proc[p].pc = "first" /\ Alive(p) /\ m \in Figureheads /\ proc[p].maps = m
      /\ shm[m].procs[0].pid = 0
  BY DEF StartGroup, Alive, Ended, GroupInv, Memberships, Belongs
<1>2. \A q \in Pids : q \in children => proc[q].pc = "none"
  <2>1. \A q \in Pids : proc[q].pc # "none" => q <= Used
    BY PidsCounted DEF GroupInv
  <2>2. Used \in Nat /\ shm[m].nProc \in Nat
    BY <1>0, <1>1, PidsCounted DEF GroupInv, Shm
  <2> QED BY <2>1, <2>2 DEF Pids
<1>3. \A q \in Pids :
        proc'[q] = IF q = p THEN [proc[p] EXCEPT !.pc = Started(p), !.slot = 0]
                   ELSE IF q \in children THEN child(q) ELSE proc[q]
  BY <1>1 DEF StartGroup
<1>4. \A q \in Pids : Passes(q)
  <2> TAKE q \in Pids
  <2>1. CASE q = p
    <3>1. proc'[p].pc \in {"pin", "app"} /\ proc'[p].fig = m /\ proc'[p].faulty = proc[p].faulty
      BY <1>0, <1>3 DEF Processes, Started
    <3> QED BY <1>1, <2>1, <3>1 DEF Passes, Alive, Ended
  <2>2. CASE q # p /\ q \in children
    <3>1. proc'[q].pc = "bornInit" /\ ~proc'[q].faulty
      BY <1>3, <2>2 DEF NoProc
    <3> QED BY <1>2, <2>2, <3>1, Newborn
  <2>3. CASE q # p /\ q \notin children
    BY <1>3, <2>3, SamePasses DEF Same
  <2> QED BY <2>1, <2>2, <2>3
<1>5. \A g \in Figureheads, t \in AllSlots :
        shm'[g].procs[t].pid = IF g = m /\ t = 0 THEN p ELSE shm[g].procs[t].pid
  <2>1. PICK d \in {[FreeProcData EXCEPT !.pid = p, !.insidePLR = StartsInside(m, TRUE)]} :
          shm' = [shm EXCEPT ![m].didProcessInit = TRUE, ![m].procs[0] = d]
    BY <1>1 DEF StartGroup
  <2>2. d.pid = p
    BY DEF FreeProcData
  <2> QED BY <1>0, <1>1, <2>1, <2>2 DEF Shm, AllSlots
<1>6. \A g \in Figureheads, t \in AllSlots : Passed(g, t)
  <2>1. PICK run \in Figureheads, zero \in Int : run = m /\ zero = 0
    BY <1>1
  <2>2. zero \in AllSlots => shm[run].procs[zero].pid = 0
    BY <1>1, <2>1
  <2>3. \A g \in Figureheads, t \in AllSlots :
          shm'[g].procs[t].pid = IF g = run /\ t = zero THEN p ELSE shm[g].procs[t].pid
    BY <1>5, <2>1
  <2>4. run = proc[p].fig /\ proc[p].pc \in {"first", "bornInit", "bornCopy"}
    BY <1>1, <2>1
  <2> HIDE DEF m
  <2> QED BY <2>2, <2>3, <2>4, SlotTaken
<1> QED BY <1>4, <1>6 DEF Aftermath

LEMMA BirthPasses ==
  ASSUME GroupInv, AtFaultAlive, NEW p \in Pids, BirthInit(p) \/ BirthCopy(p)
  PROVE  Aftermath
<1>0. proc \in [Pids -> Processes] /\ shm \in [Figureheads -> Shm]
  BY DEF GroupInv, GroupTypeOK
<1> DEFINE m == proc[p].fig
           s == proc[p].slot
<1>1. /\ proc[p].pc \in {"bornInit", "bornCopy"} /\ Alive(p) /\ m \in Figureheads
      /\ proc[p].maps = m
  BY DEF BirthInit, BirthCopy, Alive, Ended, GroupInv, Memberships, Belongs
<1>2. s \in AllSlots /\ shm[m].procs[s].pid = 0
  <2>1. s \in AllSlots /\ s # NoSlot
    BY <1>1 DEF GroupInv, Owners, Unplaced, AllSlots, NoSlot
  <2> QED BY <1>1, <2>1 DEF GroupInv, OneProcessPerSlot
<1>3. /\ \A q \in Pids : q # p => Same(q)
      /\ proc'[p].pc \in {"pin", "app", "plr"} /\ proc'[p].fig = m
      /\ proc'[p].faulty = proc[p].faulty
  <2>1. CASE BirthInit(p)
    <3>1. \A q \in Pids : proc'[q] = IF q = p THEN [proc[p] EXCEPT !.pc = Started(p)] ELSE proc[q]
      BY <2>1 DEF BirthInit, ForksFor
    <3> QED BY <1>0, <3>1 DEF Same, Processes, Started
  <2>2. CASE BirthCopy(p)
    <3>1. proc' = [proc EXCEPT ![p].pc = "plr", ![p].copy = FreeProcData]
      BY <2>2 DEF BirthCopy
    <3> QED BY <1>0, <3>1 DEF Same, Processes
  <2> QED BY <2>1, <2>2
<1>4. \A q \in Pids : Passes(q)
  <2>1. Passes(p)
    BY <1>1, <1>3 DEF Passes, Alive, Ended
  <2> QED BY <1>3, <2>1, SamePasses
<1>5. \A g \in Figureheads, t \in AllSlots :
        shm'[g].procs[t].pid = IF g = m /\ t = s THEN p ELSE shm[g].procs[t].pid
  <2>1. CASE BirthInit(p)
    <3>1. PICK d \in {[FreeProcData EXCEPT !.pid = p, !.insidePLR = StartsInside(m, FALSE)]} :
            shm' = [shm EXCEPT ![m].didProcessInit = TRUE, ![m].procs[s] = d]
      BY <1>1, <2>1 DEF BirthInit
    <3>2. d.pid = p
      BY DEF FreeProcData
    <3> QED BY <1>0, <1>1, <3>1, <3>2 DEF Shm, AllSlots
  <2>2. CASE BirthCopy(p)
    <3>1. PICK d \in {[proc[p].copy EXCEPT !.pid = p]} : shm' = [shm EXCEPT ![m].procs[s] = d]
      BY <1>1, <2>2 DEF BirthCopy
    <3>2. d.pid = p
      BY <1>0 DEF Processes, ProcData
    <3> QED BY <1>0, <1>1, <3>1, <3>2 DEF Shm, AllSlots
  <2> QED BY <2>1, <2>2
<1>6. \A g \in Figureheads, t \in AllSlots : Passed(g, t)
  BY <1>1, <1>2, <1>5, SlotTaken
<1> QED BY <1>4, <1>6 DEF Aftermath

\* The process replaced is in no slot any more.
LEMMA ReplacePasses ==
  ASSUME GroupInv, AtFaultAlive, NEW p \in Pids, NEW s \in Slots(proc[p].maps),
         plr_replaceProcessIdx(p, s)
  PROVE  Aftermath
<1>0. proc \in [Pids -> Processes] /\ shm \in [Figureheads -> Shm]
  BY DEF GroupInv, GroupTypeOK
<1>1. PICK m \in Figureheads : m = proc[p].fig /\ m = proc[p].maps
  BY InProgram DEF plr_replaceProcessIdx
<1>2. s \in AllSlots /\ shm[m].procs[s].pid \in Pids
  <2>1. shm[m].nProc \in 0 .. MaxPid /\ s \in AllSlots
    BY <1>0, <1>1 DEF Shm, Slots, AllSlots
  <2>2. shm[m].procs[s].pid \in 0 .. MaxPid
    BY <1>0, <1>1, <2>1 DEF Shm, ProcData, AllSlots
  <2>3. shm[m].procs[s].pid # 0
    BY <1>1 DEF plr_replaceProcessIdx
  <2> QED BY <2>1, <2>2, <2>3 DEF Pids
<1>3. PICK victim \in Pids : victim = shm[m].procs[s].pid
  BY <1>2
<1>4. PICK n \in Pids : n = Used + 1 /\ proc[n].pc = "none"
  BY NextPid DEF plr_replaceProcessIdx
<1>5. victim # n /\ proc[victim].fig = m /\ victim # 0
  BY <1>2, <1>3, <1>4 DEF GroupInv, Memory, Memberships, Pids
<1> DEFINE rest == IF Alive(victim) THEN Without(proc, victim, "dead") ELSE proc
<1>6. PICK new \in {[NoProc EXCEPT !.pc = "bornCopy", !.fig = proc[p].fig, !.parent = p,
                                   !.maps = m, !.slot = s, !.copy = Mine(p)]} :
        proc' = [rest EXCEPT ![n] = new]
  BY <1>1, <1>3, <1>4 DEF plr_replaceProcessIdx
<1>7. \A g \in Figureheads, t \in AllSlots :
        shm'[g].procs[t].pid = IF g = m /\ t = s THEN 0 ELSE shm[g].procs[t].pid
  <2>1. shm' = [shm EXCEPT ![m].procs[s] = FreeProcData]
    BY <1>1 DEF plr_replaceProcessIdx
  <2> QED BY <1>0, <1>1, <2>1 DEF Shm, AllSlots, FreeProcData
<1>8. /\ rest \in [Pids -> Processes]
      /\ \A q \in Pids : q # victim => /\ rest[q].pc = proc[q].pc /\ rest[q].fig = proc[q].fig
                                       /\ rest[q].faulty = proc[q].faulty
      /\ Alive(victim) => rest[victim].pc = "dead" /\ rest[victim].fig = m /\ ~rest[victim].faulty
      /\ ~Alive(victim) => rest[victim] = proc[victim]
  <2>1. CASE Alive(victim)
    <3>1. "dead" \in Ended /\ rest = Without(proc, victim, "dead")
      BY <2>1 DEF Ended
    <3> HIDE DEF rest
    <3> QED BY <1>5, <2>1, <3>1, OthersSame
  <2>2. CASE ~Alive(victim)
    BY <1>0, <2>2
  <2> QED BY <2>1, <2>2
<1> HIDE DEF rest
<1>9. /\ proc'[n] = new
      /\ \A q \in Pids : q # n => proc'[q] = rest[q]
  BY <1>6, <1>8
<1>10. ~Alive(victim)' /\ Passes(victim)
  <2>1. CASE Alive(victim)
    <3>1. proc'[victim].pc = "dead" /\ proc'[victim].fig = m /\ ~proc'[victim].faulty
      BY <1>5, <1>8, <1>9, <2>1
    <3>2. \A g \in Figureheads, t \in AllSlots : shm[g].procs[t].pid = victim => g = m /\ t = s
      BY <1>2, <1>3, <1>5, <2>1 DEF GroupInv, Memory
    <3>3. \A g \in Figureheads, t \in AllSlots : shm'[g].procs[t].pid # victim
      BY <1>5, <1>7, <3>2
    <3> QED BY <1>5, <3>1, <3>3 DEF Passes, Alive, Ended
  <2>2. CASE ~Alive(victim)
    <3>1. proc'[victim] = proc[victim]
      BY <1>5, <1>8, <1>9, <2>2
    <3> QED BY <2>2, <3>1, SamePasses DEF Same, Alive
  <2> QED BY <2>1, <2>2
<1>11. \A q \in Pids : Passes(q)
  <2> TAKE q \in Pids
  <2>1. CASE q = n
    <3>1. proc'[n].pc = "bornCopy" /\ ~proc'[n].faulty
      BY <1>9 DEF NoProc
    <3> QED BY <1>4, <2>1, <3>1, Newborn
  <2>2. CASE q # n /\ q # victim
    <3>1. Same(q)
      BY <1>8, <1>9, <2>2 DEF Same
    <3> QED BY <3>1, SamePasses
  <2> QED BY <1>10, <2>1, <2>2
<1>12. \A g \in Figureheads, t \in AllSlots : Passed(g, t)
  <2> TAKE g \in Figureheads, t \in AllSlots
  <2>1. CASE g = m /\ t = s
    <3>1. \A q \in Pids : shm[g].procs[t].pid = q => q = victim
      BY <1>3, <2>1
    <3> QED BY <1>7, <1>10, <2>1, <3>1 DEF Passed
  <2>2. CASE ~(g = m /\ t = s)
    BY <1>7, <2>2 DEF Passed
  <2> QED BY <2>1, <2>2
<1> QED BY <1>11, <1>12 DEF Aftermath

\* A step by which process p goes on with the program, or ends of itself.
LEMMA ProcessPasses ==
  ASSUME GroupInv, AtFaultAlive, NEW p \in Pids, ProcessRuns(p)
  PROVE  Aftermath /\ UNCHANGED env
<1>0. proc \in [Pids -> Processes] /\ shm \in [Figureheads -> Shm]
  BY DEF GroupInv, GroupTypeOK
<1>1. ASSUME Alive(p), PidsStay, \A q \in Pids : q # p => proc'[q] = proc[q],
             proc'[p].pc \in {"image", "noexec", "first", "app", "plr"},
             proc'[p].fig = proc[p].fig, proc'[p].faulty = proc[p].faulty
      PROVE  Aftermath
  BY <1>1, OrdinaryStep DEF Alive, Ended, Same
<1>3. CASE Exec(p) \/ ExecFails(p)
  <2>1. /\ proc[p].pc = "fork" /\ UNCHANGED <<env, shm>>
        /\ \E where \in {"image", "noexec"} : proc' = [proc EXCEPT ![p].pc = where]
    BY <1>3 DEF Exec, ExecFails
  <2>2. Alive(p) /\ PidsStay
    BY <2>1 DEF Alive, Ended, PidsStay
  <2>3. /\ proc'[p].pc \in {"image", "noexec"} /\ proc'[p].fig = proc[p].fig
        /\ proc'[p].faulty = proc[p].faulty /\ \A q \in Pids : q # p => proc'[q] = proc[q]
    BY <1>0, <2>1 DEF Processes
  <2> QED BY <1>1, <2>1, <2>2, <2>3
<1>4. CASE ExitNoExec(p) \/ Exit(p)
  <2>1. Alive(p) /\ UNCHANGED <<env, shm>>
    BY <1>4 DEF ExitNoExec, Exit, Alive, Ended
  <2> QED BY <1>4, <2>1, EndOrdinary DEF ExitNoExec, Exit
<1>5. CASE ProcessInit(p)
  <2>1. Alive(p) /\ UNCHANGED <<env, shm>>
    BY <1>5 DEF ProcessInit, Alive, Ended
  <2>2. CASE proc' = Without(proc, p, "failed")
    BY <2>1, <2>2, EndOrdinary
  <2>3. CASE \E s \in {proc[p].slot} \cup {CHOOSE t \in OwnSlots(file, p) : TRUE} :
               \E where \in {"first", "app"} :
               proc' = [proc EXCEPT ![p].pc = where, ![p].maps = file, ![p].slot = s]
    <3>1. /\ proc'[p].pc \in {"first", "app"} /\ proc'[p].fig = proc[p].fig
          /\ proc'[p].faulty = proc[p].faulty /\ \A q \in Pids : q # p => proc'[q] = proc[q]
      BY <1>0, <2>3 DEF Processes
    <3> QED BY <1>1, <2>1, <3>1 DEF PidsStay
  <2>4. CASE proc' = [proc EXCEPT ![p].pc = "first", ![p].maps = file]
    <3>1. /\ proc'[p].pc = "first" /\ proc'[p].fig = proc[p].fig
          /\ proc'[p].faulty = proc[p].faulty /\ \A q \in Pids : q # p => proc'[q] = proc[q]
      BY <1>0, <2>4 DEF Processes
    <3> QED BY <1>1, <2>1, <3>1 DEF PidsStay
  <2> QED BY <1>5, <2>1, <2>2, <2>3, <2>4 DEF ProcessInit
<1>6. CASE ApplicationStart(p)
  <2>1. Alive(p) /\ UNCHANGED env
    BY <1>6 DEF ApplicationStart, Alive, Ended
  <2>2. CASE proc' = Without(proc, p, "failed") /\ UNCHANGED shm
    BY <2>1, <2>2, EndOrdinary
  <2>3. CASE /\ \E s \in {CHOOSE t \in OwnSlots(file, p) : TRUE} :
                  shm' = [shm EXCEPT ![file].procs[s].insidePLR = FALSE]
             /\ proc' = [proc EXCEPT ![p].pc = "image", ![p].maps = NoFile]
    <3>1. /\ proc'[p].pc = "image" /\ proc'[p].fig = proc[p].fig
          /\ proc'[p].faulty = proc[p].faulty /\ \A q \in Pids : q # p => proc'[q] = proc[q]
      BY <1>0, <2>3 DEF Processes
    <3>2. PidsStay
      BY <1>0, <2>3 DEF PidsStay, Shm, ProcData, AllSlots
    <3> QED BY <1>1, <2>1, <3>1, <3>2
  <2> QED BY <1>6, <2>1, <2>2, <2>3 DEF ApplicationStart
<1>7. CASE EnterPLR(p)
  <2>1. Alive(p) /\ UNCHANGED env
    BY <1>7 DEF EnterPLR, Alive, Ended
  <2>2. PidsStay
    BY <1>0, <1>7 DEF EnterPLR, PidsStay, Shm, ProcData, AllSlots
  <2>3. \E w : proc' = [proc EXCEPT ![p].pc = "plr", ![p].wait = w]
    BY <1>7 DEF EnterPLR
  <2>4. /\ proc'[p].pc = "plr" /\ proc'[p].fig = proc[p].fig
        /\ proc'[p].faulty = proc[p].faulty /\ \A q \in Pids : q # p => proc'[q] = proc[q]
    BY <1>0, <2>3 DEF Processes
  <2> QED BY <1>1, <2>1, <2>2, <2>4
<1>8. CASE LeavePLR(p)
  <2>1. Alive(p) /\ UNCHANGED env
    BY <1>8 DEF LeavePLR, Alive, Ended
  <2>2. PidsStay
    BY <1>0, <1>8 DEF LeavePLR, PidsStay, Shm, ProcData, AllSlots
  <2>3. /\ proc'[p].pc = "app" /\ proc'[p].fig = proc[p].fig
        /\ proc'[p].faulty = proc[p].faulty /\ \A q \in Pids : q # p => proc'[q] = proc[q]
    BY <1>0, <1>8 DEF LeavePLR, Processes
  <2> QED BY <1>1, <2>1, <2>2, <2>3
<1>9. CASE OpenExtraShm(p)
  <2>1. Alive(p) /\ UNCHANGED env /\ proc[p].pc = "plr"
    BY <1>9 DEF OpenExtraShm, Alive, Ended
  <2>2. CASE proc' = Without(proc, p, "failed") /\ UNCHANGED shm
    BY <2>1, <2>2, EndOrdinary
  <2>3. CASE /\ shm' = [shm EXCEPT ![proc[p].maps].procs[proc[p].slot].open = TRUE]
             /\ UNCHANGED proc
    <3>1. PidsStay
      BY <1>0, <2>3 DEF PidsStay, Shm, ProcData, AllSlots
    <3> QED BY <1>1, <2>1, <2>3, <3>1
  <2> QED BY <1>9, <2>1, <2>2, <2>3 DEF OpenExtraShm
<1>10. CASE StartGroup(p)
  BY <1>10, StartGroupPasses DEF StartGroup
<1>11. CASE BirthInit(p) \/ BirthCopy(p)
  BY <1>11, BirthPasses DEF BirthInit, BirthCopy
<1>12. CASE \E m \in Figureheads : proc[p].maps = m /\ \E s \in Slots(m) : plr_replaceProcessIdx(p, s)
  BY <1>12, ReplacePasses DEF plr_replaceProcessIdx
<1> QED BY <1>3, <1>4, <1>5, <1>6, <1>7, <1>8, <1>9, <1>10, <1>11, <1>12 DEF ProcessRuns, StartsUp

-----------------------------------------------------------------------------
(* Steps of the tool.                                                      *)

\* A step of process p of run m in which the tool goes on aiming at whom it did.
AimStays(p, m) ==
  /\ UNCHANGED <<env, shm>>
  /\ \A g \in Figureheads : /\ tool'[g].nextFaultPid = tool[g].nextFaultPid
                            /\ tool'[g].nextFaultIdx = tool[g].nextFaultIdx
                            /\ g # m => tool'[g].toolLock = tool[g].toolLock
  /\ \A q \in Pids : q # p => Same(q) /\ tpc'[q] = tpc[q]
  /\ m = proc[p].fig /\ proc'[p].fig = m /\ proc'[p].pc # "none"
  /\ proc'[p].faulty => Alive(p)'
  /\ Mode(m) # "off" => ToolLocked(m)'
  /\ Mode(m) # "off" /\ (proc'[p].faulty \/ proc'[p].pc = "dead" \/ tpc'[p] = "inject")
       => tool[m].nextFaultPid = p

LEMMA AimKept ==
  ASSUME Inv, TargetInv, NEW p \in Pids, Alive(p), NEW m \in Figureheads, AimStays(p, m)
  PROVE  TargetInv'
<1>0. GroupInv /\ ToolInv /\ AtFaultAlive
  BY DEF Inv, TargetInv
<1>1. \A q \in Pids : (Alive(q)' => Alive(q)) /\ (q # p => (Alive(q)' <=> Alive(q)))
  BY DEF AimStays, Same, Alive
<1>2. FaultsOfTool' /\ AtFaultAlive' /\ \A g \in Figureheads : Mode(g)' = Mode(g)
  BY <1>1 DEF AimStays, TargetInv, FaultsOfTool, AtFaultAlive, Mode, Same
<1>3. ASSUME NEW g \in Figureheads, Mode(g) # "off"
      PROVE  HitOnly(g)' /\ VictimPlaced(g)' /\ ToolLocked(g)'
  <2>1. HitOnly(g) /\ VictimPlaced(g) /\ ToolLocked(g)
    BY <1>3 DEF TargetInv
  <2>2. VictimPlaced(g)'
    BY <1>1, <2>1 DEF AimStays, VictimPlaced, Same
  <2>3. ToolLocked(g)'
    <3>1. CASE g = m
      BY <1>3, <3>1 DEF AimStays
    <3>2. CASE g # m
      BY <2>1, <3>2 DEF AimStays, ToolLocked, VictimReplaced, Same
    <3> QED BY <3>1, <3>2
  <2>4. ASSUME NEW s \in AllSlots, shm[g].procs[s].pid = p, proc'[p].pc = "dead"
        PROVE  tool[g].nextFaultPid = p /\ tool[g].nextFaultIdx = s
    <3>1. g = m /\ proc[p].slot = s /\ tool[g].nextFaultPid = p
      BY <1>0, <1>3, <2>4 DEF AimStays, GroupInv, Memory
    <3>2. shm[g].procs[tool[g].nextFaultIdx].pid = p
      BY <2>1, <3>1 DEF VictimPlaced
    <3>3. tool[g].nextFaultIdx \in AllSlots
      <4>1. shm[g].nProc \in 0 .. MaxPid
        BY <1>0 DEF GroupInv, GroupTypeOK, Shm
      <4> QED BY <1>0, <4>1 DEF ToolInv, Slots, AllSlots
    <3> QED BY <1>0, <3>1, <3>2, <3>3 DEF GroupInv, Memory
  <2>5. HitOnly(g)'
    BY <1>3, <2>1, <2>4 DEF AimStays, HitOnly, Same
  <2> QED BY <2>2, <2>3, <2>5
<1> QED BY <1>2, <1>3 DEF TargetInv

\* When there is none to be hit, or it has been replaced, nobody is at fault.
LEMMA NobodyHit ==
  ASSUME Inv, NEW m \in Figureheads, HitOnly(m), VictimPlaced(m), AtFaultAlive,
         tool[m].nextFaultPid = 0 \/ VictimReplaced(m)
  PROVE  \A q \in Pids :
           /\ proc[q].fig = m => ~proc[q].faulty /\ tpc[q] # "inject"
           /\ \A s \in AllSlots : ~(shm[m].procs[s].pid = q /\ proc[q].pc = "dead")
<1> TAKE q \in Pids
<1>1. tool[m].nextFaultPid = q => ~Alive(q)
  BY DEF VictimReplaced, VictimPlaced, Pids
<1>2. proc[q].fig = m => ~proc[q].faulty /\ tpc[q] # "inject"
  BY <1>1 DEF HitOnly, AtFaultAlive, Inv, ToolInv, Alive, Ended
<1>3. ASSUME NEW s \in AllSlots, shm[m].procs[s].pid = q, proc[q].pc = "dead"
      PROVE  FALSE
  <2>1. tool[m].nextFaultPid = q /\ tool[m].nextFaultIdx = s
    BY <1>3 DEF HitOnly
  <2> QED BY <1>3, <2>1 DEF VictimReplaced, Pids
<1> QED BY <1>2, <1>3

\* What updateNextProcToFault leaves: the choice there was, or a slot and its owner.
LEMMA Draws ==
  ASSUME Inv, NEW m \in Figureheads, NEW initialCall \in BOOLEAN,
         updateNextProcToFault(m, initialCall)
  PROVE  /\ tool'[m].toolLock = 0
         /\ \A g \in Figureheads : g # m => tool'[g] = tool[g]
         /\ \/ /\ tool'[m].nextFaultPid = tool[m].nextFaultPid
               /\ tool'[m].nextFaultIdx = tool[m].nextFaultIdx
            \/ /\ Chooses(m, initialCall) /\ tool'[m].nextFaultIdx \in AllSlots
               /\ tool'[m].nextFaultPid = shm[m].procs[tool'[m].nextFaultIdx].pid
<1>0. tool \in [Figureheads -> ToolData] /\ tool[m] \in ToolData /\ shm[m] \in Shm
  BY DEF Inv, ToolInv, GroupInv, GroupTypeOK
<1>1. PICK t \in IF Chooses(m, initialCall) THEN {Drawn(m, idx) : idx \in Slots(m)} ELSE {tool[m]},
           n \in Targets :
        tool' = [tool EXCEPT ![m] = [t EXCEPT !.eventCount = 0, !.targetCount = n, !.toolLock = 0]]
  BY DEF updateNextProcToFault
<1>2. /\ t \in [toolLock : 0 .. MaxPid, faultInjected : BOOLEAN, nextFaultIdx : Int,
                nextFaultPid : Int, eventCount : Nat, targetCount : Nat]
      /\ \/ t.nextFaultPid = tool[m].nextFaultPid /\ t.nextFaultIdx = tool[m].nextFaultIdx
         \/ /\ Chooses(m, initialCall) /\ t.nextFaultIdx \in AllSlots
            /\ t.nextFaultPid = shm[m].procs[t.nextFaultIdx].pid
  <2>1. CASE t = tool[m]
    BY <1>0, <2>1 DEF ToolData
  <2>2. ASSUME Chooses(m, initialCall), NEW idx \in Slots(m), t = Drawn(m, idx), t # tool[m]
        PROVE  /\ t \in [toolLock : 0 .. MaxPid, faultInjected : BOOLEAN, nextFaultIdx : Int,
                         nextFaultPid : Int, eventCount : Nat, targetCount : Nat]
               /\ t.nextFaultIdx \in AllSlots
               /\ t.nextFaultPid = shm[m].procs[t.nextFaultIdx].pid
    <3>1. idx \in AllSlots /\ idx \in Int /\ shm[m].procs[idx].pid \in Int
      BY <1>0 DEF Slots, Shm, ProcData, AllSlots
    <3>2. t = [tool[m] EXCEPT !.nextFaultPid = shm[m].procs[idx].pid, !.nextFaultIdx = idx,
                              !.faultInjected = FALSE]
      BY <2>2 DEF Drawn, Targeting
    <3> QED BY <1>0, <3>1, <3>2 DEF ToolData
  <2> QED BY <1>1, <2>1, <2>2
<1> QED BY <1>0, <1>1, <1>2

\* The choice of the one to be hit.
LEMMA ChoiceKeeps ==
  ASSUME Inv, TargetInv, NEW p \in Pids, InitialCall(p) \/ Update(p)
  PROVE  TargetInv'
<1>0. GroupInv /\ ToolInv /\ AtFaultAlive
  BY DEF Inv, TargetInv
<1>1. tpc[p] # "idle" /\ UNCHANGED <<env, file, fig, pipe, shm, proc>>
  BY DEF InitialCall, Update, groupVars
<1>2. PICK m \in Figureheads : m = proc[p].fig /\ Alive(p)
  BY <1>0, <1>1, InTool DEF ToolInv
<1>3. PICK initialCall \in BOOLEAN :
        /\ updateNextProcToFault(m, initialCall)
        /\ IF initialCall THEN tool[m].toolLock = 0 ELSE tpc[p] = "update"
  BY <1>2 DEF InitialCall, Update
<1>4. /\ \A q \in Pids : q # p => tpc'[q] = tpc[q]
      /\ tpc'[p] \in {"idle", "decide"}
  BY <1>0 DEF InitialCall, Update, Goto, ToolInv
<1>5. FaultsOfTool' /\ AtFaultAlive' /\ \A g \in Figureheads : Mode(g)' = Mode(g)
  BY <1>1 DEF TargetInv, FaultsOfTool, AtFaultAlive, Mode, Alive
<1>6. ASSUME NEW g \in Figureheads, Mode(g) # "off"
      PROVE  HitOnly(g)' /\ VictimPlaced(g)' /\ ToolLocked(g)'
  <2>1. HitOnly(g) /\ VictimPlaced(g) /\ ToolLocked(g)
    BY <1>6 DEF TargetInv
  <2>2. CASE g # m
    <3>1. tool'[g] = tool[g]
      BY <1>3, <2>2, Draws
    <3>2. \A q \in Pids : proc[q].fig = g => tpc'[q] = tpc[q]
      BY <1>2, <1>4, <2>2
    <3>3. HitOnly(g)'
      BY <1>1, <2>1, <3>1, <3>2 DEF HitOnly
    <3>4. VictimPlaced(g)'
      BY <1>1, <2>1, <3>1 DEF VictimPlaced, Alive
    <3>5. ToolLocked(g)'
      BY <1>1, <2>1, <3>1, <3>2 DEF ToolLocked, VictimReplaced
    <3> QED BY <3>3, <3>4, <3>5
  <2>3. CASE g = m
    <3>1. ToolLocked(m)'
      <4>1. \A q \in Pids : q # p /\ proc[q].fig = m => tpc[q] \notin {"locked", "update"}
        BY <1>2, <1>3, <2>1, <2>3 DEF ToolLocked, Pids
      <4> QED BY <1>1, <1>4, <4>1 DEF ToolLocked
    <3>2. CASE /\ tool'[m].nextFaultPid = tool[m].nextFaultPid
               /\ tool'[m].nextFaultIdx = tool[m].nextFaultIdx
      <4>1. HitOnly(m)'
        BY <1>1, <1>4, <2>1, <2>3, <3>2 DEF HitOnly
      <4>2. VictimPlaced(m)'
        BY <1>1, <2>1, <2>3, <3>2 DEF VictimPlaced, Alive
      <4> QED BY <2>3, <3>1, <4>1, <4>2
    <3>3. CASE /\ Chooses(m, initialCall) /\ tool'[m].nextFaultIdx \in AllSlots
               /\ tool'[m].nextFaultPid = shm[m].procs[tool'[m].nextFaultIdx].pid
      <4>1. tool[m].nextFaultPid = 0 \/ VictimReplaced(m)
        BY <1>2, <1>3, <2>1, <2>3, <3>3 DEF Chooses, ToolLocked
      <4>2. \A q \in Pids :
              /\ proc[q].fig = m => ~proc[q].faulty /\ tpc[q] # "inject"
              /\ \A s \in AllSlots : ~(shm[m].procs[s].pid = q /\ proc[q].pc = "dead")
        BY <1>0, <2>1, <2>3, <4>1, NobodyHit
      <4>3. HitOnly(m)'
        BY <1>1, <1>4, <4>2 DEF HitOnly
      <4>4. VictimPlaced(m)'
        <5> SUFFICES ASSUME NEW q \in Pids, tool'[m].nextFaultPid = q
                     PROVE  proc[q].pc # "none" /\ shm[m].procs[tool'[m].nextFaultIdx].pid = q
          BY <1>1 DEF VictimPlaced
        <5>1. proc[q].fig = m
          BY <1>0, <3>3 DEF GroupInv, Memory
        <5> QED BY <1>0, <3>3, <5>1 DEF GroupInv, Memberships
      <4> QED BY <2>3, <3>1, <4>3, <4>4
    <3> QED BY <1>3, <3>2, <3>3, Draws
  <2> QED BY <2>2, <2>3
<1> QED BY <1>5, <1>6 DEF TargetInv

\* The other steps of the tool.
LEMMA ToolKeepsTarget ==
  ASSUME Inv, TargetInv, NEW p \in Pids, ToolRuns(p) \/ Event(p) \/ DieOfFault(p)
  PROVE  TargetInv'
<1>0. /\ GroupInv /\ ToolInv /\ AtFaultAlive
      /\ tool \in [Figureheads -> ToolData] /\ tpc \in [Pids -> ToolPCs]
  BY DEF Inv, TargetInv, ToolInv
<1>1. Alive(p) /\ proc[p].fig \in Figureheads
  <2>1. tpc[p] # "idle" \/ Alive(p)
    BY DEF ToolRuns, InitialCall, TakeToolLock, CheckVictim, Update, Decide, InjectTrace, InjectIns,
           Event, Instrumented, DieOfFault
  <2>2. tpc[p] # "idle" => Alive(p)
    BY <1>0, InTool DEF ToolInv
  <2> QED BY <1>0, <2>1, <2>2 DEF GroupInv, Memberships, Belongs
<1>2. PICK m \in Figureheads : m = proc[p].fig
  BY <1>1
<1>3. Mode(m) # "off" => HitOnly(m) /\ VictimPlaced(m) /\ ToolLocked(m)
  BY DEF TargetInv
<1>4. p # 0 /\ \A q \in Pids : q # 0
  BY DEF Pids
<1>5. ASSUME UNCHANGED groupVars, NEW where, tpc' = [tpc EXCEPT ![p] = where],
             \A g \in Figureheads : /\ tool'[g].nextFaultPid = tool[g].nextFaultPid
                                    /\ tool'[g].nextFaultIdx = tool[g].nextFaultIdx
                                    /\ g # m => tool'[g].toolLock = tool[g].toolLock,
             where = "inject" => tool[m].nextFaultPid = p,
             Mode(m) # "off" => ToolLocked(m)'
      PROVE  TargetInv'
  <2>1. UNCHANGED <<env, file, fig, pipe, shm, proc>>
    BY <1>5 DEF groupVars
  <2>2. tpc'[p] = where /\ \A q \in Pids : q # p => Same(q) /\ tpc'[q] = tpc[q]
    BY <1>0, <1>5, <2>1 DEF Same
  <2>3. proc[p].pc \notin {"none", "dead"}
    BY <1>1 DEF Alive, Ended
  <2>4. Mode(m) # "off" /\ proc[p].faulty => tool[m].nextFaultPid = p
    BY <1>2, <1>3 DEF HitOnly
  <2>5. Alive(p)' <=> Alive(p)
    BY <2>1 DEF Alive
  <2>6. AimStays(p, m)
    BY <1>1, <1>2, <1>5, <2>1, <2>2, <2>3, <2>4, <2>5 DEF AimStays
  <2> QED BY <1>1, <2>6, AimKept
<1>6. ASSUME UNCHANGED <<env, shm>>, tpc' = [tpc EXCEPT ![p] = "idle"],
             \A q \in Pids : q # p => Same(q), proc'[p].fig = m, proc'[p].pc # "none",
             proc'[p].faulty => Alive(p)',
             Mode(m) # "off" => tool[m].nextFaultPid = p,
             \A g \in Figureheads : /\ tool'[g].nextFaultPid = tool[g].nextFaultPid
                                    /\ tool'[g].nextFaultIdx = tool[g].nextFaultIdx
                                    /\ tool'[g].toolLock = tool[g].toolLock
      PROVE  TargetInv'
  <2>1. tpc'[p] = "idle" /\ \A q \in Pids : q # p => Same(q) /\ tpc'[q] = tpc[q]
    BY <1>0, <1>6
  <2>2. ASSUME Mode(m) # "off"
        PROVE  ToolLocked(m)'
    BY <1>3, <1>6, <2>1, <2>2 DEF ToolLocked, VictimReplaced, Same
  <2>3. AimStays(p, m)
    BY <1>2, <1>6, <2>1, <2>2 DEF AimStays
  <2> QED BY <1>1, <2>3, AimKept
<1>7. CASE InitialCall(p) \/ Update(p)
  BY <1>7, ChoiceKeeps
<1>8. CASE TakeToolLock(p)
  <2>1. /\ UNCHANGED groupVars /\ tpc' = [tpc EXCEPT ![p] = "locked"]
        /\ tool[m].toolLock = 0 /\ tool' = [tool EXCEPT ![m].toolLock = p]
    BY <1>2, <1>8 DEF TakeToolLock, Goto
  <2>2. /\ \A g \in Figureheads : /\ tool'[g].nextFaultPid = tool[g].nextFaultPid
                                  /\ tool'[g].nextFaultIdx = tool[g].nextFaultIdx
                                  /\ g # m => tool'[g].toolLock = tool[g].toolLock
        /\ tool'[m].toolLock = p
    BY <1>0, <2>1 DEF ToolData
  <2>3. ASSUME Mode(m) # "off"
        PROVE  ToolLocked(m)'
    <3>1. \A q \in Pids : q # p => tpc'[q] = tpc[q]
      BY <1>0, <2>1
    <3>2. tpc'[p] = "locked"
      BY <1>0, <2>1
    <3>3. \A q \in Pids : proc[q].fig = m => tpc[q] \notin {"locked", "update"}
      BY <1>3, <1>4, <2>1, <2>3 DEF ToolLocked
    <3> QED BY <2>1, <2>2, <3>1, <3>2, <3>3 DEF ToolLocked, groupVars
  <2> QED BY <1>5, <2>1, <2>2, <2>3
<1>9. CASE CheckVictim(p)
  <2>1. UNCHANGED groupVars /\ tpc[p] = "locked"
    BY <1>9 DEF CheckVictim
  <2>2. CASE VictimReplaced(m) /\ tpc' = [tpc EXCEPT ![p] = "update"] /\ UNCHANGED tool
    <3>1. ASSUME Mode(m) # "off"
          PROVE  ToolLocked(m)'
      <4>1. tpc'[p] = "update" /\ \A q \in Pids : q # p => tpc'[q] = tpc[q]
        BY <1>0, <2>2
      <4> QED BY <1>2, <1>3, <2>1, <2>2, <3>1, <4>1 DEF ToolLocked, VictimReplaced, groupVars
    <3> QED BY <1>5, <2>1, <2>2, <3>1
  <2>3. CASE tpc' = [tpc EXCEPT ![p] = "decide"] /\ tool' = [tool EXCEPT ![m].toolLock = 0]
    <3>1. \A g \in Figureheads : /\ tool'[g].nextFaultPid = tool[g].nextFaultPid
                                 /\ tool'[g].nextFaultIdx = tool[g].nextFaultIdx
                                 /\ g # m => tool'[g].toolLock = tool[g].toolLock
      BY <1>0, <2>3 DEF ToolData
    <3>2. ASSUME Mode(m) # "off"
          PROVE  ToolLocked(m)'
      <4>1. tpc'[p] = "decide" /\ \A q \in Pids : q # p => tpc'[q] = tpc[q]
        BY <1>0, <2>3
      <4>2. \A q \in Pids : q # p /\ proc[q].fig = m => tpc[q] \notin {"locked", "update"}
        BY <1>2, <1>3, <2>1, <3>2 DEF ToolLocked
      <4> QED BY <2>1, <4>1, <4>2 DEF ToolLocked, groupVars
    <3> QED BY <1>5, <2>1, <2>3, <3>1, <3>2
  <2> QED BY <1>2, <1>9, <2>2, <2>3 DEF CheckVictim, Goto
<1>10. ASSUME UNCHANGED groupVars, NEW where \in {"idle", "suspect", "decide", "inject"},
              tpc' = [tpc EXCEPT ![p] = where],
              where = "inject" => tool[m].nextFaultPid = p,
              tool' = tool \/ tool' = [tool EXCEPT ![m].eventCount = @ + 1]
       PROVE  TargetInv'
  <2>1. \A g \in Figureheads : /\ tool'[g].nextFaultPid = tool[g].nextFaultPid
                               /\ tool'[g].nextFaultIdx = tool[g].nextFaultIdx
                               /\ tool'[g].toolLock = tool[g].toolLock
    BY <1>0, <1>10 DEF ToolData
  <2>2. ASSUME Mode(m) # "off"
        PROVE  ToolLocked(m)'
    <3>1. tpc'[p] = where /\ \A q \in Pids : q # p => tpc'[q] = tpc[q]
      BY <1>0, <1>10
    <3> QED BY <1>3, <1>10, <2>1, <2>2, <3>1 DEF ToolLocked, VictimReplaced, groupVars
  <2> QED BY <1>5, <1>10, <2>1, <2>2
<1>11. CASE Decide(p)
  <2>1. CASE /\ Counts(p) /\ tool' = [tool EXCEPT ![m].eventCount = @ + 1]
             /\ \E where \in {"inject", "idle"} : tpc' = [tpc EXCEPT ![p] = where]
    BY <1>2, <1>10, <1>11, <2>1 DEF Decide, Counts
  <2>2. CASE UNCHANGED tool /\ tpc' = [tpc EXCEPT ![p] = "idle"]
    BY <1>10, <1>11, <2>2 DEF Decide
  <2> QED BY <1>2, <1>11, <2>1, <2>2 DEF Decide, Goto
<1>12. CASE Event(p)
  <2>1. /\ UNCHANGED groupVars /\ tool' = tool
        /\ \E where \in {"suspect", "decide"} : tpc' = [tpc EXCEPT ![p] = where]
    BY <1>12 DEF Event, Goto
  <2> QED BY <1>10, <2>1
<1>13. CASE InjectTrace(p) \/ DieOfFault(p)
  <2>1. UNCHANGED <<env, shm>> /\ proc' = Without(proc, p, "dead")
    BY <1>13 DEF InjectTrace, DieOfFault
  <2>2. tpc' = [tpc EXCEPT ![p] = "idle"]
    BY <1>0, <1>13 DEF InjectTrace, DieOfFault, Goto
  <2>3. /\ proc'[p].pc = "dead" /\ proc'[p].fig = m /\ ~proc'[p].faulty
        /\ \A q \in Pids : q # p => Same(q)
    BY <1>0, <1>1, <1>2, <2>1, OthersSame DEF Same, Ended
  <2>4. Mode(m) # "off" => tool[m].nextFaultPid = p
    BY <1>2, <1>3, <1>13 DEF HitOnly, InjectTrace, DieOfFault
  <2>5. \A g \in Figureheads : /\ tool'[g].nextFaultPid = tool[g].nextFaultPid
                               /\ tool'[g].nextFaultIdx = tool[g].nextFaultIdx
                               /\ tool'[g].toolLock = tool[g].toolLock
    BY <1>0, <1>2, <1>13 DEF InjectTrace, DieOfFault, ToolData
  <2> QED BY <1>6, <2>1, <2>2, <2>3, <2>4, <2>5
<1>14. CASE InjectIns(p)
  <2>1. UNCHANGED <<env, shm>> /\ proc' = [proc EXCEPT ![p].faulty = TRUE]
    BY <1>14 DEF InjectIns
  <2>2. tpc' = [tpc EXCEPT ![p] = "idle"]
    BY <1>14 DEF InjectIns, Goto
  <2>3. /\ proc'[p].pc = proc[p].pc /\ proc'[p].fig = m /\ \A q \in Pids : q # p => Same(q)
    BY <1>0, <1>2, <2>1 DEF Same, GroupInv, GroupTypeOK, Processes
  <2>4. Mode(m) # "off" => tool[m].nextFaultPid = p
    BY <1>2, <1>3, <1>14 DEF HitOnly, InjectIns
  <2>5. PICK n : tool' = [tool EXCEPT ![m].faultInjected = TRUE, ![m].eventCount = 0,
                                      ![m].targetCount = n]
    BY <1>2, <1>14 DEF InjectIns
  <2>6. \A g \in Figureheads : /\ tool'[g].nextFaultPid = tool[g].nextFaultPid
                               /\ tool'[g].nextFaultIdx = tool[g].nextFaultIdx
                               /\ tool'[g].toolLock = tool[g].toolLock
    BY <1>0, <2>5 DEF ToolData
  <2>7. Alive(p)' /\ proc'[p].pc # "none"
    BY <1>1, <2>3 DEF Alive
  <2> QED BY <1>6, <2>1, <2>2, <2>3, <2>4, <2>6, <2>7
<1> QED BY <1>7, <1>8, <1>9, <1>11, <1>12, <1>13, <1>14 DEF ToolRuns

\* A fault of the scenario.
LEMMA FaultKeepsTarget ==
  ASSUME Inv, TargetInv, NEW p \in Pids, Fault(p)
  PROVE  TargetInv'
<1>1. /\ env.crashes > 0 /\ Alive(p) /\ env' = [env EXCEPT !.crashes = @ - 1]
      /\ \E runs \in SUBSET Figureheads : env \in Environment(runs)
  BY DEF Fault, Inv, GroupInv, GroupTypeOK
<1>2. env'.opts = env.opts /\ \A f \in DOMAIN env.opts : env.opts[f].pintoolMode = "off"
  BY <1>1 DEF TargetInv, FaultsOfTool, Environment
<1>3. \A m \in Figureheads : Mode(m)' = "off"
  BY <1>2 DEF Mode
<1>4. AtFaultAlive'
  <2>1. CASE proc' = Without(proc, p, "dead")
    <3>1. /\ ~proc'[p].faulty
          /\ \A q \in Pids : q # p => proc'[q].pc = proc[q].pc /\ proc'[q].faulty = proc[q].faulty
      BY <1>1, <2>1, OthersSame DEF Inv, Ended
    <3> QED BY <3>1 DEF TargetInv, AtFaultAlive, Alive
  <2>2. CASE proc' = [proc EXCEPT ![p].faulty = TRUE]
    <3>1. /\ proc'[p].pc = proc[p].pc
          /\ \A q \in Pids : q # p => proc'[q] = proc[q]
      BY <2>2 DEF Inv, GroupInv, GroupTypeOK, Processes
    <3> QED BY <1>1, <3>1 DEF TargetInv, AtFaultAlive, Alive
  <2> QED BY <2>1, <2>2 DEF Fault
<1> QED BY <1>2, <1>3, <1>4 DEF TargetInv, FaultsOfTool

-----------------------------------------------------------------------------
(* The theorem.                                                            *)

\* Every step of the group, of the tool, or of neither.
LEMMA StepTarget == Inv /\ TargetInv /\ [ToolNext]_vars => TargetInv'
<1> SUFFICES ASSUME Inv, TargetInv, [ToolNext]_vars PROVE TargetInv'
  OBVIOUS
<1>0. GroupInv /\ ToolInv /\ AtFaultAlive
  BY DEF Inv, TargetInv
<1>1. ASSUME NEW f \in Figureheads, FigureheadRuns(f) \/ KillFigurehead(f), UNCHANGED <<tool, tpc>>
      PROVE  TargetInv'
  <2>1. Aftermath /\ env'.opts = env.opts /\ env'.crashes = env.crashes
    BY <1>0, <1>1, FigureheadPasses
  <2>2. UNCHANGED tool /\ \A q \in Pids : tpc'[q] \in {tpc[q], "idle", "first"}
    BY <1>1
  <2> QED BY <2>1, <2>2, AftermathKeeps
<1>2. ASSUME NEW p \in Pids, ProgramRuns(p)
      PROVE  TargetInv'
  <2>1. Aftermath /\ UNCHANGED env
    BY <1>0, <1>2, ProcessPasses DEF ProgramRuns
  <2>2. UNCHANGED tool /\ \A q \in Pids : tpc'[q] \in {tpc[q], "idle", "first"}
    BY <1>2 DEF ProgramRuns, ToolFollows
  <2> QED BY <2>1, <2>2, AftermathKeeps
<1>3. ASSUME NEW p \in Pids, ToolRuns(p) \/ Event(p) \/ DieOfFault(p)
      PROVE  TargetInv'
  BY <1>3, ToolKeepsTarget
<1>4. ASSUME NEW p \in Pids, Fault(p)
      PROVE  TargetInv'
  BY <1>4, FaultKeepsTarget
<1>5. CASE UNCHANGED vars
  <2>1. UNCHANGED <<env, shm, proc, tool, tpc>>
    BY <1>5 DEF vars, groupVars
  <2>2. FaultsOfTool' /\ AtFaultAlive' /\ \A m \in Figureheads : Mode(m)' = Mode(m)
    BY <2>1 DEF TargetInv, FaultsOfTool, AtFaultAlive, Alive, Mode
  <2>3. \A m \in Figureheads : /\ HitOnly(m)' <=> HitOnly(m)
                               /\ VictimPlaced(m)' <=> VictimPlaced(m)
                               /\ ToolLocked(m)' <=> ToolLocked(m)
    BY <2>1 DEF HitOnly, VictimPlaced, Alive, ToolLocked, VictimReplaced
  <2> QED BY <2>2, <2>3 DEF TargetInv
<1> QED BY <1>1, <1>2, <1>3, <1>4, <1>5 DEF ToolNext

\* No second process of a group is at fault before the tool has seen the first
\* replaced (pinFaultInject.cpp:76-84), whoever starts, ends and is replaced meanwhile.
THEOREM ToolHitsOneAtATime == ToolAlone => (ToolSpec => []OneFaultyAtATime)
<1> SUFFICES ASSUME ToolAlone PROVE ToolSpec => []OneFaultyAtATime
  OBVIOUS
<1>1. ToolInit => TargetInv
  <2> SUFFICES ASSUME ToolInit PROVE TargetInv
    OBVIOUS
  <2>1. /\ env \in Scenarios /\ \A p \in Pids : proc[p] = NoProc /\ tpc[p] = "idle"
        /\ \A m \in Figureheads : tool[m].nextFaultPid = 0
    BY DEF ToolInit, Init
  <2>2. \A p \in Pids : proc[p].fig = NoFile /\ ~proc[p].faulty /\ proc[p].pc = "none" /\ p # 0
    BY <2>1 DEF NoProc, Pids
  <2> QED BY <2>1, <2>2 DEF TargetInv, FaultsOfTool, ToolAlone, AtFaultAlive, HitOnly,
                            VictimPlaced, ToolLocked
<1>2. Inv /\ TargetInv => OneFaultyAtATime
  <2> SUFFICES ASSUME Inv, TargetInv, NEW m \in Figureheads, Mode(m) # "off"
               PROVE  Cardinality({s \in Slots(m) :
                        LET v == shm[m].procs[s].pid
                        IN v # 0 /\ (proc[v].pc = "dead" \/ proc[v].faulty)}) <= 1
    BY DEF OneFaultyAtATime
  <2> DEFINE atFault == {s \in Slots(m) :
                           LET v == shm[m].procs[s].pid
                           IN v # 0 /\ (proc[v].pc = "dead" \/ proc[v].faulty)}
  <2>0. HitOnly(m) /\ VictimPlaced(m) /\ AtFaultAlive /\ GroupInv /\ ToolInv
    BY DEF Inv, TargetInv
  <2>1. Slots(m) \subseteq AllSlots /\ shm[m].procs \in [AllSlots -> ProcData]
        /\ shm[m].nProc \in 0 .. MaxPid
    BY <2>0 DEF GroupInv, GroupTypeOK, Shm, Slots, AllSlots
  <2>2. ASSUME NEW s \in atFault
        PROVE  s = tool[m].nextFaultIdx
    <3>1. PICK v \in Pids : v = shm[m].procs[s].pid
      BY <2>1 DEF ProcData, Pids
    <3>2. proc[v].fig = m /\ (Alive(v) => proc[v].slot = s) /\ s \in AllSlots
      BY <2>0, <2>1, <3>1 DEF GroupInv, Memory
    <3>3. CASE proc[v].pc = "dead"
      BY <2>0, <3>1, <3>2, <3>3 DEF HitOnly
    <3>4. CASE proc[v].faulty
      <4>1. Alive(v) /\ tool[m].nextFaultPid = v
        BY <2>0, <3>2, <3>4 DEF HitOnly, AtFaultAlive
      <4>2. shm[m].procs[tool[m].nextFaultIdx].pid = v
        BY <2>0, <4>1 DEF VictimPlaced
      <4>3. tool[m].nextFaultIdx \in AllSlots
        BY <2>0, <2>1, <3>2 DEF ToolInv, Slots, AllSlots
      <4> QED BY <2>0, <3>2, <4>1, <4>2, <4>3 DEF GroupInv, Memory
    <3> QED BY <3>1, <3>3, <3>4
  <2>3. atFault \subseteq {tool[m].nextFaultIdx}
    BY <2>2
  <2> HIDE DEF atFault
  <2>4. IsFiniteSet({tool[m].nextFaultIdx}) /\ Cardinality({tool[m].nextFaultIdx}) = 1
    BY FS_Singleton
  <2>5. Cardinality(atFault) <= 1
    BY <2>3, <2>4, FS_Subset
  <2> QED BY <2>5 DEF atFault
<1>3. ToolInit => Inv
  BY InitInv
<1> QED BY <1>1, <1>2, <1>3, StepInv, StepTarget, PTL DEF ToolSpec
=============================================================================
