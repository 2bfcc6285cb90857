\* Any one process at a time is faulty, twice in a row: it shows other
\* arguments, now or later, or dies outside the barriers. Timers never overtake
\* a process that can move. All 3 replicas, both barriers of a write and the
\* one of a close.
SPECIFICATION FairSpec
CONSTANTS
  NProc = 3
  Program <- WriteThenClose
  Good = good
  Corruptions = {bad}
  CrashPoints <- Tolerated
  MaxFaults = 2
  MaxFaulty = 1
  EagerTimer = FALSE
  StreamErrors = FALSE
INVARIANTS
  SlotInStep
  NobodyGivesUp
PROPERTIES
  ActsAsOne
  OnlyFaultyReplaced
  EverybodyExits
  GroupFinishes
