\* Two processes may be faulty at once, in different ways, or die with the lock
\* in hand, and the master's stdio call may fail. Timers never overtake a
\* process that can move. The three barriers of an fwrite.
SPECIFICATION Spec
CONSTANTS
  NProc = 3
  Program <- Fwrite
  Good = good
  Corruptions = {bad, worse}
  CrashPoints <- AwakeInPLR
  MaxFaults = 2
  MaxFaulty = 2
  EagerTimer = FALSE
  StreamErrors = TRUE
INVARIANTS
  TypeOK
  MutexExcludes
  ArrivalsCounted
  OpensWhenAllArrived
  Lockstep
  NobodyLeftAsleep
  SomebodyOpens
  SlotInStep
  ResultIsOwn
  EffectsInOrder
CHECK_DEADLOCK FALSE
