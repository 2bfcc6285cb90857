\* No process is faulty, but any may be slower than the watchdog at any time: a
\* timer may fire whenever its process waits. A write among calls that are only
\* voted on: five barriers, so that a count left behind in one barrier is met
\* again two and four barriers later, and the third of them is the master's.
SPECIFICATION Spec
CONSTANTS
  NProc = 3
  Program <- WriteAmong
  Good = good
  Corruptions = {bad}
  CrashPoints <- Nowhere
  MaxFaults = 0
  MaxFaulty = 0
  EagerTimer = TRUE
  StreamErrors = FALSE
INVARIANTS
  MutexExcludes
  SlotInStep
  WatchdogsTakeTurns
  NobodyUncounted
CONSTRAINT FewLeftovers
CHECK_DEADLOCK FALSE
