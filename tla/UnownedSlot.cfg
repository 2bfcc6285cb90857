\* One process shows wrong arguments and is outvoted; its replacement may be slow
\* to take the lock for the first time.
SPECIFICATION Spec
CONSTANTS
  NProc = 3
  Program <- WriteThenClose
  Good = good
  Corruptions = {bad}
  CrashPoints <- Nowhere
  MaxFaults = 1
  MaxFaulty = 1
  EagerTimer = TRUE
  StreamErrors = FALSE
PROPERTY ReplacesOneProcess
