\* One process dies while it waits in a barrier. No timer is ever early.
SPECIFICATION Spec
CONSTANTS
  NProc = 3
  Program <- WriteBetween
  Good = good
  Corruptions = {bad}
  CrashPoints <- Waiting
  MaxFaults = 1
  MaxFaulty = 1
  EagerTimer = FALSE
  StreamErrors = FALSE
INVARIANT NobodyLeftBehind
