\* One slave dies after the check of a write and before its master action. No
\* timer is ever early.
SPECIFICATION FairSpec
CONSTANTS
  NProc = 3
  Program <- WriteThenClose
  Good = good
  Corruptions = {bad}
  CrashPoints <- SlaveBeforeMaster
  MaxFaults = 1
  MaxFaulty = 1
  EagerTimer = FALSE
  StreamErrors = FALSE
PROPERTY EverybodyExits
