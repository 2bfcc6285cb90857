\* Two runs of plr in one process group, by themselves, with faults, with a launch
\* that fails, with a figurehead that is killed, and under the tool.
SPECIFICATION ToolFairSpec
CHECK_DEADLOCK FALSE
CONSTANTS
  f1 = f1
  f2 = f2
  Figureheads = {f1, f2}
  NoFile = NoFile
  Outside = Outside
  MaxPid = 5
  NsPerMs = 2
  MsPerSec = 2
  Scenarios <- Usual
  Times <- Clock
  Targets = {2}
INVARIANTS
  TypeOK
  FileOutlivesGroup
  OneProcessPerSlot
  EveryoneFindsItsPlace
  DeadlineKept
  OneFaultyAtATime
PROPERTIES
  LaunchCompletes
  NameFreed
  SomebodyIsHit
  NextVictimChosen
