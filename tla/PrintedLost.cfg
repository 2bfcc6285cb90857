\* Something is printed, and one replica dies before it gets to the file.
SPECIFICATION Spec
CHECK_DEADLOCK FALSE
CONSTANTS
  BufSize = 2
  Programs <- PrintsAndDies
INVARIANTS
  OutputOnce
