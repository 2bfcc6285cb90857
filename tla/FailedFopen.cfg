\* fopen of a file that does not exist. No fault at all.
SPECIFICATION Spec
CHECK_DEADLOCK FALSE
CONSTANTS
  BufSize = 2
  Programs <- FailedOpen
INVARIANTS
  RepliesAgree
