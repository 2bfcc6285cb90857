\* Standard input read by stream: a regular file, whose description all replicas
\* share. No fault at all.
SPECIFICATION Spec
CHECK_DEADLOCK FALSE
CONSTANTS
  BufSize = 2
  Programs <- SharedStdin
INVARIANTS
  NoFalseAlarm
