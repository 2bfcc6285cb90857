\* Programs on one file, by descriptor and by stream, opened by the program or
\* shared from the start; where a program's "deaths" is 1, any replica may die
\* anywhere outside a barrier. Buffers of 2 bytes make every stream cross one.
SPECIFICATION Spec
CHECK_DEADLOCK FALSE
CONSTANTS
  BufSize = 2
  Programs <- Supported
INVARIANTS
  TypeOK
  RepliesAgree
  StreamsAgree
  NoFalseAlarm
PROPERTIES
  ActsAsOneProcess
  CopiesInsideMapping
