---------------------------- MODULE MCReplicaFiles ----------------------------
(***************************************************************************)
(* Programs for TLC to run ReplicaFiles on.                                *)
(***************************************************************************)
EXTENDS ReplicaFiles

FRead(n) == [op |-> "fread", size |-> 1, nmemb |-> n]
Reading(op, n) == [op |-> op, n |-> n]
Writing(op, bytes) == [op |-> op, bytes |-> bytes]
SeekTo(offs) == [op |-> "fseek", offs |-> offs]
Opening(op, flags) == [op |-> op, flags |-> flags]
Plain(op) == [op |-> op]

NoFile == [exists |-> FALSE, data |-> << >>, seeks |-> TRUE]
Text == [exists |-> TRUE, data |-> <<1, NL, 2, 3, 4>>, seeks |-> TRUE]
PipeOf(bytes) == [exists |-> TRUE, data |-> bytes, seeks |-> FALSE]
W == {"creat", "trunc"}

\* A stream opened by the program and read to its end and beyond, from the
\* middle again, and closed; two of the calls ask for nothing.
ReadsText ==
  [file |-> Text, std |-> "none", deaths |-> 0,
   calls |-> <<Opening("fopen", {"read"}), Plain("fgetc"), Reading("fgets", 1), Plain("gets"),
               Reading("fgets", 4), Plain("fgetc"), SeekTo(1), FRead(0), FRead(3),
               Plain("close")>>]

\* Written through a stream, with seeks; one replica dies.
WritesText ==
  [file |-> NoFile, std |-> "none", deaths |-> 1,
   calls |-> <<Plain("getpid"), Opening("fopen", W), Writing("fwrite", <<1, 2>>),
               Writing("fputc", <<3>>), SeekTo(1), Writing("fputs", <<4>>),
               Writing("puts", <<5>>)>>]

\* Descriptors: a file created exclusively, written, closed, read, deleted, and
\* created again; opening it once too often fails. One replica dies.
UsesDescriptors ==
  [file |-> NoFile, std |-> "none", deaths |-> 1,
   calls |-> <<Opening("open", {"creat", "excl"}), Writing("write", <<1, 2, 3>>),
               Plain("close"), Opening("open", {"creat", "excl"}),
               Opening("open", {}), Reading("read", 2), Plain("close"),
               Plain("unlink"), Opening("open", {})>>]

\* Standard input, whose description the replicas share, by descriptor, with a
\* read of nothing.
ReadsStdin ==
  [file |-> Text, std |-> "in", deaths |-> 1,
   calls |-> <<Reading("read", 2), Reading("read", 0), Reading("read", 2), Reading("read", 2)>>]

\* Standard output by stream, and what is printed at the end.
WritesStdout ==
  [file |-> NoFile, std |-> "out", deaths |-> 0,
   calls |-> <<Writing("fputs", <<1>>), Writing("printf", <<2>>),
               Writing("puts", <<3>>), Writing("printf_chk", <<4>>)>>]

\* A stream read to its end and then written on.
Updates ==
  [file |-> Text, std |-> "none", deaths |-> 0,
   calls |-> <<Opening("fopen", {"read"}), SeekTo(4), Plain("fgetc"), Plain("fgetc"),
               Writing("fputc", <<6>>), SeekTo(3), FRead(2)>>]

\* Pipes: read by stream, to the end and beyond; read by descriptor and written
\* by stream, where one replica dies. None can seek.
ReadsPipe ==
  [file |-> PipeOf(<<1, NL, 2, 3, 4>>), std |-> "in", deaths |-> 0,
   calls |-> <<Plain("fgetc"), Plain("gets"), SeekTo(1), FRead(2), Reading("fgets", 4),
               Plain("fgetc")>>]
ReadsPipeFd == [ReadsStdin EXCEPT !.file = PipeOf(<<1, NL, 2, 3, 4>>)]
WritesPipe ==
  [file |-> PipeOf(<< >>), std |-> "out", deaths |-> 1,
   calls |-> <<Writing("fputs", <<1>>), Writing("puts", <<2>>), Writing("fputc", <<3>>)>>]

Supported == {ReadsText, WritesText, UsesDescriptors, ReadsStdin, WritesStdout, Updates,
              ReadsPipe, ReadsPipeFd, WritesPipe}

-----------------------------------------------------------------------------
(* Programs that the wrappers do not serve as they say.                    *)

\* Standard input by stream.
SharedStdin ==
  {[file |-> Text, std |-> "in", deaths |-> 0,
    calls |-> <<Plain("fgetc"), Plain("fgetc")>>]}

\* Elements of two bytes. (In no run: see README.md.)
WideElements ==
  {[file |-> Text, std |-> "none", deaths |-> 0,
    calls |-> <<Opening("fopen", {"read"}), [op |-> "fread", size |-> 2, nmemb |-> 2]>>]}

\* A stream opened on a file that does not exist. The second call ends the
\* first one for every replica.
FailedOpen ==
  {[file |-> NoFile, std |-> "none", deaths |-> 0,
    calls |-> <<Opening("fopen", {"read"}), Plain("getpid")>>]}

\* A pipe read by stream, and one replica dies. (In no run: see README.md.)
PipeAndDeath == {[ReadsPipe EXCEPT !.deaths = 1]}

\* Something printed, and one replica dies before the end.
PrintsAndDies ==
  {[file |-> NoFile, std |-> "out", deaths |-> 1,
    calls |-> <<Writing("printf", <<1>>), Writing("puts", <<2>>)>>]}
=============================================================================
