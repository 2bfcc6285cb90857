------------------------------ MODULE OneProcess ------------------------------
(***************************************************************************)
(* What the wrappers promise the program: as far as its file goes, calls   *)
(* made by the replicas have the effects, and return the results, of one   *)
(* process making each call once, on one file, with no buffers, copies or  *)
(* shared offsets.                                                         *)
(***************************************************************************)
EXTENDS Kernel

CONSTANT Programs    \* the programs: what they find, and the calls they make

VARIABLES
  prog,      \* the program
  file,      \* the file: does it exist, its bytes, can it seek
  isOpen,    \* the program has it open
  at,        \* the position the program is at
  eof,       \* the end-of-file flag of the program's stream
  results    \* what the calls so far returned

ovars == <<prog, file, isOpen, at, eof, results>>

OInit ==
  /\ prog \in Programs
  /\ file = prog.file
  /\ isOpen = (prog.std # "none")
  /\ at = 0 /\ eof = FALSE
  /\ results = << >>

\* Is k bytes of rest all that call c asks for? That may be none.
Satisfied(c, rest, k) ==
  CASE c.op = "fgetc" -> k = 1
    [] c.op = "read"  -> k = c.n
    [] c.op = "fread" -> k = c.size * c.nmemb
    [] c.op = "fgets" -> k = c.n - 1 \/ (k > 0 /\ rest[k] = NL)
    [] c.op = "gets"  -> k > 0 /\ rest[k] = NL

Return(ret, data) == results' = Append(results, [ret |-> ret, data |-> data])

\* What a call that took these bytes returns.
Returns(c, taken) ==
  LET elems == Len(taken) \div c.size
      line == IF taken # << >> /\ taken[Len(taken)] = NL
                THEN SubSeq(taken, 1, Len(taken) - 1) ELSE taken
      asked == c.op = "gets" \/ c.n > 1
      found == IF taken = << >> /\ asked THEN -1 ELSE 0
  IN  CASE c.op = "read"  -> Return(Len(taken), taken)
        [] c.op = "fgetc" -> Return(IF taken = << >> THEN -1 ELSE taken[1], << >>)
        [] c.op = "fread" -> Return(elems, SubSeq(taken, 1, elems * c.size))
        [] c.op = "fgets" -> Return(found, taken)
        [] c.op = "gets"  -> Return(found, line)

Reads(c) ==
  LET rest == IF eof THEN << >> ELSE SubSeq(file.data, at + 1, Len(file.data))
      full == {k \in 0 .. Len(rest) : Satisfied(c, rest, k)}
      n == IF full = {} THEN Len(rest) ELSE Least(full)
  IN  /\ c.op \in {"read", "fgetc", "fread", "fgets", "gets"} /\ isOpen
      /\ at' = at + n
      /\ eof' = (eof \/ (full = {} /\ c.op # "read"))
      /\ Returns(c, SubSeq(rest, 1, n))
      /\ UNCHANGED <<file, isOpen>>

Writes(c) ==
  LET bytes == IF c.op = "puts" THEN Append(c.bytes, NL) ELSE c.bytes IN
  /\ c.op \in {"write", "fwrite", "fputc", "fputs", "puts", "printf", "printf_chk"}
  /\ isOpen
  /\ file' = [file EXCEPT !.data = Overwrite(@, at, bytes)]
  /\ at' = at + Len(bytes)
  /\ Return(Len(bytes), << >>)
  /\ UNCHANGED <<isOpen, eof>>

Seeks(c) ==
  /\ c.op = "fseek" /\ isOpen
  /\ \/ file.seeks /\ at' = c.offs /\ eof' = FALSE /\ Return(0, << >>)
     \/ ~file.seeks /\ Return(-1, << >>) /\ UNCHANGED <<at, eof>>
  /\ UNCHANGED <<file, isOpen>>

Opens(c) ==
  /\ c.op \in {"open", "fopen"} /\ ~isOpen
  /\ \/ /\ CanOpen(file, c.flags)
        /\ file' = Opened(file, c.flags)
        /\ isOpen' = TRUE /\ at' = 0 /\ eof' = FALSE
        /\ Return(0, << >>)
     \/ /\ ~CanOpen(file, c.flags)
        /\ Return(-1, << >>)
        /\ UNCHANGED <<file, isOpen, at, eof>>

Closes(c) ==
  /\ c.op = "close" /\ isOpen
  /\ isOpen' = FALSE /\ at' = 0 /\ eof' = FALSE
  /\ Return(0, << >>)
  /\ UNCHANGED file

Unlinks(c) ==
  /\ c.op = "unlink" /\ ~isOpen
  /\ file' = [file EXCEPT !.exists = FALSE, !.data = << >>]
  /\ Return(IF file.exists THEN 0 ELSE -1, << >>)
  /\ UNCHANGED <<isOpen, at, eof>>

Asks(c) ==
  /\ c.op = "getpid"
  /\ Return(0, << >>)
  /\ UNCHANGED <<file, isOpen, at, eof>>

ONext ==
  /\ Len(results) < Len(prog.calls)
  /\ LET c == prog.calls[Len(results) + 1]
     IN  Reads(c) \/ Writes(c) \/ Seeks(c) \/ Opens(c) \/ Closes(c) \/ Unlinks(c) \/ Asks(c)
  /\ UNCHANGED prog

OSpec == OInit /\ [][ONext]_ovars
=============================================================================
