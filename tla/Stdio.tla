-------------------------------- MODULE Stdio --------------------------------
(***************************************************************************)
(* A C stream on top of an open file description, as far as the wrappers   *)
(* in plrPreload use it. None of this is PLR's code: it is glibc's         *)
(* (libio/fileops.c), which PLR calls.                                     *)
(*                                                                         *)
(* A view is what one process sees: the file, the offset of the open file  *)
(* description its descriptor refers to, and its stream. The file and the  *)
(* offset may be shared with other processes; the stream never is.         *)
(***************************************************************************)
EXTENDS Kernel

CONSTANT BufSize     \* the buffer of a stream, in bytes
ASSUME BufSizeAssumption == BufSize \in Nat \ {0}

EOF == -1
Unknown == -1        \* _IO_pos_BAD

-----------------------------------------------------------------------------
(* A stream: the bytes it has read ahead and how many of them are used     *)
(* (_IO_read_base, _IO_read_ptr and _IO_read_end), the kernel offset it    *)
(* believes in (_offset), the bytes written and not flushed, the           *)
(* end-of-file flag, and whether it was opened for reading (_IO_NO_READS). *)

FreshStream(reads) ==
  [buf |-> << >>, ptr |-> 0, offset |-> Unknown, out |-> << >>, eof |-> FALSE,
   reads |-> reads]

Unread(st) == Len(st.buf) - st.ptr

\* The stream with this in its buffer, where it believes the kernel's offset is.
WithBuffer(st, buf, ptr, offset, eof) ==
  [buf |-> buf, ptr |-> ptr, offset |-> offset, out |-> st.out, eof |-> eof,
   reads |-> st.reads]
Advanced(offset, n) == IF offset = Unknown THEN Unknown ELSE offset + n

\* ftell: the believed offset, or the kernel's when there is none, and a pipe has none.
Ftell(w) ==
  LET base == IF w.st.offset # Unknown THEN w.st.offset ELSE w.pos
      res == base - Unread(w.st) + Len(w.st.out)
  IN  IF res < 0 \/ (w.st.offset = Unknown /\ ~w.file.seeks) THEN -1 ELSE res

\* lseek(fd, 0, SEEK_CUR).
Offset(w) == IF w.file.seeks THEN w.pos ELSE -1

\* Where the stream is in the file, whatever it believes.
TruePosition(w) == w.pos - Unread(w.st) + Len(w.st.out)

\* fflush of pending output: step back over what was read ahead, and write. When
\* the kernel refuses the step back, the output stays pending.
Fflush(w) ==
  LET p == w.pos - Unread(w.st)
      n == Len(w.st.out)
  IN  IF n = 0 \/ p < 0 THEN w
      ELSE [file |-> [w.file EXCEPT !.data = Overwrite(@, p, w.st.out)],
            pos |-> p + n,
            st |-> [w.st EXCEPT !.buf = << >>, !.ptr = 0, !.out = << >>,
                      !.offset = IF Unread(w.st) # 0 THEN p + n ELSE Advanced(@, n)]]

\* Bytes put on the stream; they stay in its buffer.
Put(w, s) == [w EXCEPT !.st.out = @ \o s]

\* One byte off the stream: the view after it, and the byte or EOF. The flag
\* is sticky; a read that finds nothing forgets the believed offset.
Getc(w) ==
  LET ahead == BytesAt(w.file.data, w.pos, BufSize)
  IN  IF w.st.ptr < Len(w.st.buf)
        THEN [w |-> [w EXCEPT !.st.ptr = @ + 1], c |-> w.st.buf[w.st.ptr + 1]]
      ELSE IF w.st.eof THEN [w |-> w, c |-> EOF]
      ELSE IF ahead = << >>
        THEN [w |-> [w EXCEPT !.st = WithBuffer(w.st, << >>, 0, Unknown, TRUE)],
              c |-> EOF]
      ELSE [w |-> [w EXCEPT !.pos = @ + Len(ahead),
                            !.st = WithBuffer(w.st, ahead, 1,
                                              Advanced(w.st.offset, Len(ahead)), FALSE)],
            c |-> ahead[1]]

\* One byte more, unless a byte of stop or EOF has ended it.
TakeMore(r, stop) ==
  LET b == Getc(r.w)
  IN  IF ~r.more THEN r
      ELSE IF b.c = EOF THEN [r EXCEPT !.w = b.w, !.more = FALSE]
      ELSE [w |-> b.w, data |-> Append(r.data, b.c), more |-> b.c \notin stop]

\* Up to n bytes off the stream, stopping after a byte of stop or at EOF.
Take(w, n, stop) ==
  LET g[k \in 0 .. n] ==
        IF k = 0 THEN [w |-> w, data |-> << >>, more |-> TRUE]
        ELSE TakeMore(g[k - 1], stop)
  IN  g[n]

-----------------------------------------------------------------------------
(* fseek(stream, offs, SEEK_SET) is two system calls when the stream may   *)
(* be read: an lseek to the start of the block that offs is in, and a read *)
(* of that block. Another process with the same description can get in     *)
(* between them.                                                           *)

BlockStart(offs) == offs - (offs % BufSize)

\* The target is among the bytes read ahead.
InBuffer(st, offs) ==
  /\ st.offset # Unknown
  /\ st.offset - Len(st.buf) <= offs /\ offs < st.offset

NeedsFill(st, offs) ==
  st.out = << >> /\ ~InBuffer(st, offs) /\ st.reads /\ offs % BufSize # 0

\* Up to the lseek, after a flush of what is pending; without one, nothing.
FseekStart(w0, offs) ==
  LET w == Fflush(w0) IN
  IF w.st.out # << >> THEN w
  ELSE IF InBuffer(w.st, offs)
    THEN [w EXCEPT !.pos = w.st.offset,
                   !.st = WithBuffer(w.st, w.st.buf, offs - (w.st.offset - Len(w.st.buf)),
                                     w.st.offset, FALSE)]
  ELSE IF NeedsFill(w.st, offs)
    THEN [w EXCEPT !.pos = BlockStart(offs)]
  ELSE [w EXCEPT !.pos = offs, !.st = WithBuffer(w.st, << >>, 0, offs, FALSE)]

\* The read: of just the bytes up to offs if nothing was read ahead before, of
\* a whole block otherwise. When it falls short, an lseek goes the rest of the
\* way from where the kernel's offset is by then.
FseekFill(w, offs) ==
  LET delta == offs - BlockStart(offs)
      block == BytesAt(w.file.data, w.pos, IF w.st.buf = << >> THEN delta ELSE BufSize)
      after == w.pos + delta
  IN  IF Len(block) < delta
        THEN [w EXCEPT !.pos = after, !.st = WithBuffer(w.st, << >>, 0, after, FALSE)]
      ELSE [w EXCEPT !.pos = @ + Len(block),
                     !.st = WithBuffer(w.st, block, delta, BlockStart(offs) + Len(block),
                                       FALSE)]

Fseek(w, offs) ==
  LET v == FseekStart(w, offs)
  IN  IF NeedsFill(Fflush(w).st, offs) THEN FseekFill(v, offs) ELSE v
=============================================================================
