------------------------ MODULE ReplicaStreamsProofs ------------------------
(***************************************************************************)
(* Theorems about where the replicas are in the file: for programs whose   *)
(* streams do not share an offset while they read ahead, all replicas are  *)
(* at the same place after each call, and no exit state is ever different. *)
(***************************************************************************)
EXTENDS ReplicaFilesProofs

-----------------------------------------------------------------------------
(* The programs, and how they use the file.                                *)

StreamOps == {"fseek"} \cup StreamReads \cup StreamWrites

\* Programs that use descriptors only; streams only, for writing; and a stream
\* of their own for reading and writing, without deaths.
ByDescriptor(pr) ==
  \A k \in DOMAIN pr.calls :
    pr.calls[k].op \in {"read", "write", "open", "unlink"} \cup Locals
ByWriting(pr) ==
  /\ pr.std # "in"
  /\ \A k \in DOMAIN pr.calls :
       /\ pr.calls[k].op \in {"fopen", "fseek"} \cup StreamWrites \cup Locals
       /\ pr.calls[k].op = "fopen" => "read" \notin pr.calls[k].flags
ByOwnStream(pr) ==
  /\ pr.std = "none" /\ pr.deaths = 0
  /\ \A k \in DOMAIN pr.calls : pr.calls[k].op \in {"fopen"} \cup StreamOps \cup Locals

\* The programs on a file that can seek for which the replicas keep together.
Tame(pr) ==
  /\ pr.file.seeks
  /\ ByDescriptor(pr) \/ ByWriting(pr) \/ ByOwnStream(pr)

\* A stream is used only while it is open.
WellUsed ==
  \A i \in Alive :
    rep[i].pc = "call" /\ HasCall(rep[i]) /\ CallOf(rep[i]).op \in StreamOps
    => rep[i].desc # NoDesc

-----------------------------------------------------------------------------
(* Streams that know where they are.                                       *)

\* The place in the file that the stream's user is at, when nothing is pending.
Where(w) == w.pos - Unread(w.st)

\* Nothing is pending; what the stream takes for the kernel's offset is that; what
\* it has read ahead is in the file; and at its end it is at the file's end.
Sound(w) ==
  /\ w.st.out = << >> /\ (w.st.offset = Unknown \/ w.st.offset = w.pos)
  /\ Len(w.st.buf) <= w.pos
  /\ w.st.buf # << >> => w.pos <= Len(w.file.data)
  /\ w.st.eof => Where(w) >= Len(w.file.data)

\* As much of it as is left once the master has gone on in the file.
Loose(w) ==
  /\ w.st.out = << >>
  /\ w.st.buf # << >> => /\ w.st.offset = Unknown \/ w.st.offset = w.pos
                         /\ Len(w.st.buf) <= w.pos /\ w.pos <= Len(w.file.data)

\* A stream in which nothing is read ahead or pending, and that is not at its end.
Blank(st) == st.buf = << >> /\ st.out = << >> /\ ~st.eof

LEMMA WhereType ==
  ASSUME NEW w \in Views, Sound(w)
  PROVE  Where(w) \in Nat /\ Where(w) <= w.pos /\ Where(w) = w.pos - Len(w.st.buf) + w.st.ptr
<1>1. /\ w.pos \in Nat /\ Len(w.st.buf) \in Nat /\ w.st.ptr \in Nat
      /\ w.st.ptr <= Len(w.st.buf)
  BY ViewType
<1>. QED
  BY <1>1 DEF Where, Unread, Sound

\* Where a stream with nothing read ahead is, is where the kernel is.
LEMMA BlankWhere ==
  ASSUME NEW w \in Views, w.st.buf = << >>
  PROVE  Where(w) = w.pos
<1>1. w.pos \in Nat /\ Len(w.st.buf) = 0 /\ w.st.ptr \in Nat /\ w.st.ptr <= Len(w.st.buf)
  BY ViewType, EmptySeq
<1>. QED
  BY <1>1 DEF Where, Unread

LEMMA SoundLoose ==
  ASSUME NEW w \in Views, Sound(w)
  PROVE  Loose(w)
BY DEF Sound, Loose

\* With nothing pending there is nothing to flush.
LEMMA NothingFlushed ==
  ASSUME NEW w \in Views, w.st.out = << >>
  PROVE  Fflush(w) = w
<1>1. Len(w.st.out) = 0
  BY EmptySeq
<1>2. ~Flushable(w)
  BY <1>1 DEF Flushable
<1>. QED
  BY <1>2, FflushCases

\* ftell tells the place, and a stream at its end is at the file's.
LEMMA FtellSound ==
  ASSUME NEW w \in Views, Sound(w), w.file.seeks
  PROVE  Ftell(w) = Where(w)
<1>1. /\ w.pos \in Nat /\ Unread(w.st) \in Nat /\ Len(w.st.out) = 0
      /\ Unread(w.st) <= w.pos
  <2>1. /\ w.pos \in Nat /\ Unread(w.st) \in Nat /\ Len(w.st.buf) \in Nat /\ w.st.ptr \in Nat
        /\ Unread(w.st) = Len(w.st.buf) - w.st.ptr
    BY ViewType
  <2>2. Len(w.st.buf) <= w.pos /\ Len(w.st.out) = 0
    BY EmptySeq DEF Sound
  <2>. QED
    BY <2>1, <2>2
<1>2. w.st.offset = Unknown \/ w.st.offset = w.pos
  BY DEF Sound
<1>3. PICK base : base = IF w.st.offset # Unknown THEN w.st.offset ELSE w.pos
  OBVIOUS
<1>4. base = w.pos
  BY <1>2, <1>3
<1>5. PICK res : res = base - Unread(w.st) + Len(w.st.out)
  OBVIOUS
<1>6. res = Where(w) /\ ~(res < 0)
  BY <1>1, <1>4, <1>5 DEF Where
<1>7. Ftell(w) = IF res < 0 \/ (w.st.offset = Unknown /\ ~w.file.seeks) THEN -1 ELSE res
  BY <1>3, <1>5 DEF Ftell
<1>. QED
  BY <1>6, <1>7

\* What was read ahead and is not used is in the file.
LEMMA UnreadInFile ==
  ASSUME NEW w \in Views, Sound(w), w.st.ptr < Len(w.st.buf)
  PROVE  Where(w) < Len(w.file.data)
<1>1. PICK p \in Nat, b \in Nat, q \in Nat, d \in Nat :
        p = w.pos /\ b = Len(w.st.buf) /\ q = w.st.ptr /\ d = Len(w.file.data)
  BY ViewType
<1>2. w.st.buf # << >>
  BY <1>1, EmptySeq
<1>3. p <= d
  BY <1>1, <1>2 DEF Sound
<1>4. PICK at : at = Where(w)
  OBVIOUS
<1>5. at = p - b + q
  BY <1>1, <1>4, WhereType
<1>6. q < b
  BY <1>1
<1>7. at < d
  BY <1>3, <1>5, <1>6
<1>. QED
  BY <1>1, <1>4, <1>7

\* Reading a byte.
LEMMA GetcSound ==
  ASSUME NEW w \in Views, Sound(w), NEW g, g = Getc(w)
  PROVE  Sound(g.w) /\ g.w \in Views /\ g.w.file = w.file
<1>1. /\ w.pos \in Nat /\ Len(w.st.buf) \in Nat /\ w.st.ptr \in Nat
      /\ w.st.ptr <= Len(w.st.buf) /\ w.file.data \in Seq(Nat) /\ Len(w.file.data) \in Nat
      /\ w.st.offset \in Int /\ w.st.offset >= -1 /\ Unread(w.st) = Len(w.st.buf) - w.st.ptr
  BY ViewType
<1>2. g.w \in Views /\ g.w.file = w.file /\ g.w.st.out = w.st.out
  BY GetcType
<1>3. CASE w.st.ptr < Len(w.st.buf)
  <2>1. /\ g.w.pos = w.pos /\ g.w.st.buf = w.st.buf /\ g.w.st.ptr = w.st.ptr + 1
        /\ g.w.st.offset = w.st.offset /\ g.w.st.eof = w.st.eof
    BY <1>3, GetcCases
  <2>2. w.st.buf # << >>
    BY <1>1, <1>3, EmptySeq
  <2>3. ~w.st.eof
    <3>1. Where(w) < Len(w.file.data)
      BY <1>3, <2>2, UnreadInFile
    <3>2. w.st.eof => Where(w) >= Len(w.file.data)
      BY DEF Sound
    <3>3. Where(w) \in Nat
      BY WhereType
    <3>. QED
      BY <1>1, <3>1, <3>2, <3>3
  <2>4. PICK v : v = g.w
    OBVIOUS
  <2>5. v.st.out = << >> /\ ~v.st.eof /\ (v.st.offset = Unknown \/ v.st.offset = v.pos)
    BY <1>2, <2>1, <2>3, <2>4 DEF Sound
  <2>6. Len(v.st.buf) <= v.pos /\ (v.st.buf # << >> => v.pos <= Len(v.file.data))
    BY <1>2, <2>1, <2>4 DEF Sound
  <2>7. Sound(v)
    BY <2>5, <2>6 DEF Sound
  <2>. QED
    BY <1>2, <2>4, <2>7
<1>4. CASE ~(w.st.ptr < Len(w.st.buf)) /\ w.st.eof
  <2>1. g.w = w
    BY <1>4, GetcCases
  <2>. QED
    BY <1>2, <2>1
<1>5. PICK ahead : ahead = Ahead(w)
  OBVIOUS
<1>6. /\ ahead \in Seq(Nat) /\ Len(ahead) \in Nat
      /\ w.pos < Len(w.file.data) => w.pos + Len(ahead) <= Len(w.file.data) /\ Len(ahead) > 0
      /\ w.pos >= Len(w.file.data) => Len(ahead) = 0
  <2>1. BufSize \in Nat /\ BufSize > 0
    BY BufSizeAssumption
  <2>2. /\ ahead \in Seq(Nat)
        /\ Len(ahead) = IF w.pos >= Len(w.file.data) THEN 0
                        ELSE IF w.pos + BufSize < Len(w.file.data) THEN BufSize
                        ELSE Len(w.file.data) - w.pos
    BY <1>1, <1>5, <2>1, BytesAtType DEF Ahead
  <2>. QED
    BY <1>1, <2>1, <2>2, SMTT(30)
<1>7. CASE ~(w.st.ptr < Len(w.st.buf)) /\ ~w.st.eof /\ ahead = << >>
  <2>1. /\ g.w.pos = w.pos /\ g.w.st.buf = << >> /\ g.w.st.offset = Unknown
    BY <1>5, <1>7, GetcCases
  <2>2. Len(g.w.st.buf) = 0 /\ Len(ahead) = 0
    BY <1>7, <2>1, EmptySeq
  <2>3. Where(g.w) = w.pos /\ w.pos >= Len(w.file.data)
    BY <1>1, <1>2, <1>6, <2>1, <2>2, BlankWhere
  <2>. QED
    BY <1>1, <1>2, <2>1, <2>2, <2>3 DEF Sound
<1>8. CASE ~(w.st.ptr < Len(w.st.buf)) /\ ~w.st.eof /\ ahead # << >>
  <2>1. /\ g.w.pos = w.pos + Len(ahead) /\ g.w.st.buf = ahead /\ g.w.st.ptr = 1
        /\ g.w.st.offset = Advanced(w.st.offset, Len(ahead)) /\ g.w.st.eof = FALSE
    BY <1>5, <1>8, GetcCases
  <2>2. Len(ahead) # 0
    BY <1>6, <1>8, EmptySeq
  <2>3. /\ g.w.pos <= Len(w.file.data) /\ Len(ahead) <= g.w.pos
    BY <1>1, <1>6, <2>1, <2>2
  <2>4. g.w.st.offset = Unknown \/ g.w.st.offset = g.w.pos
    <3>1. w.st.offset = Unknown \/ w.st.offset = w.pos
      BY DEF Sound
    <3>. QED
      BY <2>1, <3>1 DEF Advanced
  <2>. QED
    BY <1>2, <2>1, <2>3, <2>4 DEF Sound
<1>. QED
  BY <1>2, <1>3, <1>4, <1>7, <1>8

\* Reading several.
LEMMA TakeSound ==
  ASSUME NEW w \in Views, Sound(w), NEW n \in Nat, NEW stop, NEW t, t = Take(w, n, stop)
  PROVE  Sound(t.w)
<1> DEFINE Good == {r \in Takings : Sound(r.w)}
<1>1. [w |-> w, data |-> << >>, more |-> TRUE] \in Good
  BY EmptySeq DEF Takings
<1>2. ASSUME NEW r \in Good
      PROVE  TakeMore(r, stop) \in Good
  <2>1. r \in Takings /\ r.w \in Views /\ Sound(r.w)
    BY DEF Takings
  <2>2. PICK b : b = Getc(r.w)
    OBVIOUS
  <2>3. PICK m : m = TakeMore(r, stop)
    OBVIOUS
  <2>4. Sound(b.w)
    BY <2>1, <2>2, GetcSound
  <2>5. m \in Takings /\ (m = r \/ m.w = b.w)
    BY <2>1, <2>2, <2>3, TakeMoreCases
  <2>. QED
    BY <2>1, <2>3, <2>4, <2>5
<1>3. t \in Good
  <2> HIDE DEF Good
  <2>. QED
    BY <1>1, <1>2, TakeInduction
<1>. QED
  BY <1>3

\* At the end of the file, and not yet known to be, fgetc finds out and stays.
LEMMA ProbeSound ==
  ASSUME NEW w \in Views, Sound(w), ~w.st.eof, Where(w) >= Len(w.file.data),
         NEW g, g = Getc(w)
  PROVE  /\ g.c = EOF /\ g.w \in Views /\ Sound(g.w) /\ Where(g.w) = Where(w)
         /\ g.w.st.eof = TRUE /\ g.w.pos = w.pos /\ g.w.file = w.file
<1>1. /\ w.pos \in Nat /\ Len(w.st.buf) \in Nat /\ w.st.ptr \in Nat
      /\ w.st.ptr <= Len(w.st.buf) /\ w.file.data \in Seq(Nat) /\ Len(w.file.data) \in Nat
  BY ViewType
<1>2. Where(w) \in Nat /\ Where(w) <= w.pos /\ Where(w) = w.pos - Len(w.st.buf) + w.st.ptr
  BY WhereType
<1>3. ~(w.st.ptr < Len(w.st.buf))
  <2>1. ~(Where(w) < Len(w.file.data))
    BY <1>1, <1>2
  <2>. QED
    BY <2>1, UnreadInFile
<1>4. Where(w) = w.pos
  BY <1>1, <1>2, <1>3
<1>5. Ahead(w) = << >>
  <2>1. Len(Ahead(w)) = 0 /\ Ahead(w) \in Seq(Nat)
    <3>1. BufSize \in Nat
      BY BufSizeAssumption
    <3>2. w.pos >= Len(w.file.data)
      BY <1>4
    <3>. QED
      BY <1>1, <3>1, <3>2, BytesAtType DEF Ahead
  <2>. QED
    BY <2>1, EmptySeq
<1>6. /\ g.c = EOF /\ g.w.pos = w.pos /\ g.w.st.buf = << >> /\ g.w.st.eof = TRUE
  BY <1>3, <1>5, GetcCases
<1>7. g.w \in Views /\ Sound(g.w) /\ g.w.file = w.file
  BY GetcSound
<1>8. Where(g.w) = w.pos
  BY <1>6, <1>7, BlankWhere
<1>. QED
  BY <1>4, <1>6, <1>7, <1>8

\* Writing and flushing: the file does not get shorter.
LEMMA WriteSound ==
  ASSUME NEW w \in Views, Sound(w), NEW s \in Seq(Nat), NEW v, v = Fflush(Put(w, s))
  PROVE  /\ v \in Views /\ Sound(v) /\ v.file.seeks = w.file.seeks
         /\ v.st.reads = w.st.reads /\ v.st.eof = w.st.eof
         /\ Len(v.file.data) >= Len(w.file.data)
         /\ w.st.buf = << >> => v.st.buf = << >>
<1>1. PICK x : x = Put(w, s)
  OBVIOUS
<1>2. /\ x \in Views /\ Unread(x.st) = Unread(w.st) /\ x.pos = w.pos /\ x.file = w.file
      /\ x.st.buf = w.st.buf /\ x.st.ptr = w.st.ptr /\ x.st.offset = w.st.offset
      /\ x.st.eof = w.st.eof /\ x.st.reads = w.st.reads /\ x.st.out = w.st.out \o s
  BY <1>1, PutType
<1>3. x.st.out = s
  <2>1. w.st.out = << >>
    BY DEF Sound
  <2>. QED
    BY <1>2, <2>1
<1>4. PICK p \in Nat, u \in Nat, n \in Nat, d \in Nat :
        p = w.pos /\ u = Unread(w.st) /\ n = Len(s) /\ d = Len(w.file.data)
  BY ViewType, LenProperties
<1>5. u <= p /\ Where(w) = p - u
  <2>1. Where(w) \in Nat /\ Where(w) = p - u
    BY <1>4, WhereType DEF Where
  <2>. QED
    BY <1>4, <2>1
<1>6. /\ v \in Views /\ v.file.seeks = w.file.seeks /\ v.st.reads = w.st.reads
      /\ v.st.eof = w.st.eof /\ (~Flushable(x) => v = x)
      /\ Flushable(x) =>
            /\ v.pos = p - u + n /\ v.file.data = Overwrite(w.file.data, p - u, s)
            /\ v.st.out = << >> /\ v.st.buf = << >>
            /\ v.st.offset = IF u # 0 THEN p - u + n ELSE Advanced(w.st.offset, n)
  BY <1>1, <1>2, <1>3, <1>4, FflushCases
<1>7. CASE ~Flushable(x)
  <2>1. n = 0
    BY <1>2, <1>3, <1>4, <1>5, <1>7 DEF Flushable
  <2>2. s = << >> /\ v = x
    BY <1>4, <1>6, <1>7, <2>1, EmptySeq
  <2>3. Where(v) = Where(w)
    BY <1>2, <2>2 DEF Where
  <2>4. Sound(v)
    BY <1>2, <1>3, <2>2, <2>3 DEF Sound
  <2>5. Len(v.file.data) >= Len(w.file.data)
    BY <1>2, <1>4, <2>2
  <2>. QED
    BY <1>2, <1>6, <2>2, <2>4, <2>5
<1>8. CASE Flushable(x)
  <2>1. PICK at \in Nat : at = p - u
    BY <1>5
  <2>2. /\ v.pos = at + n /\ v.file.data = Overwrite(w.file.data, at, s)
        /\ v.st.out = << >> /\ v.st.buf = << >>
        /\ v.st.offset = IF u # 0 THEN at + n ELSE Advanced(w.st.offset, n)
    BY <1>6, <1>8, <2>1
  <2>3. Len(v.file.data) = IF at + n > d THEN at + n ELSE d
    <3>1. w.file.data \in Seq(Nat)
      BY ViewType
    <3>2. s # << >>
      BY <1>3, <1>8, EmptySeq DEF Flushable
    <3>. QED
      BY <1>4, <2>1, <2>2, <3>1, <3>2, OverwriteType
  <2>4. Where(v) = at + n
    BY <1>6, <2>2, BlankWhere
  <2>5. v.st.eof => at + n >= Len(v.file.data)
    <3>1. w.st.eof => at >= d
      BY <1>4, <1>5, <2>1 DEF Sound
    <3>2. at >= d => at + n >= Len(v.file.data)
      BY <1>4, <2>1, <2>3
    <3>. QED
      BY <1>6, <3>1, <3>2
  <2>6. v.st.offset = Unknown \/ v.st.offset = v.pos
    <3>1. w.st.offset = Unknown \/ w.st.offset = p
      BY <1>4 DEF Sound
    <3>2. CASE u # 0
      BY <2>2, <3>2
    <3>3. CASE u = 0
      <4>1. at = p
        BY <2>1, <3>3
      <4>2. Advanced(w.st.offset, n) = Unknown \/ Advanced(w.st.offset, n) = p + n
        BY <3>1 DEF Advanced
      <4>. QED
        BY <2>2, <3>3, <4>1, <4>2
    <3>. QED
      BY <3>2, <3>3
  <2>7. Len(v.st.buf) = 0 /\ Len(v.st.buf) <= v.pos
    BY <1>4, <2>1, <2>2, EmptySeq
  <2>8. Sound(v)
    BY <2>2, <2>4, <2>5, <2>6, <2>7 DEF Sound
  <2>9. Len(v.file.data) >= Len(w.file.data)
    BY <1>4, <2>1, <2>3
  <2>. QED
    BY <1>6, <2>2, <2>8, <2>9
<1>. QED
  BY <1>7, <1>8

\* A stream at this place, which knows it.
IsAt(v, offs) == v \in Views /\ Sound(v) /\ Where(v) = offs /\ ~v.st.eof

\* A stream with nothing read ahead, where the kernel is.
LEMMA EmptiedAt ==
  ASSUME NEW v \in Views, v.st.out = << >>, v.st.buf = << >>, v.st.offset = v.pos,
         ~v.st.eof
  PROVE  IsAt(v, v.pos)
<1>1. v.pos \in Nat /\ Len(v.st.buf) = 0
  BY ViewType, EmptySeq
<1>2. Where(v) = v.pos
  BY BlankWhere
<1>. QED
  BY <1>1, <1>2 DEF IsAt, Sound

\* A stream that has read ahead as far as the kernel is.
LEMMA FilledAt ==
  ASSUME NEW v \in Views, v.st.out = << >>, v.st.offset = v.pos, ~v.st.eof,
         NEW p \in Nat, p = v.pos, NEW b \in Nat, b = Len(v.st.buf), b <= p,
         v.st.buf # << >> => p <= Len(v.file.data),
         NEW offs \in Nat, offs = p - b + v.st.ptr
  PROVE  IsAt(v, offs)
<1>1. Unread(v.st) = b - v.st.ptr /\ v.st.ptr \in Nat
  BY ViewType
<1>2. Where(v) = offs
  BY <1>1 DEF Where
<1>. QED
  BY <1>2 DEF IsAt, Sound

\* fseek on a stream in which nothing is pending: either it gets there at once, or
\* it goes to the start of the block.
LEMMA FseekStartSound ==
  ASSUME NEW w \in Views, Loose(w), NEW offs \in Nat, NEW v, v = FseekStart(w, offs),
         NEW fill \in BOOLEAN, fill = NeedsFill(Fflush(w).st, offs)
  PROVE  /\ v \in Views /\ v.file = w.file /\ v.st.reads = w.st.reads /\ v.st.out = << >>
         /\ ~fill => IsAt(v, offs)
         /\ fill => v.pos = BlockStart(offs)
         /\ w.st.buf = << >> /\ ~w.st.reads => ~fill /\ v.st.buf = << >> /\ v.pos = offs
<1>1. w.st.out = << >> /\ Fflush(w) = w
  <2>1. w.st.out = << >>
    BY DEF Loose
  <2>. QED
    BY <2>1, NothingFlushed
<1>2. Sought(w, offs, v)
  BY <1>1, FseekStartCases
<1>3. /\ v \in Views /\ v.file = w.file /\ v.st.out = << >> /\ v.st.reads = w.st.reads
      /\ InBuffer(w.st, offs) =>
           /\ v.pos = w.st.offset /\ v.st.buf = w.st.buf
           /\ v.st.ptr = offs - (w.st.offset - Len(w.st.buf))
           /\ v.st.offset = w.st.offset /\ v.st.eof = FALSE
      /\ ~InBuffer(w.st, offs) /\ NeedsFill(w.st, offs) => v.pos = BlockStart(offs)
      /\ ~InBuffer(w.st, offs) /\ ~NeedsFill(w.st, offs) =>
           /\ v.pos = offs /\ v.st.buf = << >> /\ v.st.offset = offs /\ v.st.eof = FALSE
  BY <1>1, <1>2 DEF Sought
<1>4. fill = NeedsFill(w.st, offs) /\ (fill => ~InBuffer(w.st, offs) /\ w.st.reads)
  BY <1>1 DEF NeedsFill
<1>5. ASSUME InBuffer(w.st, offs)
      PROVE  IsAt(v, offs) /\ w.st.buf # << >>
  <2>1. PICK off \in Int, b \in Nat : off = w.st.offset /\ b = Len(w.st.buf)
    BY ViewType
  <2>2. off # Unknown /\ off - b <= offs /\ offs < off /\ off \in Int
    BY <1>5, <2>1, ViewType DEF InBuffer
  <2>3. b # 0 /\ off \in Nat
    BY <2>1, <2>2
  <2>4. w.st.buf # << >>
    BY <2>1, <2>3, EmptySeq
  <2>5. off = w.pos /\ b <= off /\ off <= Len(w.file.data)
    BY <2>1, <2>2, <2>4 DEF Loose
  <2>6. /\ v.pos = off /\ b = Len(v.st.buf) /\ v.st.offset = v.pos /\ ~v.st.eof
        /\ v.st.ptr = offs - (off - b) /\ off <= Len(v.file.data)
    BY <1>3, <1>5, <2>1, <2>5
  <2>7. offs = off - b + v.st.ptr
    BY <2>1, <2>3, <2>6
  <2>8. IsAt(v, offs)
    BY <1>3, <2>1, <2>3, <2>5, <2>6, <2>7, FilledAt
  <2>. QED
    BY <2>4, <2>8
<1>6. ASSUME ~InBuffer(w.st, offs), ~NeedsFill(w.st, offs)
      PROVE  IsAt(v, offs) /\ v.st.buf = << >> /\ v.pos = offs
  <2>1. /\ v.pos = offs /\ v.st.buf = << >> /\ v.st.offset = offs /\ ~v.st.eof
    BY <1>3, <1>6
  <2>2. IsAt(v, v.pos)
    BY <1>3, <2>1, EmptiedAt
  <2>. QED
    BY <2>1, <2>2
<1>. QED
  BY <1>3, <1>4, <1>5, <1>6

LEMMA FseekFillSound ==
  ASSUME NEW w \in Views, w.st.out = << >>, NEW offs \in Nat, w.pos = BlockStart(offs),
         NEW v, v = FseekFill(w, offs)
  PROVE  IsAt(v, offs) /\ v.file = w.file /\ v.st.reads = w.st.reads
<1>1. PICK block : block = Block(w, offs)
  OBVIOUS
<1>2. PICK s \in Nat, delta \in Nat : s = BlockStart(offs) /\ delta = offs - s /\ s + delta = offs
  BY BlockStartBounds
<1>3. PICK n \in Nat : n = IF w.st.buf = << >> THEN delta ELSE BufSize
  BY BufSizeAssumption
<1>4. block = BytesAt(w.file.data, s, n)
  BY <1>1, <1>2, <1>3 DEF Block
<1>5. w.file.data \in Seq(Nat) /\ Len(w.file.data) \in Nat
  BY ViewType
<1>6. PICK b \in Nat : b = Len(block) /\ (b # 0 => s + b <= Len(w.file.data))
  <2>1. Len(block) = IF s >= Len(w.file.data) THEN 0
                     ELSE IF s + n < Len(w.file.data) THEN n ELSE Len(w.file.data) - s
    BY <1>4, <1>5, BytesAtType
  <2>. QED
    BY <1>5, <2>1
<1>7. /\ v \in Views /\ v.file = w.file /\ v.st.out = << >> /\ v.st.reads = w.st.reads
      /\ ~v.st.eof
  <2>1. v \in Views /\ v.file = w.file
    BY FseekFillCases, ZenonT(30)
  <2>2. v.st.out = w.st.out
    BY FseekFillCases, ZenonT(30)
  <2>3. v.st.reads = w.st.reads
    BY FseekFillCases, ZenonT(30)
  <2>4. v.st.eof = FALSE
    BY FseekFillCases, Zenon
  <2>. QED
    BY <2>1, <2>2, <2>3, <2>4
<1>8. CASE b < delta
  <2>0. Len(Block(w, offs)) < offs - BlockStart(offs)
    BY <1>1, <1>2, <1>6, <1>8
  <2>1. v.pos = s + delta /\ v.st.buf = << >> /\ v.st.offset = v.pos
    <3>1. v.pos = w.pos + (offs - BlockStart(offs)) /\ v.st.buf = << >> /\ v.st.offset = v.pos
      BY <2>0, FseekFillCases, Zenon
    <3>. QED
      BY <1>2, <3>1
  <2>2. IsAt(v, v.pos)
    BY <1>7, <2>1, EmptiedAt
  <2>. QED
    BY <1>2, <1>7, <2>1, <2>2
<1>9. CASE ~(b < delta)
  <2>0. ~(Len(Block(w, offs)) < offs - BlockStart(offs))
    BY <1>1, <1>2, <1>6, <1>9
  <2>1. v.pos = s + b /\ v.st.buf = block /\ v.st.ptr = delta /\ v.st.offset = s + b
    <3>1. /\ v.pos = w.pos + Len(Block(w, offs)) /\ v.st.buf = Block(w, offs)
          /\ v.st.ptr = offs - BlockStart(offs)
          /\ v.st.offset = BlockStart(offs) + Len(Block(w, offs))
      BY <2>0, FseekFillCases, Zenon
    <3>. QED
      BY <1>1, <1>2, <1>6, <3>1
  <2>2. PICK p \in Nat : p = s + b
    OBVIOUS
  <2>3. p = v.pos /\ b = Len(v.st.buf) /\ v.st.offset = v.pos
    BY <1>6, <2>1, <2>2
  <2>4. b <= p /\ offs = p - b + v.st.ptr
    <3>1. b <= p /\ s = p - b
      BY <2>2
    <3>2. s + delta = s + v.st.ptr
      BY <2>1
    <3>. QED
      BY <1>2, <3>1, <3>2
  <2>5. v.st.buf # << >> => p <= Len(v.file.data)
    <3>1. v.st.buf # << >> => b # 0
      BY <1>7, <2>3, ViewType, EmptySeq
    <3>. QED
      BY <1>6, <1>7, <2>2, <3>1
  <2>6. IsAt(v, offs)
    BY <1>7, <2>3, <2>4, <2>5, FilledAt
  <2>. QED
    BY <1>7, <2>6
<1>. QED
  BY <1>8, <1>9

LEMMA FseekSound ==
  ASSUME NEW w \in Views, Loose(w), NEW offs \in Nat, NEW v, v = Fseek(w, offs)
  PROVE  /\ IsAt(v, offs) /\ v.file = w.file /\ v.st.reads = w.st.reads
         /\ w.st.buf = << >> /\ ~w.st.reads => v.st.buf = << >>
<1>1. PICK u : u = FseekStart(w, offs)
  OBVIOUS
<1>2. PICK fill \in BOOLEAN : fill = NeedsFill(Fflush(w).st, offs)
  BY DEF NeedsFill
<1>3. /\ u \in Views /\ u.file = w.file /\ u.st.reads = w.st.reads /\ u.st.out = << >>
      /\ ~fill => IsAt(u, offs)
      /\ fill => u.pos = BlockStart(offs)
      /\ w.st.buf = << >> /\ ~w.st.reads => ~fill /\ u.st.buf = << >>
  BY <1>1, <1>2, FseekStartSound
<1>4. CASE fill
  <2>1. v = FseekFill(u, offs)
    BY <1>1, <1>2, <1>4 DEF Fseek
  <2>2. IsAt(v, offs) /\ v.file = u.file /\ v.st.reads = u.st.reads
    BY <1>3, <1>4, <2>1, FseekFillSound
  <2>. QED
    BY <1>3, <1>4, <2>2
<1>5. CASE ~fill
  <2>1. v = u
    BY <1>1, <1>2, <1>5 DEF Fseek
  <2>. QED
    BY <1>3, <1>5, <2>1
<1>. QED
  BY <1>4, <1>5

-----------------------------------------------------------------------------
(* What a call does to a stream that knows where it is.                    *)

\* A call on a stream leaves one that tells where it is and knows it. Only reading
\* reads ahead, and only reading comes to the end.
LEMMA StreamServed ==
  ASSUME NEW w \in Views, Sound(w), w.file.seeks, NEW c \in Calls, c.op \in StreamOps,
         NEW o, o = Served(w, c)
  PROVE  /\ o.w \in Views /\ Sound(o.w) /\ o.w.file.seeks
         /\ o.offs = Where(o.w) /\ o.eof = o.w.st.eof /\ o.follow = "fseek"
         /\ Len(o.w.file.data) >= Len(w.file.data)
         /\ o.w.st.reads = w.st.reads
         /\ c.op \notin StreamReads /\ Blank(w.st) /\ ~w.st.reads => Blank(o.w.st)
<1>0. w.st.out = << >> /\ Len(w.file.data) \in Nat
  BY ViewType DEF Sound
<1>1. CASE c.op \in StreamReads
  <2>1. /\ o.follow = "fseek" /\ o.w \in Views
        /\ o.w.file = w.file /\ o.w.st.reads = w.st.reads
        /\ o.offs = Ftell(o.w) /\ o.eof = o.w.st.eof
        /\ \/ o.w = Getc(w).w
           \/ \E n \in Nat, stop \in {{}, {NL}} : o.w = Take(w, n, stop).w
    <3>1. /\ IsOutcome(o) /\ o.follow = "fseek"
          /\ o.w.file = w.file /\ o.w.st.reads = w.st.reads
          /\ o.offs = Ftell(o.w) /\ o.eof = o.w.st.eof
      BY <1>1, StreamReadType
    <3>2. \/ o.w = Getc(w).w
          \/ \E n \in Nat, stop \in {{}, {NL}} : o.w = Take(w, n, stop).w
      BY <1>1, StreamReadType
    <3>. QED
      BY <3>1, <3>2 DEF IsOutcome
  <2>2. Sound(o.w)
    <3>1. ASSUME NEW n \in Nat, NEW stop, o.w = Take(w, n, stop).w
          PROVE  Sound(o.w)
      <4>1. PICK t : t = Take(w, n, stop)
        OBVIOUS
      <4>2. Sound(t.w)
        BY <4>1, TakeSound
      <4>. QED
        BY <3>1, <4>1, <4>2
    <3>2. ASSUME o.w = Getc(w).w
          PROVE  Sound(o.w)
      <4>1. PICK g : g = Getc(w)
        OBVIOUS
      <4>2. Sound(g.w)
        BY <4>1, GetcSound
      <4>. QED
        BY <3>2, <4>1, <4>2
    <3>. QED
      BY <2>1, <3>1, <3>2
  <2>3. o.w.file.seeks /\ Len(o.w.file.data) >= Len(w.file.data)
    BY <1>0, <2>1
  <2>4. Ftell(o.w) = Where(o.w)
    BY <2>1, <2>2, <2>3, FtellSound
  <2>. QED
    BY <1>1, <2>1, <2>2, <2>3, <2>4
<1>2. CASE c.op \in StreamWrites
  <2>1. /\ o.follow = "fseek" /\ o.w = Fflush(Put(w, Line(c)))
        /\ o.offs = Ftell(o.w) /\ o.eof = o.w.st.eof
    BY <1>2, StreamWriteType
  <2>2. Line(c) \in Seq(Nat)
    BY <1>2, LineType
  <2>3. /\ o.w \in Views /\ Sound(o.w) /\ o.w.file.seeks
        /\ o.w.st.reads = w.st.reads /\ o.w.st.eof = w.st.eof
        /\ Len(o.w.file.data) >= Len(w.file.data)
        /\ w.st.buf = << >> => o.w.st.buf = << >>
    <3>0. PICK s \in Seq(Nat) : s = Line(c)
      BY <2>2
    <3>9. PICK v : v = Fflush(Put(w, s))
      OBVIOUS
    <3>1. s = Line(c) /\ v = Fflush(Put(w, s))
      BY <3>0, <3>9
    <3>2. v \in Views /\ Sound(v)
      BY <3>1, WriteSound, Zenon
    <3>4. v.file.seeks
      BY <3>1, WriteSound, ZenonT(30)
    <3>8. v.st.reads = w.st.reads
      BY <3>1, WriteSound, SMTT(30)
    <3>5. v.st.eof = w.st.eof
      BY <3>1, WriteSound, SMTT(30)
    <3>6. Len(v.file.data) >= Len(w.file.data)
      BY <3>1, WriteSound, Zenon
    <3>7. w.st.buf = << >> => v.st.buf = << >>
      BY <3>1, WriteSound, Zenon
    <3>3. v = o.w
      BY <2>1, <3>1
    <3>. QED
      BY <3>2, <3>3, <3>4, <3>5, <3>6, <3>7, <3>8
  <2>4. Ftell(o.w) = Where(o.w)
    BY <2>3, FtellSound
  <2>5. Blank(w.st) => Blank(o.w.st)
    BY <2>3 DEF Blank, Sound
  <2>. QED
    BY <2>1, <2>3, <2>4, <2>5
<1>3. CASE c.op = "fseek"
  <2>1. /\ o.follow = "fseek" /\ c.offs \in Nat /\ o.w = Fseek(w, c.offs)
        /\ o.offs = Ftell(o.w) /\ o.eof = o.w.st.eof
    <3>1. w.file.seeks
      OBVIOUS
    <3>2. PICK x : x = Fseek(w, c.offs)
      OBVIOUS
    <3>3. o = StreamCall(x, 0, << >>, << >>)
      BY <1>3, <3>1, <3>2, ServedOps DEF FseekCall
    <3>4. c.offs \in Nat
      BY <1>3, CallFields
    <3>. QED
      BY <3>2, <3>3, <3>4 DEF StreamCall
  <2>2. Loose(w)
    BY SoundLoose
  <2>3. /\ IsAt(o.w, c.offs) /\ o.w.file = w.file /\ o.w.st.reads = w.st.reads
        /\ w.st.buf = << >> /\ ~w.st.reads => o.w.st.buf = << >>
    BY <2>1, <2>2, FseekSound
  <2>4. o.w \in Views /\ Sound(o.w) /\ ~o.w.st.eof
    BY <2>3 DEF IsAt
  <2>5. Ftell(o.w) = Where(o.w)
    BY <2>3, <2>4, FtellSound
  <2>6. Blank(w.st) /\ ~w.st.reads => Blank(o.w.st)
    BY <2>3, <2>4 DEF Blank, Sound
  <2>7. Len(o.w.file.data) >= Len(w.file.data)
    BY <1>0, <2>3
  <2>. QED
    BY <2>1, <2>3, <2>4, <2>5, <2>6, <2>7
<1>. QED
  BY <1>1, <1>2, <1>3 DEF StreamOps

\* A call on a descriptor leaves its stream alone, and where the kernel is.
LEMMA FdServed ==
  ASSUME NEW w \in Views, w.file.seeks, NEW c \in Calls, c.op \in {"read", "write"},
         NEW o, o = Served(w, c)
  PROVE  /\ o.w \in Views /\ o.w.st = w.st /\ o.w.file.seeks /\ o.follow = "lseek"
         /\ o.offs = o.w.pos /\ o.eof = FALSE
<1>2. CASE c.op = "read"
  <2>1. o = Read(w, c)
    BY <1>2, ServedOps
  <2>2. /\ o.w \in Views /\ o.w.file = w.file /\ o.w.st = w.st /\ o.follow = "lseek"
        /\ o.offs = Offset(o.w) /\ o.eof = FALSE
    <3>1. PICK n, data, v : n = Len(data) /\ v = [w EXCEPT !.pos = @ + n] /\ o = FdCall(v, n, data)
      BY <2>1 DEF Read
    <3>2. IsOutcome(o) /\ o.follow = "lseek"
      <4>1. c.op \notin Locals /\ FollowOf(c.op) = "lseek"
        BY <1>2 DEF Locals, FollowOf
      <4>2. IsOutcome(o) /\ o.follow = FollowOf(c.op)
        BY <4>1, ServedType
      <4>. QED
        BY <4>1, <4>2
    <3>3. o.w = v /\ o.offs = Offset(v) /\ o.eof = FALSE
      BY <3>1 DEF FdCall
    <3>4. v.file = w.file /\ v.st = w.st
      BY <3>1 DEF Views
    <3>. QED
      BY <3>2, <3>3, <3>4 DEF IsOutcome
  <2>. QED
    BY <2>2 DEF Offset
<1>3. CASE c.op = "write"
  <2>1. o = Write(w, c)
    BY <1>3, ServedOps
  <2>2. /\ o.w \in Views /\ o.w.file.seeks = w.file.seeks /\ o.w.st = w.st
        /\ o.follow = "lseek" /\ o.offs = Offset(o.w) /\ o.eof = FALSE
    <3>1. /\ IsOutcome(o) /\ o.w.file.seeks = w.file.seeks /\ o.w.st = w.st
          /\ o.follow = "lseek" /\ o.offs = Offset(o.w) /\ o.eof = FALSE
      BY <1>3, <2>1, WriteType, ZenonT(60)
    <3>. QED
      BY <3>1 DEF IsOutcome
  <2>. QED
    BY <2>2 DEF Offset
<1>. QED
  BY <1>2, <1>3

-----------------------------------------------------------------------------
(* Where each replica is on its way from one call to the next, and what    *)
(* holds of it there. All replicas make for one spot: is the file open (o),*)
(* at which place in it (a), and is the end-of-file flag set (e).          *)

Phase(pr, s, p) ==
  IF p.pc = "copy"
    THEN IF Opening(s) THEN "opens" ELSE IF s.follow = "lseek" THEN "seeks"
         ELSE IF s.follow = "fseek" THEN "follows" ELSE "rests"
  ELSE IF Closing(pr, p) THEN "closes"
  ELSE IF p.pc = "fill" THEN "fills" ELSE IF p.pc = "probe" THEN "probes" ELSE "rests"

IsOpen(p) == p.desc # NoDesc
NextCall(pr, p) == pr.calls[Len(p.results) + 1]

\* A slave that is to open what the master has opened; what a replica is to close.
WillOpen(pr, p, w, o, a, e) ==
  /\ o /\ a = 0 /\ ~e /\ w.st.out = << >> /\ w.file.exists
  /\ "trunc" \in NextCall(pr, p).flags => w.file.data = << >>
WillClose(o, a, e) == ~o /\ a = 0 /\ ~e

\* A slave that is to lseek.
WillSeek(s, p, w, o, a, e) ==
  /\ o = IsOpen(p) /\ (o => a = s.offs) /\ (~o => a = 0) /\ ~e
  /\ Blank(w.st) /\ w.st.offset = Unknown

\* A replica in a call on a stream, whose exit state is to be this spot; before, in
\* the middle of, and after fseek.
ExitDue(s, p, w, o, a, e) ==
  o /\ IsOpen(p) /\ a = s.offs /\ e = s.eof /\ (e => a >= Len(w.file.data))
WillFollow(s, p, w, o, a, e) == ExitDue(s, p, w, o, a, e) /\ Loose(w)
WillFill(s, p, w, o, a, e) ==
  ExitDue(s, p, w, o, a, e) /\ w.st.out = << >> /\ w.pos = BlockStart(a)
WillProbe(s, p, w, o, a, e) ==
  ExitDue(s, p, w, o, a, e) /\ e /\ Sound(w) /\ a = Where(w) /\ ~w.st.eof

\* A replica that is there.
IsThere(p, w, o, a, e) == o = IsOpen(p) /\ Sound(w) /\ a = Where(w) /\ e = w.st.eof
Compares(s, p, w, o, a, e) ==
  /\ p.pc \in {"tell", "exit"} => ExitDue(s, p, w, o, a, e)
  /\ p.pc = "exit" => p.told.offs = a /\ p.told.eof = e

Fits(pr, s, p, w, o, a, e) ==
  /\ Phase(pr, s, p) = "opens" => WillOpen(pr, p, w, o, a, e)
  /\ Phase(pr, s, p) = "closes" => WillClose(o, a, e)
  /\ Phase(pr, s, p) = "seeks" => WillSeek(s, p, w, o, a, e)
  /\ Phase(pr, s, p) = "follows" => WillFollow(s, p, w, o, a, e)
  /\ Phase(pr, s, p) = "fills" => WillFill(s, p, w, o, a, e)
  /\ Phase(pr, s, p) = "probes" => WillProbe(s, p, w, o, a, e)
  /\ Phase(pr, s, p) = "rests" => IsThere(p, w, o, a, e) /\ Compares(s, p, w, o, a, e)

\* Programs whose replicas may share the offset of an open file description: in
\* none is anything read ahead. The others read ahead, each from its own.
Shares(pr) == ByDescriptor(pr) \/ ByWriting(pr)
Plain(pr, p) ==
  /\ Blank(p.stream) /\ p.pc \notin {"fill", "probe"}
  /\ ByDescriptor(pr) => p.stream.offset = Unknown
  /\ ~ByDescriptor(pr) => ~p.stream.reads
OwnDescs(r) ==
  \A i, j \in Replicas : i # j => r[i].desc # r[j].desc \/ r[i].desc = NoDesc
Sharing(pr, s, r, n) ==
  IF Shares(pr) THEN ~s.eof /\ \A i \in Replicas : Plain(pr, r[i])
  ELSE n = 0 /\ (\A i \in Replicas : r[i].pc # "dead") /\ OwnDescs(r)

\* What replica p sees of file f when the offsets are ps.
Sees(f, ps, p) ==
  [file |-> f, st |-> p.stream, pos |-> IF p.desc = NoDesc THEN 0 ELSE ps[p.desc]]

AllFit(pr, s, f, ps, r, o, a, e) ==
  \A i \in Replicas : r[i].pc \notin Gone => Fits(pr, s, r[i], Sees(f, ps, r[i]), o, a, e)

KeptAt(pr, s, f, ps, r, n, o, a, e) ==
  /\ f.seeks
  /\ \A i \in Replicas : r[i].pc # "failed"
  /\ Sharing(pr, s, r, n)
  /\ AllFit(pr, s, f, ps, r, o, a, e)

Kept ==
  \E o \in BOOLEAN, a \in Nat, e \in BOOLEAN :
    KeptAt(prog, shm, file, pos, rep, deaths, o, a, e)

LEMMA SeesIs ==
  ASSUME NEW f \in Files, NEW ps \in [Descs -> Nat], NEW p, p.desc \in Descs \cup {NoDesc},
         p.stream \in Streams, NEW w, w = Sees(f, ps, p)
  PROVE  /\ w \in Views /\ w.file = f /\ w.st = p.stream
         /\ p.desc = NoDesc => w.pos = 0
         /\ p.desc # NoDesc => p.desc \in Descs /\ w.pos = ps[p.desc]
<1>1. PICK x \in Nat : x = IF p.desc = NoDesc THEN 0 ELSE ps[p.desc]
  OBVIOUS
<1>2. PICK st \in Streams : st = p.stream
  OBVIOUS
<1>3. w = [file |-> f, st |-> st, pos |-> x]
  BY <1>1, <1>2 DEF Sees
<1>4. w \in Views /\ w.file = f /\ w.st = st /\ w.pos = x
  BY <1>3 DEF Views
<1>. QED
  BY <1>1, <1>2, <1>4

LEMMA ViewSees == \A i : View(rep, i) = Sees(file, pos, rep[i])
BY DEF View, Sees

\* The phase a step leads to.
LEMMA PhaseIs ==
  ASSUME NEW pr, NEW s, NEW p
  PROVE  /\ p.pc \in {"call", "end", "tell", "exit", "dead"} => Phase(pr, s, p) = "rests"
         /\ p.pc = "fill" => Phase(pr, s, p) = "fills"
         /\ p.pc = "probe" => Phase(pr, s, p) = "probes"
BY DEF Phase, Closing

\* What a replica sees once one other has moved is what it saw, unless they share
\* an offset, and that is where it should be.
LEMMA FitsShared ==
  ASSUME NEW pr, NEW s, NEW p, NEW o, NEW a, NEW e,
         NEW w \in Views, NEW v \in Views, v.file = w.file, v.st = w.st, v.pos = a,
         Plain(pr, p), w.st = p.stream, Fits(pr, s, p, w, o, a, e)
  PROVE  Fits(pr, s, p, v, o, a, e)
<1>1. v.st.buf = << >> /\ w.st.buf = << >> /\ v.st.out = << >> /\ ~v.st.eof
      /\ p.pc \notin {"fill", "probe"}
  BY DEF Plain, Blank
<1>2. Where(v) = v.pos /\ Where(w) = w.pos
  BY <1>1, BlankWhere
<1>3. Phase(pr, s, p) \notin {"fills", "probes"}
  BY <1>1 DEF Phase
<1>4. CASE Phase(pr, s, p) = "rests"
  <2>1. IsThere(p, w, o, a, e) /\ Compares(s, p, w, o, a, e)
    BY <1>4 DEF Fits
  <2>2. w.pos = a
    BY <1>2, <2>1 DEF IsThere
  <2>3. v = w
    BY <2>2, ViewType
  <2>. QED
    BY <2>3
<1>5. CASE Phase(pr, s, p) = "follows"
  <2>1. ExitDue(s, p, w, o, a, e)
    BY <1>5 DEF Fits, WillFollow
  <2>2. ExitDue(s, p, v, o, a, e) /\ Loose(v)
    BY <1>1, <2>1 DEF ExitDue, Loose
  <2>. QED
    BY <1>5, <2>2 DEF Fits, WillFollow
<1>6. CASE Phase(pr, s, p) = "opens"
  <2>1. WillOpen(pr, p, w, o, a, e)
    BY <1>6 DEF Fits
  <2>2. WillOpen(pr, p, v, o, a, e)
    BY <2>1 DEF WillOpen
  <2>. QED
    BY <1>6, <2>2 DEF Fits
<1>7. CASE Phase(pr, s, p) = "seeks"
  <2>1. WillSeek(s, p, w, o, a, e)
    BY <1>7 DEF Fits
  <2>2. WillSeek(s, p, v, o, a, e)
    BY <2>1 DEF WillSeek
  <2>. QED
    BY <1>7, <2>2 DEF Fits
<1>8. CASE Phase(pr, s, p) = "closes"
  BY <1>8 DEF Fits
<1>9. Phase(pr, s, p) \in {"opens", "closes", "seeks", "follows", "rests"}
  BY <1>3 DEF Phase
<1>. QED
  BY <1>4, <1>5, <1>6, <1>7, <1>8, <1>9

-----------------------------------------------------------------------------
(* A step of one replica.                                                  *)

\* What keeps replicas that share an offset, and those that do not, out of each
\* other's way: replica i becomes q.
LEMMA SharingStep ==
  ASSUME NEW pr, NEW s, NEW r, NEW n, Sharing(pr, s, r, n), NEW i \in Replicas, NEW q,
         NEW r2, NEW n2, r2[i] = q, \A j \in Replicas \ {i} : r2[j] = r[j],
         Shares(pr) => Plain(pr, q),
         ~Shares(pr) => /\ q.pc # "dead" /\ n2 = n
                        /\ \/ q.desc = r[i].desc \/ q.desc = NoDesc
                           \/ \A j \in Replicas \ {i} : r[j].desc # q.desc
  PROVE  Sharing(pr, s, r2, n2)
<1>1. CASE Shares(pr)
  BY <1>1 DEF Sharing
<1>2. CASE ~Shares(pr)
  <2>1. n2 = 0 /\ \A j \in Replicas : r2[j].pc # "dead"
    BY <1>2 DEF Sharing
  <2>2. OwnDescs(r)
    BY <1>2 DEF Sharing
  <2>3. ASSUME NEW j \in Replicas, NEW k \in Replicas, j # k
        PROVE  r2[j].desc # r2[k].desc \/ r2[j].desc = NoDesc
    <3>1. r[j].desc # r[k].desc \/ r[j].desc = NoDesc
      BY <2>2, <2>3 DEF OwnDescs
    <3>2. CASE j # i /\ k # i
      BY <3>1, <3>2
    <3>3. CASE j = i
      BY <1>2, <2>3, <3>1, <3>3
    <3>4. CASE k = i
      BY <1>2, <2>3, <3>1, <3>4
    <3>. QED
      BY <3>2, <3>3, <3>4
  <2>. QED
    BY <1>2, <2>1, <2>3 DEF Sharing, OwnDescs
<1>. QED
  BY <1>1, <1>2

\* A step is taken where everybody makes for this spot.
Underway(o, a, e) ==
  /\ TypeInv /\ TypeInv' /\ o \in BOOLEAN /\ a \in Nat /\ e \in BOOLEAN
  /\ KeptAt(prog, shm, file, pos, rep, deaths, o, a, e)

\* It is one of replica i, which becomes q and fits; if it moves an offset that it
\* shares with others, then to where they are.
Moves(i, q, o, a, e) ==
  /\ q = rep'[i] /\ \A j \in Replicas \ {i} : rep'[j] = rep[j]
  /\ prog' = prog /\ shm' = shm /\ file' = file
  /\ \A d \in Descs : pos'[d] = pos[d] \/ (d = q.desc /\ (Shares(prog) => pos'[d] = a))
  /\ q.pc # "failed"
  /\ q.pc \notin Gone => Fits(prog, shm, q, Sees(file, pos', q), o, a, e)
  /\ Shares(prog) => Plain(prog, q)
  /\ ~Shares(prog) => /\ q.pc # "dead" /\ deaths' = deaths
                      /\ \/ q.desc = rep[i].desc \/ q.desc = NoDesc
                         \/ \A j \in Replicas \ {i} : rep[j].desc # q.desc

LEMMA OneMoves ==
  ASSUME NEW o, NEW a, NEW e, Underway(o, a, e),
         NEW i \in Replicas, NEW q, Moves(i, q, o, a, e)
  PROVE  KeptAt(prog', shm', file', pos', rep', deaths', o, a, e)
<1>0. /\ TypeInv /\ TypeInv' /\ o \in BOOLEAN /\ a \in Nat /\ e \in BOOLEAN
      /\ KeptAt(prog, shm, file, pos, rep, deaths, o, a, e)
  BY DEF Underway
<1>12. q = rep'[i] /\ q.pc # "failed" /\ (\A j \in Replicas \ {i} : rep'[j] = rep[j])
  BY DEF Moves
<1>b. prog' = prog /\ shm' = shm /\ file' = file
  BY DEF Moves
<1>c. \A d \in Descs : pos'[d] = pos[d] \/ (d = q.desc /\ (Shares(prog) => pos'[d] = a))
  BY DEF Moves
<1>d. q.pc \notin Gone => Fits(prog, shm, q, Sees(file, pos', q), o, a, e)
  BY DEF Moves
<1>e. Shares(prog) => Plain(prog, q)
  BY DEF Moves
<1>f. ~Shares(prog) => /\ q.pc # "dead" /\ deaths' = deaths
                      /\ \/ q.desc = rep[i].desc \/ q.desc = NoDesc
                         \/ \A j \in Replicas \ {i} : rep[j].desc # q.desc
  BY DEF Moves
<1>1. /\ file.seeks /\ (\A j \in Replicas : rep[j].pc # "failed")
      /\ Sharing(prog, shm, rep, deaths)
      /\ \A j \in Replicas :
           rep[j].pc \notin Gone => Fits(prog, shm, rep[j], Sees(file, pos, rep[j]), o, a, e)
  BY <1>0 DEF KeptAt, AllFit
<1>2. Sharing(prog, shm, rep', deaths')
  <2>1. PICK r2, n2 : r2 = rep' /\ n2 = deaths'
    OBVIOUS
  <2>2. r2[i] = q /\ \A j \in Replicas \ {i} : r2[j] = rep[j]
    BY <1>12, <2>1
  <2>3. ~Shares(prog) => /\ q.pc # "dead" /\ n2 = deaths
                         /\ \/ q.desc = rep[i].desc \/ q.desc = NoDesc
                            \/ \A j \in Replicas \ {i} : rep[j].desc # q.desc
    BY <1>f, <2>1
  <2>4. Sharing(prog, shm, r2, n2)
    BY <1>e, <1>1, <2>2, <2>3, SharingStep
  <2>. QED
    BY <2>1, <2>4
<1>3. \A j \in Replicas : rep'[j].pc # "failed"
  BY <1>12, <1>1
<1>4. /\ file \in Files /\ pos \in [Descs -> Nat] /\ pos' \in [Descs -> Nat]
      /\ rep \in [Replicas -> RepRecords]
  BY <1>0 DEF TypeInv
<1>5. ASSUME NEW j \in Replicas \ {i}, rep[j].pc \notin Gone
      PROVE  Fits(prog, shm, rep[j], Sees(file, pos', rep[j]), o, a, e)
  <2>1. PICK p : p = rep[j]
    OBVIOUS
  <2>2. PICK w : w = Sees(file, pos, p)
    OBVIOUS
  <2>3. PICK v : v = Sees(file, pos', p)
    OBVIOUS
  <2>4. p \in RepRecords /\ p.desc \in Descs \cup {NoDesc} /\ p.stream \in Streams
    BY <1>4, <2>1, RepFields
  <2>5. /\ w \in Views /\ w.file = file /\ w.st = p.stream
        /\ p.desc = NoDesc => w.pos = 0
        /\ p.desc # NoDesc => p.desc \in Descs /\ w.pos = pos[p.desc]
    BY <1>4, <2>2, <2>4, SeesIs
  <2>6. /\ v \in Views /\ v.file = file /\ v.st = p.stream
        /\ p.desc = NoDesc => v.pos = 0
        /\ p.desc # NoDesc => p.desc \in Descs /\ v.pos = pos'[p.desc]
    BY <1>4, <2>3, <2>4, SeesIs
  <2>7. Fits(prog, shm, p, w, o, a, e)
    BY <1>1, <1>5, <2>1, <2>2
  <2>8. CASE v.pos = w.pos
    <3>1. v = w
      BY <2>5, <2>6, <2>8, ViewType
    <3>. QED
      BY <2>1, <2>3, <2>7, <3>1
  <2>9. CASE v.pos # w.pos
    <3>1. p.desc # NoDesc /\ p.desc = q.desc /\ (Shares(prog) => v.pos = a)
      BY <1>c, <2>5, <2>6, <2>9
    <3>2. rep'[j] = p /\ rep'[i] = q
      BY <1>12, <2>1
    <3>3. Shares(prog)
      BY <1>2, <3>1, <3>2 DEF Sharing, OwnDescs
    <3>4. Plain(prog, p)
      BY <1>1, <2>1, <3>3 DEF Sharing
    <3>5. Fits(prog, shm, p, v, o, a, e)
      BY <2>5, <2>6, <2>7, <3>1, <3>3, <3>4, FitsShared
    <3>. QED
      BY <2>1, <2>3, <3>5
  <2>. QED
    BY <2>8, <2>9
<1>6. \A j \in Replicas :
        rep'[j].pc \notin Gone => Fits(prog, shm, rep'[j], Sees(file, pos', rep'[j]), o, a, e)
  <2>1. TAKE j \in Replicas
  <2>2. CASE j = i
    BY <1>12, <1>d, <2>2
  <2>3. CASE j # i
    <3>1. j \in Replicas \ {i} /\ rep'[j] = rep[j]
      BY <1>12, <2>3
    <3>. QED
      BY <1>5, <3>1
  <2>. QED
    BY <2>2, <2>3
<1>7. KeptAt(prog', shm', file', pos', rep', deaths', o, a, e)
  BY <1>b, <1>1, <1>2, <1>3, <1>6 DEF KeptAt, AllFit
<1>. QED
  BY <1>7

\* What there is to know of a replica that lives.
LEMMA FitsNow ==
  ASSUME NEW o, NEW a, NEW e, Underway(o, a, e),
         NEW i \in Replicas, rep[i].pc \notin Gone, NEW p, p = rep[i],
         NEW w, w = Sees(file, pos, p)
  PROVE  /\ Fits(prog, shm, p, w, o, a, e) /\ file.seeks
         /\ p \in RepRecords /\ p.desc \in Descs \cup {NoDesc} /\ p.stream \in Streams
         /\ w \in Views /\ w.file = file /\ w.st = p.stream /\ w = View(rep, i)
         /\ p.desc = NoDesc => w.pos = 0
         /\ p.desc # NoDesc => p.desc \in Descs /\ w.pos = pos[p.desc]
         /\ Shares(prog) => Plain(prog, p) /\ ~shm.eof
         /\ ~Shares(prog) => p.pc # "dead" /\ deaths = 0
<1>1. /\ file \in Files /\ pos \in [Descs -> Nat] /\ rep \in [Replicas -> RepRecords]
  BY DEF TypeInv, Underway
<1>2. p \in RepRecords /\ p.desc \in Descs \cup {NoDesc} /\ p.stream \in Streams
  BY <1>1, RepFields
<1>3. /\ w \in Views /\ w.file = file /\ w.st = p.stream
      /\ p.desc = NoDesc => w.pos = 0
      /\ p.desc # NoDesc => p.desc \in Descs /\ w.pos = pos[p.desc]
  BY <1>1, <1>2, SeesIs
<1>4. Fits(prog, shm, p, w, o, a, e) /\ file.seeks /\ Sharing(prog, shm, rep, deaths)
  BY DEF Underway, KeptAt, AllFit
<1>5. w = View(rep, i)
  BY ViewSees
<1>6. /\ Shares(prog) => Plain(prog, p) /\ ~shm.eof
      /\ ~Shares(prog) => p.pc # "dead" /\ deaths = 0
  BY <1>4 DEF Sharing
<1>. QED
  BY <1>2, <1>3, <1>4, <1>5, <1>6

\* A replica that is there and not comparing exit states stays there.
LEMMA StaysThere ==
  ASSUME NEW pr, NEW s, NEW p, NEW w, NEW o, NEW a, NEW e, Fits(pr, s, p, w, o, a, e),
         Phase(pr, s, p) = "rests", NEW q, q.pc \in {"call", "end"}, q.desc = p.desc
  PROVE  Fits(pr, s, q, w, o, a, e)
<1>1. IsThere(p, w, o, a, e)
  BY DEF Fits
<1>2. IsThere(q, w, o, a, e)
  BY <1>1 DEF IsThere, IsOpen
<1>3. Phase(pr, s, q) = "rests"
  BY PhaseIs
<1>. QED
  BY <1>2, <1>3 DEF Fits, Compares

LEMMA GetsThere ==
  ASSUME NEW pr, NEW s, NEW q, NEW w, NEW o, NEW a, NEW e, IsThere(q, w, o, a, e),
         q.pc \in {"call", "end"}
  PROVE  Fits(pr, s, q, w, o, a, e)
<1>1. Phase(pr, s, q) = "rests"
  BY PhaseIs
<1>. QED
  BY <1>1 DEF Fits, Compares

\* Slaves that copy the result and need no more.
LEMMA CopiedCall ==
  ASSUME TypeInv, NEW i \in Replicas, rep[i].pc = "copy", NEW p, p = rep[i],
         rep' = [rep EXCEPT ![i] = [Copied(p) EXCEPT !.pc = "call"]],
         NEW q, q = rep'[i]
  PROVE  /\ q.pc = "call" /\ q.desc = p.desc /\ q.stream = p.stream
         /\ \A j \in Replicas \ {i} : rep'[j] = rep[j]
<1>0. rep[i].pc = "copy" /\ rep' = [rep EXCEPT ![i] = [Copied(p) EXCEPT !.pc = "call"]]
  OBVIOUS
<1>1. PICK c : c = Copied(p)
  OBVIOUS
<1>2. c \in RepRecords /\ c.stream = p.stream
  <2>1. rep[i].pc = "copy"
    BY <1>0
  <2>. QED
    BY <1>1, <2>1, CopiedRecord, CopiedOK, Zenon
<1>3. [c EXCEPT !.pc = "call"] = At(c, "call", c.stream)
  BY <1>2, AtIs
<1>4. PICK x : x = At(c, "call", c.stream)
  OBVIOUS
<1>5. "call" \in PCs /\ c.stream \in Streams
  BY <1>2, RepFields DEF PCs
<1>6. x.pc = "call" /\ x.stream = c.stream /\ x.desc = p.desc
  <2>1. rep[i].pc = "copy"
    BY <1>0
  <2>. QED
    BY <1>1, <1>4, <1>5, <2>1, CopiedGoes
<1>7. rep' = [rep EXCEPT ![i] = x] /\ rep \in [Replicas -> RepRecords]
  BY <1>0, <1>1, <1>3, <1>4 DEF TypeInv
<1>8. q = x /\ \A j \in Replicas \ {i} : rep'[j] = rep[j]
  BY <1>7
<1>. QED
  BY <1>2, <1>6, <1>8

LEMMA CopiesOnly ==
  ASSUME TypeInv, NEW i \in Replicas, TakeResult(i) \/ TakeOffset(i), NEW p, p = rep[i],
         NEW q, q = rep'[i]
  PROVE  /\ q.pc = "call" /\ q.desc = p.desc /\ q.stream = p.stream
         /\ \A j \in Replicas \ {i} : rep'[j] = rep[j]
<1>1. rep[i].pc = "copy"
  BY DEF TakeResult, TakeOffset
<1>2. CASE rep' = [rep EXCEPT ![i] = [Copied(p) EXCEPT !.pc = "call"]]
  BY <1>1, <1>2, CopiedCall, ZenonT(30)
<1>3. CASE TakesNothing(i)
  <2>1. PICK x : x = [CopiedWith(rep[i], Unassigned) EXCEPT !.pc = "call"]
    OBVIOUS
  <2>2. x.pc = "call" /\ x.desc = p.desc /\ x.stream = p.stream
    BY <1>1, <2>1, TakesNothingReturns
  <2>3. rep' = [rep EXCEPT ![i] = x] /\ rep \in [Replicas -> RepRecords]
    BY <1>3, <2>1 DEF TakesNothing, TypeInv
  <2>. QED
    BY <2>2, <2>3
<1>. QED
  BY <1>2, <1>3, TakenIs DEF TakeOffset, TakesWhole

LEMMA TakeResultMoves ==
  ASSUME NEW o, NEW a, NEW e, Underway(o, a, e), NEW i \in Replicas, TakeResult(i)
  PROVE  Moves(i, rep'[i], o, a, e)
<1>0. TypeInv /\ TypeInv' /\ a \in Nat
  BY DEF Underway
<1>1. PICK p, w, q : p = rep[i] /\ w = Sees(file, pos, p) /\ q = rep'[i]
  OBVIOUS
<1>2. /\ p.pc = "copy" /\ (shm.follow = "none" \/ (shm.follow = "open" /\ shm.ret # 0))
      /\ prog' = prog /\ shm' = shm /\ file' = file /\ pos' = pos /\ deaths' = deaths
  BY <1>1 DEF TakeResult
<1>3. p.pc \notin Gone
  BY <1>2 DEF Gone
<1>4. /\ Fits(prog, shm, p, w, o, a, e) /\ w.st = p.stream
      /\ Shares(prog) => Plain(prog, p)
  BY <1>1, <1>3, FitsNow
<1>5. /\ q.pc = "call" /\ q.desc = p.desc /\ q.stream = p.stream
      /\ \A j \in Replicas \ {i} : rep'[j] = rep[j]
  BY <1>0, <1>1, CopiesOnly
<1>6. Phase(prog, shm, p) = "rests"
  BY <1>2 DEF Phase, Opening
<1>7. Fits(prog, shm, q, w, o, a, e)
  BY <1>4, <1>5, <1>6, StaysThere
<1>8. Sees(file, pos', q) = w
  BY <1>1, <1>2, <1>5 DEF Sees
<1>9. Shares(prog) => Plain(prog, q)
  BY <1>4, <1>5 DEF Plain
<1>10. Moves(i, q, o, a, e)
  BY <1>1, <1>2, <1>5, <1>7, <1>8, <1>9 DEF Moves
<1>. QED
  BY <1>1, <1>10

LEMMA TakeOffsetMoves ==
  ASSUME NEW o, NEW a, NEW e, Underway(o, a, e), NEW i \in Replicas, TakeOffset(i)
  PROVE  Moves(i, rep'[i], o, a, e)
<1>0. TypeInv /\ TypeInv' /\ a \in Nat
  BY DEF Underway
<1>1. PICK p, w, q : p = rep[i] /\ w = Sees(file, pos, p) /\ q = rep'[i]
  OBVIOUS
<1>2. /\ p.pc = "copy" /\ shm.follow = "lseek"
      /\ pos' = [pos EXCEPT ![p.desc] = IF shm.offs < 0 THEN @ ELSE shm.offs]
      /\ rep' = [rep EXCEPT ![i] = [Copied(p) EXCEPT !.pc = "call"]]
      /\ prog' = prog /\ shm' = shm /\ file' = file /\ deaths' = deaths
  BY <1>1 DEF TakeOffset
<1>3. p.pc \notin Gone
  BY <1>2 DEF Gone
<1>4. /\ Fits(prog, shm, p, w, o, a, e) /\ w.st = p.stream
      /\ p.desc = NoDesc => w.pos = 0
      /\ p.desc # NoDesc => p.desc \in Descs
      /\ Shares(prog) => Plain(prog, p)
  BY <1>1, <1>3, FitsNow
<1>5. /\ q.pc = "call" /\ q.desc = p.desc /\ q.stream = p.stream
      /\ \A j \in Replicas \ {i} : rep'[j] = rep[j]
  BY <1>0, <1>1, CopiesOnly
<1>6. WillSeek(shm, p, w, o, a, e)
  <2>1. Phase(prog, shm, p) = "seeks"
    BY <1>2 DEF Phase, Opening
  <2>. QED
    BY <1>4, <2>1 DEF Fits
<1>7. /\ o = IsOpen(q) /\ ~e /\ q.stream.offset = Unknown /\ q.stream.buf = << >>
      /\ q.stream.out = << >> /\ ~q.stream.eof
  BY <1>4, <1>5, <1>6 DEF WillSeek, Blank, IsOpen
<1>8. pos \in [Descs -> Nat] /\ pos' \in [Descs -> Nat] /\ file \in Files
      /\ q.desc \in Descs \cup {NoDesc} /\ q.stream \in Streams
  <2>1. /\ pos \in [Descs -> Nat] /\ pos' \in [Descs -> Nat] /\ file \in Files
        /\ rep' \in [Replicas -> RepRecords]
    BY <1>0 DEF TypeInv
  <2>. QED
    BY <1>1, <2>1, RepFields
<1>9. \A d \in Descs : pos'[d] = IF d = q.desc THEN a ELSE pos[d]
  <2>1. q.desc # NoDesc => a = shm.offs
    BY <1>6, <1>7 DEF WillSeek, IsOpen
  <2>2. ~(a < 0)
    BY <1>0
  <2>3. NoDesc \notin Descs
    BY DEF NoDesc, Descs, Replicas, Voters
  <2>. QED
    BY <1>2, <1>5, <1>8, <2>1, <2>2, <2>3
<1>10. PICK v : v = Sees(file, pos', q)
  OBVIOUS
<1>11. /\ v \in Views /\ v.file = file /\ v.st = q.stream
       /\ q.desc = NoDesc => v.pos = 0
       /\ q.desc # NoDesc => v.pos = a
  BY <1>8, <1>9, <1>10, SeesIs
<1>12. IsThere(q, v, o, a, e)
  <2>1. Where(v) = v.pos /\ v.pos \in Nat
    BY <1>7, <1>11, BlankWhere, ViewType
  <2>2. v.pos = a
    BY <1>6, <1>7, <1>11 DEF WillSeek, IsOpen
  <2>3. Sound(v)
    <3>1. Len(v.st.buf) = 0
      BY <1>7, <1>11, EmptySeq
    <3>. QED
      BY <1>7, <1>11, <2>1, <3>1 DEF Sound
  <2>4. e \in BOOLEAN /\ ~e /\ v.st.eof = FALSE
    <3>1. v.st.eof = q.stream.eof /\ v.st.eof \in BOOLEAN
      BY <1>11, ViewType
    <3>2. e \in BOOLEAN
      BY DEF Underway
    <3>. QED
      BY <1>7, <3>1, <3>2
  <2>5. e = v.st.eof
    BY <2>4
  <2>6. o = IsOpen(q) /\ a = Where(v)
    BY <1>7, <2>1, <2>2
  <2>. QED
    BY <2>3, <2>5, <2>6 DEF IsThere
<1>13. Fits(prog, shm, q, v, o, a, e)
  BY <1>5, <1>12, GetsThere
<1>14. Shares(prog) => Plain(prog, q)
  BY <1>4, <1>5 DEF Plain
<1>15. Moves(i, q, o, a, e)
  BY <1>1, <1>2, <1>5, <1>9, <1>10, <1>13, <1>14 DEF Moves
<1>. QED
  BY <1>1, <1>15

\* A step that gives the replica's stream, and its own offset, a new state.
OffsetSet(d, x) == pos' = [pos EXCEPT ![d] = x]

LEMMA LandsAt ==
  ASSUME TypeInv, TypeInv', NEW i \in Replicas, NEW p, p = rep[i], NEW q, q = rep'[i],
         NEW v \in Views, v.file = file, q.stream = v.st, q.desc = p.desc, p.desc # NoDesc,
         OffsetSet(p.desc, v.pos)
  PROVE  /\ Sees(file, pos', q) = v
         /\ \A d \in Descs : pos'[d] = pos[d] \/ (d = q.desc /\ pos'[d] = v.pos)
<1>1. /\ pos \in [Descs -> Nat] /\ pos' \in [Descs -> Nat] /\ file \in Files
      /\ p.desc \in Descs \cup {NoDesc} /\ q.stream \in Streams
  <2>1. /\ pos \in [Descs -> Nat] /\ pos' \in [Descs -> Nat] /\ file \in Files
        /\ rep \in [Replicas -> RepRecords] /\ rep' \in [Replicas -> RepRecords]
    BY DEF TypeInv
  <2>. QED
    BY <2>1, RepFields
<1>2. /\ p.desc \in Descs /\ pos'[q.desc] = v.pos /\ q.desc \in Descs \cup {NoDesc}
      /\ q.desc # NoDesc /\ \A d \in Descs : pos'[d] = pos[d] \/ d = q.desc
  BY <1>1 DEF OffsetSet
<1>3. PICK x : x = Sees(file, pos', q)
  OBVIOUS
<1>4. x \in Views /\ x.file = file /\ x.st = q.stream /\ x.pos = pos'[q.desc]
  BY <1>1, <1>2, <1>3, SeesIs
<1>5. x = v
  BY <1>2, <1>4, ViewType
<1>. QED
  BY <1>2, <1>3, <1>5

\* A stream that fseek has brought to the place is where it should be, but for the
\* end-of-file flag.
LEMMA SoughtFits ==
  ASSUME NEW pr, NEW s, NEW p, NEW w, NEW o, NEW a, NEW e \in BOOLEAN,
         ExitDue(s, p, w, o, a, e), NEW q, q.desc = p.desc,
         q.pc = IF s.eof THEN "probe" ELSE "tell", NEW v, IsAt(v, a), v.file = w.file,
         o \in BOOLEAN
  PROVE  Fits(pr, s, q, v, o, a, e)
<1>1. ExitDue(s, q, v, o, a, e)
  BY DEF ExitDue, IsOpen
<1>2. v \in Views /\ Sound(v) /\ Where(v) = a /\ v.st.eof = FALSE
  <2>1. v.st.eof \in BOOLEAN
    BY ViewType DEF IsAt
  <2>. QED
    BY <2>1 DEF IsAt
<1>3. CASE s.eof
  <2>1. Phase(pr, s, q) = "probes"
    BY <1>3, PhaseIs
  <2>2. e
    BY <1>1, <1>3 DEF ExitDue
  <2>3. WillProbe(s, q, v, o, a, e)
    BY <1>1, <1>2, <2>2 DEF WillProbe
  <2>. QED
    BY <2>1, <2>3 DEF Fits
<1>4. CASE ~s.eof
  <2>1. Phase(pr, s, q) = "rests" /\ q.pc = "tell"
    BY <1>4, PhaseIs
  <2>2. e = FALSE
    BY <1>1, <1>4 DEF ExitDue
  <2>3. o = IsOpen(q)
    BY <1>1 DEF ExitDue, IsOpen
  <2>4. e = v.st.eof
    BY <1>2, <2>2
  <2>5. IsThere(q, v, o, a, e)
    BY <1>2, <2>3, <2>4 DEF IsThere
  <2>6. Compares(s, q, v, o, a, e)
    BY <1>1, <2>1 DEF Compares
  <2>. QED
    BY <2>1, <2>5, <2>6 DEF Fits
<1>. QED
  BY <1>3, <1>4

LEMMA FillStreamMoves ==
  ASSUME NEW o, NEW a, NEW e, Underway(o, a, e), NEW i \in Replicas, FillStream(i)
  PROVE  Moves(i, rep'[i], o, a, e)
<1>0. TypeInv /\ TypeInv' /\ a \in Nat /\ o \in BOOLEAN /\ e \in BOOLEAN
  BY DEF Underway
<1>1. PICK p, w, q : p = rep[i] /\ w = Sees(file, pos, p) /\ q = rep'[i]
  OBVIOUS
<1>2. PICK v : v = FseekFill(View(rep, i), shm.offs)
  OBVIOUS
<1>3. /\ p.pc = "fill" /\ prog' = prog /\ shm' = shm /\ file' = file /\ deaths' = deaths
      /\ pos' = [pos EXCEPT ![p.desc] = v.pos]
      /\ rep' = [rep EXCEPT ![i].stream = v.st, ![i].pc = Seeked]
  BY <1>1, <1>2 DEF FillStream
<1>4. /\ Fits(prog, shm, p, w, o, a, e) /\ w \in Views /\ w = View(rep, i) /\ w.file = file
      /\ p \in RepRecords /\ ~Shares(prog)
  <2>1. p.pc \notin Gone
    BY <1>3 DEF Gone
  <2>2. /\ Fits(prog, shm, p, w, o, a, e) /\ w \in Views /\ w = View(rep, i)
        /\ w.file = file /\ p \in RepRecords /\ (Shares(prog) => Plain(prog, p))
    BY <1>1, <2>1, FitsNow
  <2>3. ~Plain(prog, p)
    BY <1>3 DEF Plain
  <2>. QED
    BY <2>2, <2>3
<1>5. WillFill(shm, p, w, o, a, e)
  <2>1. Phase(prog, shm, p) = "fills"
    BY <1>3, PhaseIs
  <2>. QED
    BY <1>4, <2>1 DEF Fits
<1>6. ExitDue(shm, p, w, o, a, e) /\ w.st.out = << >> /\ w.pos = BlockStart(a) /\ a = shm.offs
      /\ p.desc # NoDesc
  BY <1>5 DEF WillFill, ExitDue, IsOpen
<1>7. IsAt(v, a) /\ v.file = file /\ v \in Views
  <2>1. v = FseekFill(w, a)
    BY <1>2, <1>4, <1>6
  <2>2. IsAt(v, a) /\ v.file = w.file
    BY <1>0, <1>4, <1>6, <2>1, FseekFillSound
  <2>. QED
    BY <1>4, <2>2 DEF IsAt
<1>8. /\ q.pc = Seeked /\ q.stream = v.st /\ q.desc = p.desc
      /\ \A j \in Replicas \ {i} : rep'[j] = rep[j]
  <2>1. rep \in [Replicas -> RepRecords]
    BY <1>0 DEF TypeInv
  <2>. QED
    BY <1>1, <1>3, <1>4, <2>1 DEF RepRecords
<1>9. /\ Sees(file, pos', q) = v
      /\ \A d \in Descs : pos'[d] = pos[d] \/ (d = q.desc /\ pos'[d] = v.pos)
  <2>1. OffsetSet(p.desc, v.pos)
    BY <1>3 DEF OffsetSet
  <2>. QED
    BY <1>0, <1>1, <1>6, <1>7, <1>8, <2>1, LandsAt
<1>10. Fits(prog, shm, q, v, o, a, e)
  <2>1. q.pc = IF shm.eof THEN "probe" ELSE "tell"
    BY <1>8 DEF Seeked
  <2>2. v.file = w.file
    BY <1>4, <1>7
  <2>. QED
    BY <1>0, <1>6, <1>7, <1>8, <2>1, <2>2, SoughtFits
<1>11. q.pc # "failed" /\ q.pc # "dead"
  BY <1>8, SeekedIs
<1>12. Moves(i, q, o, a, e)
  BY <1>1, <1>3, <1>4, <1>8, <1>9, <1>10, <1>11 DEF Moves
<1>. QED
  BY <1>1, <1>12

\* A call on a stream is not one of a program that uses descriptors only.
LEMMA StreamCallMade ==
  ASSUME TypeInv, NEW i \in Replicas, NEW p, p = rep[i], p.pc = "copy", shm.follow = "fseek"
  PROVE  ~ByDescriptor(prog)
<1>1. /\ Len(p.results) < Len(prog.calls) /\ Len(p.results) \in Nat /\ prog \in Programs
      /\ shm.follow = FollowOf(prog.calls[Len(p.results) + 1].op)
  BY ReplicaFacts DEF PlaceOK
<1>2. PICK k : k = Len(p.results) + 1
  OBVIOUS
<1>3. k \in DOMAIN prog.calls
  BY <1>1, <1>2, ProgramType
<1>4. FollowOf(prog.calls[k].op) = "fseek"
  BY <1>1, <1>2
<1>5. prog.calls[k].op \notin {"read", "write", "open", "unlink"} \cup Locals
  BY <1>4 DEF FollowOf, Locals, StreamReads, StreamWrites, Prints
<1>. QED
  BY <1>3, <1>5 DEF ByDescriptor

LEMMA SeekStreamMoves ==
  ASSUME NEW o, NEW a, NEW e, Underway(o, a, e), NEW i \in Replicas, SeekStream(i)
  PROVE  Moves(i, rep'[i], o, a, e)
<1>0. TypeInv /\ TypeInv' /\ a \in Nat /\ o \in BOOLEAN /\ e \in BOOLEAN
  BY DEF Underway
<1>1. PICK p, w, q, c : p = rep[i] /\ w = Sees(file, pos, p) /\ q = rep'[i] /\ c = Copied(p)
  OBVIOUS
<1>2. p.pc = "copy" /\ shm.follow = "fseek" /\ prog' = prog /\ shm' = shm /\ deaths' = deaths
  BY <1>1 DEF SeekStream
<1>3. /\ Fits(prog, shm, p, w, o, a, e) /\ w \in Views /\ w = View(rep, i) /\ w.file = file
      /\ p \in RepRecords /\ w.st = p.stream
      /\ Shares(prog) => Plain(prog, p) /\ ~shm.eof
  <2>1. p.pc \notin Gone
    BY <1>2 DEF Gone
  <2>. QED
    BY <1>1, <2>1, FitsNow
<1>4. WillFollow(shm, p, w, o, a, e)
  <2>1. Phase(prog, shm, p) = "follows"
    BY <1>2 DEF Phase, Opening
  <2>. QED
    BY <1>3, <2>1 DEF Fits
<1>5. ExitDue(shm, p, w, o, a, e) /\ Loose(w) /\ a = shm.offs /\ p.desc # NoDesc
  BY <1>4 DEF WillFollow, ExitDue, IsOpen
<1>u. PICK v : v = FseekStart(w, a)
  OBVIOUS
<1>6. PICK fill \in BOOLEAN : v = FseekStart(w, a) /\ fill = NeedsFill(Fflush(w).st, a)
  BY <1>u DEF NeedsFill
<1>7. /\ v \in Views /\ v.file = file /\ v.st.reads = w.st.reads /\ v.st.out = << >>
      /\ ~fill => IsAt(v, a)
      /\ fill => v.pos = BlockStart(a)
      /\ w.st.buf = << >> /\ ~w.st.reads => ~fill /\ v.st.buf = << >> /\ v.pos = a
  BY <1>0, <1>3, <1>5, <1>6, FseekStartSound
<1>8. PICK to : to = IF fill THEN "fill" ELSE Seeked
  OBVIOUS
<1>9. /\ file' = v.file /\ pos' = [pos EXCEPT ![p.desc] = v.pos]
      /\ rep' = [rep EXCEPT ![i] = [c EXCEPT !.stream = v.st, !.pc = to]]
  <2>1. ~(shm.offs < 0)
    BY <1>0, <1>5
  <2>2. v = FseekStart(View(rep, i), shm.offs) /\ fill = NeedsFill(Fflush(View(rep, i)).st, shm.offs)
    BY <1>3, <1>5, <1>6
  <2>. QED
    BY <1>1, <1>8, <2>1, <2>2 DEF SeekStream
<1>10. /\ q.pc = to /\ q.stream = v.st /\ q.desc = p.desc
       /\ \A j \in Replicas \ {i} : rep'[j] = rep[j]
  <2>1. c \in RepRecords
    BY <1>0, <1>1, <1>2, CopiedRecord
  <2>2. PICK n : n = [c EXCEPT !.stream = v.st, !.pc = to]
    OBVIOUS
  <2>3. n = At(c, to, v.st)
    BY <2>2 DEF At, RepRecords
  <2>4. to \in PCs /\ v.st \in Streams
    BY <1>7, <1>8, SeekedIs, ViewType DEF PCs
  <2>5. n.pc = to /\ n.stream = v.st /\ n.desc = p.desc
    BY <1>0, <1>1, <1>2, <2>3, <2>4, CopiedGoes
  <2>6. rep' = [rep EXCEPT ![i] = n] /\ rep \in [Replicas -> RepRecords]
    BY <1>0, <1>9, <2>2 DEF TypeInv
  <2>. QED
    BY <1>1, <2>5, <2>6
<1>11. /\ Sees(file, pos', q) = v
       /\ \A d \in Descs : pos'[d] = pos[d] \/ (d = q.desc /\ pos'[d] = v.pos)
  <2>1. OffsetSet(p.desc, v.pos)
    BY <1>9 DEF OffsetSet
  <2>. QED
    BY <1>0, <1>1, <1>5, <1>7, <1>10, <2>1, LandsAt
<1>12. Fits(prog, shm, q, v, o, a, e)
  <2>0. v.file = w.file
    BY <1>3, <1>7
  <2>1. CASE ~fill
    <3>1. q.pc = IF shm.eof THEN "probe" ELSE "tell"
      BY <1>8, <1>10, <2>1 DEF Seeked
    <3>. QED
      BY <1>0, <1>5, <1>7, <1>10, <2>0, <2>1, <3>1, SoughtFits
  <2>2. CASE fill
    <3>1. Phase(prog, shm, q) = "fills"
      BY <1>8, <1>10, <2>2, PhaseIs
    <3>2. ExitDue(shm, q, v, o, a, e)
      BY <1>5, <1>10, <2>0 DEF ExitDue, IsOpen
    <3>3. WillFill(shm, q, v, o, a, e)
      BY <1>7, <2>2, <3>2 DEF WillFill
    <3>. QED
      BY <3>1, <3>3 DEF Fits
  <2>. QED
    BY <2>1, <2>2
<1>13. ASSUME Shares(prog)
       PROVE  Plain(prog, q) /\ v.pos = a
  <2>1. Plain(prog, p) /\ ~shm.eof
    BY <1>3, <1>13
  <2>2. ~ByDescriptor(prog)
    BY <1>0, <1>1, <1>2, StreamCallMade
  <2>3. ~p.stream.reads /\ p.stream.buf = << >>
    BY <2>1, <2>2 DEF Plain, Blank
  <2>4. ~fill /\ v.st.buf = << >> /\ v.pos = a /\ ~v.st.reads
    BY <1>3, <1>7, <2>3
  <2>5. IsAt(v, a) /\ ~v.st.eof
    BY <1>7, <2>4 DEF IsAt
  <2>6. q.pc = "tell"
    BY <1>8, <1>10, <2>1, <2>4 DEF Seeked
  <2>. QED
    BY <1>7, <1>10, <2>2, <2>4, <2>5, <2>6 DEF Plain, Blank
<1>14. q.pc # "failed" /\ q.pc # "dead"
  BY <1>8, <1>10, SeekedIs
<1>15. Moves(i, q, o, a, e)
  BY <1>1, <1>2, <1>7, <1>9, <1>10, <1>11, <1>12, <1>13, <1>14 DEF Moves
<1>. QED
  BY <1>1, <1>15

LEMMA ProbeEofMoves ==
  ASSUME NEW o, NEW a, NEW e, Underway(o, a, e), NEW i \in Replicas, ProbeEof(i)
  PROVE  Moves(i, rep'[i], o, a, e)
<1>0. TypeInv /\ TypeInv' /\ a \in Nat /\ o \in BOOLEAN /\ e \in BOOLEAN
  BY DEF Underway
<1>1. PICK p, w, q : p = rep[i] /\ w = Sees(file, pos, p) /\ q = rep'[i]
  OBVIOUS
<1>2. PICK g : g = Getc(View(rep, i))
  OBVIOUS
<1>3. /\ p.pc = "probe" /\ prog' = prog /\ shm' = shm /\ file' = file /\ deaths' = deaths
      /\ pos' = [pos EXCEPT ![p.desc] = g.w.pos]
      /\ rep' = [rep EXCEPT ![i].stream = g.w.st,
                            ![i].pc = IF g.c = EOF THEN "tell" ELSE "failed"]
  BY <1>1, <1>2 DEF ProbeEof
<1>4. /\ Fits(prog, shm, p, w, o, a, e) /\ w \in Views /\ w = View(rep, i) /\ w.file = file
      /\ p \in RepRecords /\ ~Shares(prog)
  <2>1. p.pc \notin Gone
    BY <1>3 DEF Gone
  <2>2. /\ Fits(prog, shm, p, w, o, a, e) /\ w \in Views /\ w = View(rep, i)
        /\ w.file = file /\ p \in RepRecords /\ (Shares(prog) => Plain(prog, p))
    BY <1>1, <2>1, FitsNow
  <2>3. ~Plain(prog, p)
    BY <1>3 DEF Plain
  <2>. QED
    BY <2>2, <2>3
<1>5. WillProbe(shm, p, w, o, a, e)
  <2>1. Phase(prog, shm, p) = "probes"
    BY <1>3, PhaseIs
  <2>. QED
    BY <1>4, <2>1 DEF Fits
<1>6. /\ ExitDue(shm, p, w, o, a, e) /\ e /\ Sound(w) /\ a = Where(w) /\ ~w.st.eof
      /\ a >= Len(w.file.data) /\ p.desc # NoDesc
  BY <1>5 DEF WillProbe, ExitDue, IsOpen
<1>7. PICK v : v = g.w
  OBVIOUS
<1>8. /\ g.c = EOF /\ v \in Views /\ Sound(v) /\ Where(v) = a
      /\ v.st.eof = TRUE /\ v.file = file
  <2>1. g = Getc(w) /\ Where(w) >= Len(w.file.data)
    BY <1>2, <1>4, <1>6
  <2>2. /\ g.c = EOF /\ g.w \in Views /\ Sound(g.w) /\ Where(g.w) = Where(w)
        /\ g.w.st.eof = TRUE /\ g.w.pos = w.pos /\ g.w.file = w.file
    BY <1>4, <1>6, <2>1, ProbeSound
  <2>. QED
    BY <1>4, <1>6, <1>7, <2>2
<1>9. /\ q.pc = "tell" /\ q.stream = v.st /\ q.desc = p.desc
      /\ \A j \in Replicas \ {i} : rep'[j] = rep[j]
  <2>1. rep \in [Replicas -> RepRecords]
    BY <1>0 DEF TypeInv
  <2>. QED
    BY <1>1, <1>3, <1>4, <1>7, <1>8, <2>1 DEF RepRecords
<1>10. /\ Sees(file, pos', q) = v
       /\ \A d \in Descs : pos'[d] = pos[d] \/ (d = q.desc /\ pos'[d] = v.pos)
  <2>1. OffsetSet(p.desc, v.pos)
    BY <1>3, <1>7 DEF OffsetSet
  <2>. QED
    BY <1>0, <1>1, <1>6, <1>8, <1>9, <2>1, LandsAt
<1>11. Fits(prog, shm, q, v, o, a, e)
  <2>1. Phase(prog, shm, q) = "rests"
    BY <1>9, PhaseIs
  <2>2. ExitDue(shm, q, v, o, a, e)
    BY <1>4, <1>6, <1>8, <1>9 DEF ExitDue, IsOpen
  <2>3. o = IsOpen(q) /\ a = Where(v) /\ e = TRUE
    BY <1>0, <1>6, <1>8, <2>2 DEF ExitDue, IsOpen
  <2>4. e = v.st.eof
    BY <1>8, <2>3
  <2>5. IsThere(q, v, o, a, e)
    BY <1>8, <2>3, <2>4 DEF IsThere
  <2>6. Compares(shm, q, v, o, a, e)
    BY <1>9, <2>2 DEF Compares
  <2>. QED
    BY <2>1, <2>5, <2>6 DEF Fits
<1>12. Moves(i, q, o, a, e)
  BY <1>1, <1>3, <1>4, <1>9, <1>10, <1>11 DEF Moves
<1>. QED
  BY <1>1, <1>12

LEMMA TellMoves ==
  ASSUME NEW o, NEW a, NEW e, Underway(o, a, e), NEW i \in Replicas, Tell(i)
  PROVE  Moves(i, rep'[i], o, a, e)
<1>0. TypeInv /\ TypeInv' /\ a \in Nat /\ o \in BOOLEAN /\ e \in BOOLEAN
  BY DEF Underway
<1>1. PICK p, w, q : p = rep[i] /\ w = Sees(file, pos, p) /\ q = rep'[i]
  OBVIOUS
<1>2. PICK t : t = [offs |-> Ftell(View(rep, i)), eof |-> rep[i].stream.eof]
  OBVIOUS
<1>3. /\ p.pc = "tell" /\ prog' = prog /\ shm' = shm /\ file' = file /\ deaths' = deaths
      /\ pos' = pos /\ rep' = [rep EXCEPT ![i].pc = "exit", ![i].told = t]
  BY <1>1, <1>2 DEF Tell
<1>4. /\ Fits(prog, shm, p, w, o, a, e) /\ w \in Views /\ w = View(rep, i) /\ w.file = file
      /\ p \in RepRecords /\ w.st = p.stream /\ file.seeks
      /\ Shares(prog) => Plain(prog, p)
  <2>1. p.pc \notin Gone
    BY <1>3 DEF Gone
  <2>. QED
    BY <1>1, <2>1, FitsNow
<1>5. IsThere(p, w, o, a, e) /\ ExitDue(shm, p, w, o, a, e)
  <2>1. Phase(prog, shm, p) = "rests"
    BY <1>3, PhaseIs
  <2>. QED
    BY <1>3, <1>4, <2>1 DEF Fits, Compares
<1>6. Sound(w) /\ a = Where(w) /\ e = w.st.eof
  BY <1>5 DEF IsThere
<1>7. t.offs = a /\ t.eof = e
  <2>1. Ftell(w) = Where(w)
    BY <1>4, <1>6, FtellSound
  <2>2. rep[i].stream.eof = e
    BY <1>1, <1>4, <1>6
  <2>. QED
    BY <1>2, <1>4, <1>6, <2>1, <2>2
<1>8. /\ q.pc = "exit" /\ q.stream = p.stream /\ q.desc = p.desc /\ q.told = t
      /\ \A j \in Replicas \ {i} : rep'[j] = rep[j]
  <2>1. rep \in [Replicas -> RepRecords]
    BY <1>0 DEF TypeInv
  <2>. QED
    BY <1>1, <1>3, <1>4, <2>1 DEF RepRecords
<1>9. Fits(prog, shm, q, w, o, a, e)
  <2>1. Phase(prog, shm, q) = "rests"
    BY <1>8, PhaseIs
  <2>2. ExitDue(shm, q, w, o, a, e)
    BY <1>5, <1>8 DEF ExitDue, IsOpen
  <2>3. IsThere(q, w, o, a, e)
    BY <1>5, <1>8 DEF IsThere, IsOpen
  <2>4. q.told.offs = a /\ q.told.eof = e
    BY <1>7, <1>8
  <2>5. Compares(shm, q, w, o, a, e)
    BY <2>2, <2>4 DEF Compares
  <2>. QED
    BY <2>1, <2>3, <2>5 DEF Fits
<1>10. Sees(file, pos', q) = w
  BY <1>1, <1>3, <1>8 DEF Sees
<1>11. Shares(prog) => Plain(prog, q)
  BY <1>4, <1>8 DEF Plain
<1>12. Moves(i, q, o, a, e)
  BY <1>1, <1>3, <1>8, <1>9, <1>10, <1>11 DEF Moves
<1>. QED
  BY <1>1, <1>12

LEMMA FinishMoves ==
  ASSUME NEW o, NEW a, NEW e, Underway(o, a, e), NEW i \in Replicas, Finish(i)
  PROVE  Moves(i, rep'[i], o, a, e)
<1>0. TypeInv /\ TypeInv' /\ a \in Nat /\ o \in BOOLEAN /\ e \in BOOLEAN
  BY DEF Underway
<1>1. PICK p, w, q : p = rep[i] /\ w = Sees(file, pos, p) /\ q = rep'[i]
  OBVIOUS
<1>2. PICK v : v = Fflush(View(rep, i))
  OBVIOUS
<1>3. /\ p.pc = "call" /\ prog' = prog /\ shm' = shm /\ file' = v.file /\ deaths' = deaths
      /\ pos' = IF p.desc = NoDesc THEN pos ELSE [pos EXCEPT ![p.desc] = v.pos]
      /\ rep' = [rep EXCEPT ![i].pc = "end", ![i].stream = v.st]
  BY <1>1, <1>2 DEF Finish
<1>4. /\ Fits(prog, shm, p, w, o, a, e) /\ w \in Views /\ w = View(rep, i) /\ w.file = file
      /\ p \in RepRecords /\ w.st = p.stream
      /\ p.desc # NoDesc => p.desc \in Descs /\ w.pos = pos[p.desc]
      /\ Shares(prog) => Plain(prog, p)
  <2>1. p.pc \notin Gone
    BY <1>3 DEF Gone
  <2>. QED
    BY <1>1, <2>1, FitsNow
<1>5. Phase(prog, shm, p) = "rests"
  BY <1>3, PhaseIs
<1>6. v = w
  <2>1. w.st.out = << >>
    BY <1>4, <1>5 DEF Fits, IsThere, Sound
  <2>. QED
    BY <1>2, <1>4, <2>1, NothingFlushed
<1>7. pos' = pos /\ file' = file
  BY <1>0, <1>3, <1>4, <1>6 DEF TypeInv
<1>8. /\ q.pc = "end" /\ q.stream = p.stream /\ q.desc = p.desc
      /\ \A j \in Replicas \ {i} : rep'[j] = rep[j]
  <2>1. rep \in [Replicas -> RepRecords]
    BY <1>0 DEF TypeInv
  <2>. QED
    BY <1>1, <1>3, <1>4, <1>6, <2>1 DEF RepRecords
<1>9. Fits(prog, shm, q, w, o, a, e)
  BY <1>4, <1>5, <1>8, StaysThere
<1>10. Sees(file, pos', q) = w
  BY <1>1, <1>7, <1>8 DEF Sees
<1>11. Shares(prog) => Plain(prog, q)
  BY <1>4, <1>8 DEF Plain
<1>12. Moves(i, q, o, a, e)
  BY <1>1, <1>3, <1>7, <1>8, <1>9, <1>10, <1>11 DEF Moves
<1>. QED
  BY <1>1, <1>12

LEMMA DieMoves ==
  ASSUME NEW o, NEW a, NEW e, Underway(o, a, e), Tame(prog), NEW i \in Replicas, Die(i)
  PROVE  Moves(i, rep'[i], o, a, e)
<1>0. TypeInv /\ TypeInv'
  BY DEF Underway
<1>1. PICK p, q : p = rep[i] /\ q = rep'[i]
  OBVIOUS
<1>2. /\ p.pc \notin Gone /\ deaths < prog.deaths /\ prog' = prog /\ shm' = shm
      /\ file' = file /\ pos' = pos
      /\ rep' = [rep EXCEPT ![i].pc = "dead", ![i].stream.out = << >>]
  BY <1>1 DEF Die
<1>3. Shares(prog)
  <2>1. deaths \in Nat
    BY <1>0, ProgramType DEF TypeInv
  <2>2. prog.deaths # 0
    BY <1>2, <2>1
  <2>. QED
    BY <2>2 DEF Tame, ByOwnStream, Shares
<1>4. Plain(prog, p) /\ p \in RepRecords /\ p.stream \in Streams
  BY <1>1, <1>2, <1>3, FitsNow
<1>5. p.stream.out = << >>
  BY <1>4 DEF Plain, Blank
<1>6. /\ q.pc = "dead" /\ q.stream = p.stream
      /\ \A j \in Replicas \ {i} : rep'[j] = rep[j]
  <2>1. rep \in [Replicas -> RepRecords]
    BY <1>0 DEF TypeInv
  <2>2. [p.stream EXCEPT !.out = << >>] = p.stream
    BY <1>4, <1>5 DEF Streams, StreamRecords
  <2>3. rep' = [rep EXCEPT ![i] = [p EXCEPT !.pc = "dead", !.stream = p.stream]]
    BY <1>1, <1>2, <2>2, ZenonT(30)
  <2>. QED
    BY <1>1, <1>4, <2>1, <2>3, SMTT(30) DEF RepRecords
<1>7. Plain(prog, q)
  BY <1>4, <1>6 DEF Plain
<1>8. Moves(i, q, o, a, e)
  BY <1>1, <1>2, <1>3, <1>6, <1>7 DEF Moves, Gone
<1>. QED
  BY <1>1, <1>8

\* A stream that was just opened.
LEMMA FreshIs ==
  ASSUME NEW reads \in BOOLEAN, NEW st, st = FreshStream(reads)
  PROVE  st \in Streams /\ Blank(st) /\ st.offset = Unknown /\ st.reads = reads
<1>1. st \in Streams
  BY FreshType
<1>. QED
  BY <1>1 DEF FreshStream, Blank

LEMMA BlankSound ==
  ASSUME NEW w \in Views, Blank(w.st), w.st.offset = Unknown
  PROVE  Sound(w) /\ Where(w) = w.pos /\ w.st.eof = FALSE
<1>1. w.st.buf = << >> /\ w.st.out = << >> /\ ~w.st.eof /\ w.st.eof \in BOOLEAN
  BY ViewType DEF Blank
<1>2. Len(w.st.buf) = 0 /\ w.pos \in Nat
  BY <1>1, EmptySeq, ViewType
<1>3. Sound(w)
  BY <1>1, <1>2 DEF Sound
<1>4. Where(w) = w.pos
  BY <1>1, BlankWhere
<1>. QED
  BY <1>1, <1>3, <1>4

LEMMA OwnCallMoves ==
  ASSUME NEW o, NEW a, NEW e, Underway(o, a, e), NEW i \in Replicas, OwnCall(i)
  PROVE  Moves(i, rep'[i], o, a, e)
<1>0. TypeInv /\ TypeInv' /\ a \in Nat /\ o \in BOOLEAN /\ e \in BOOLEAN
  BY DEF Underway
<1>1. PICK p, w, q : p = rep[i] /\ w = Sees(file, pos, p) /\ q = rep'[i]
  OBVIOUS
<1>2. PICK n : n = [Returned(p, 0, << >>) EXCEPT !.pc = "call"]
  OBVIOUS
<1>3. /\ p.pc = "own" /\ prog' = prog /\ shm' = shm /\ file' = file /\ deaths' = deaths
      /\ pos' = pos
      /\ rep' = [rep EXCEPT ![i] = IF CallOf(p).op = "getpid" THEN n ELSE Closed(n)]
  BY <1>1, <1>2 DEF OwnCall
<1>4. /\ Fits(prog, shm, p, w, o, a, e) /\ w \in Views /\ w = View(rep, i) /\ w.file = file
      /\ p \in RepRecords /\ w.st = p.stream
      /\ Shares(prog) => Plain(prog, p)
  <2>1. p.pc \notin Gone
    BY <1>3 DEF Gone
  <2>. QED
    BY <1>1, <2>1, FitsNow
<1>5. rep \in [Replicas -> RepRecords]
  BY <1>0 DEF TypeInv
<1>6. /\ n.pc = "call" /\ n.stream = p.stream /\ n.desc = p.desc
  BY <1>2, <1>4 DEF Returned, RepRecords
<1>7. CASE CallOf(p).op = "getpid"
  <2>1. q = n /\ \A j \in Replicas \ {i} : rep'[j] = rep[j]
    BY <1>1, <1>3, <1>5, <1>7
  <2>2. Phase(prog, shm, p) = "rests"
    BY <1>3, <1>7 DEF Phase, Closing, CallOf
  <2>3. Fits(prog, shm, q, w, o, a, e)
    BY <1>4, <1>6, <2>1, <2>2, StaysThere
  <2>4. Sees(file, pos', q) = w
    BY <1>1, <1>3, <1>6, <2>1 DEF Sees
  <2>5. Shares(prog) => Plain(prog, q)
    BY <1>4, <1>6, <2>1 DEF Plain
  <2>6. Moves(i, q, o, a, e)
    BY <1>1, <1>3, <1>6, <2>1, <2>3, <2>4, <2>5 DEF Moves
  <2>. QED
    BY <1>1, <2>6
<1>8. CASE CallOf(p).op # "getpid"
  <2>1. q = Closed(n) /\ \A j \in Replicas \ {i} : rep'[j] = rep[j]
    BY <1>1, <1>3, <1>5, <1>8
  <2>2. PICK st : st = FreshStream(FALSE)
    OBVIOUS
  <2>3. st \in Streams /\ Blank(st) /\ st.offset = Unknown /\ ~st.reads
    BY <2>2, FreshIs
  <2>4. q.pc = "call" /\ q.stream = st /\ q.desc = NoDesc
    BY <1>2, <1>4, <1>6, <2>1, <2>2 DEF Closed, Returned, RepRecords
  <2>5. PICK v : v = Sees(file, pos', q)
    OBVIOUS
  <2>6. v \in Views /\ v.file = file /\ v.st = q.stream /\ v.pos = 0
    <3>1. /\ file \in Files /\ pos' \in [Descs -> Nat] /\ q.desc \in Descs \cup {NoDesc}
          /\ q.stream \in Streams
      BY <1>0, <1>3, <2>3, <2>4 DEF TypeInv
    <3>. QED
      BY <2>4, <2>5, <3>1, SeesIs
  <2>7. Sound(v) /\ Where(v) = 0 /\ v.st.eof = FALSE
    BY <2>3, <2>4, <2>6, BlankSound
  <2>8. ~o /\ a = 0 /\ ~e
    <3>1. Phase(prog, shm, p) = "closes"
      BY <1>3, <1>8 DEF Phase, Closing, CallOf
    <3>. QED
      BY <1>4, <3>1 DEF Fits, WillClose
  <2>9. o = IsOpen(q) /\ e = FALSE
    BY <1>0, <2>4, <2>8 DEF IsOpen
  <2>10. e = v.st.eof
    BY <2>7, <2>9
  <2>11. IsThere(q, v, o, a, e)
    BY <2>7, <2>8, <2>9, <2>10 DEF IsThere
  <2>12. Fits(prog, shm, q, v, o, a, e)
    BY <2>4, <2>11, GetsThere
  <2>13. Plain(prog, q)
    BY <2>3, <2>4 DEF Plain
  <2>14. Moves(i, q, o, a, e)
    BY <1>1, <1>3, <2>1, <2>4, <2>5, <2>12, <2>13 DEF Moves
  <2>. QED
    BY <1>1, <2>14
<1>. QED
  BY <1>7, <1>8

\* The call that a replica is at is one of its program's.
LEMMA CallMadeIs ==
  ASSUME TypeInv, NEW i \in Replicas, NEW p, p = rep[i], p.pc \in {"copy", "own"},
         NEW c, c = CallOf(p)
  PROVE  /\ c = NextCall(prog, p) /\ prog \in Programs
         /\ \E k \in DOMAIN prog.calls : c = prog.calls[k]
         /\ p.pc = "copy" => shm.follow = FollowOf(c.op)
<1>1. /\ PlaceOK(prog, p, shm, extraShmSize) /\ prog \in Programs
      /\ Len(p.results) \in Nat /\ Len(prog.calls) \in Nat
      /\ DOMAIN prog.calls = 1 .. Len(prog.calls)
  BY ReplicaFacts, ProgramType
<1>2. PICK n \in Nat : n = Len(p.results)
  BY <1>1
<1>3. n + 1 \in DOMAIN prog.calls /\ c = prog.calls[n + 1]
  BY <1>1, <1>2 DEF PlaceOK, CallOf
<1>4. c = NextCall(prog, p)
  BY <1>2, <1>3 DEF NextCall
<1>5. p.pc = "copy" => shm.follow = FollowOf(c.op)
  BY <1>1, <1>2, <1>3 DEF PlaceOK
<1>. QED
  BY <1>1, <1>3, <1>4, <1>5

LEMMA OpenTooMoves ==
  ASSUME FopenPlain, NEW o, NEW a, NEW e, Underway(o, a, e), NEW i \in Replicas, OpenToo(i)
  PROVE  Moves(i, rep'[i], o, a, e)
<1>0. TypeInv /\ TypeInv' /\ a \in Nat /\ o \in BOOLEAN /\ e \in BOOLEAN
  BY DEF Underway
<1>1. PICK p, w, q, c : p = rep[i] /\ w = Sees(file, pos, p) /\ q = rep'[i] /\ c = CallOf(p)
  OBVIOUS
<1>2. /\ p.pc = "copy" /\ Opening(shm) /\ prog' = prog /\ shm' = shm /\ deaths' = deaths
  BY <1>1 DEF OpenToo, Opening
<1>3. /\ Fits(prog, shm, p, w, o, a, e) /\ w \in Views /\ w.file = file
      /\ p \in RepRecords /\ Shares(prog) => Plain(prog, p)
  <2>1. p.pc \notin Gone
    BY <1>2 DEF Gone
  <2>. QED
    BY <1>1, <2>1, FitsNow
<1>4. /\ c = NextCall(prog, p) /\ prog \in Programs
      /\ \E k \in DOMAIN prog.calls : c = prog.calls[k]
      /\ shm.follow = FollowOf(c.op)
  BY <1>0, <1>1, <1>2, CallMadeIs
<1>5. c.op \in OpenOps
  BY <1>2, <1>4 DEF Opening, FollowOf
<1>6. WillOpen(prog, p, w, o, a, e)
  <2>1. Phase(prog, shm, p) = "opens"
    BY <1>2 DEF Phase
  <2>. QED
    BY <1>3, <2>1 DEF Fits
<1>7. o /\ a = 0 /\ ~e /\ file.exists /\ ("trunc" \in c.flags => file.data = << >>)
  BY <1>3, <1>4, <1>6 DEF WillOpen
<1>8. PICK flags : flags = IF c.op = "open" THEN c.flags \ {"excl"} ELSE c.flags
  OBVIOUS
<1>9. CanOpen(file, flags)
  <2>1. c.op = "fopen" => ~({"creat", "excl"} \subseteq c.flags)
    BY <1>4 DEF FopenPlain
  <2>2. ~("creat" \in flags /\ "excl" \in flags)
    <3>1. CASE c.op = "open"
      BY <1>8, <3>1
    <3>2. CASE c.op = "fopen"
      BY <1>8, <2>1, <3>2
    <3>. QED
      BY <1>5, <3>1, <3>2 DEF OpenOps
  <2>. QED
    BY <1>7, <2>2 DEF CanOpen
<1>10. Opened(file, flags) = file
  <2>1. file \in Files
    BY <1>0 DEF TypeInv
  <2>2. "trunc" \in flags => file.data = << >>
    BY <1>7, <1>8
  <2>3. file.exists = TRUE
    BY <1>7, <2>1 DEF Files
  <2>. QED
    BY <2>1, <2>2, <2>3 DEF Opened, Files
<1>11. PICK desc \in Descs : desc = FreshDesc(rep, i)
                             /\ \A j \in Replicas \ {i} : rep[j].desc # desc
  BY FreshDescIs
<1>12. PICK reads \in BOOLEAN : reads = (c.op = "fopen" /\ "read" \in flags)
  OBVIOUS
<1>13. PICK st : st = FreshStream(reads)
  OBVIOUS
<1>14. st \in Streams /\ Blank(st) /\ st.offset = Unknown /\ st.reads = reads
  BY <1>13, FreshIs
<1>15. PICK cp : cp = Copied(p)
  OBVIOUS
<1>16. PICK n : n = WithFile(cp, desc, st)
  OBVIOUS
<1>17. /\ rep' = [rep EXCEPT ![i] = [n EXCEPT !.pc = "call"]]
       /\ file' = file /\ pos' = [pos EXCEPT ![desc] = 0]
  BY <1>1, <1>8, <1>9, <1>10, <1>11, <1>12, <1>13, <1>15, <1>16 DEF OpenToo
<1>18. /\ q.pc = "call" /\ q.desc = desc /\ q.stream = st
       /\ \A j \in Replicas \ {i} : rep'[j] = rep[j]
  <2>1. rep \in [Replicas -> RepRecords]
    BY <1>0 DEF TypeInv
  <2>2. cp \in RepRecords
    BY <1>0, <1>1, <1>2, <1>15, CopiedRecord
  <2>3. PICK fds, fd : n = [cp EXCEPT !.fd = fd, !.fds = fds, !.desc = desc, !.stream = st]
    BY <1>16 DEF WithFile
  <2>4. q = [n EXCEPT !.pc = "call"]
    BY <1>1, <1>17, <2>1
  <2>5. q.pc = "call" /\ q.desc = desc /\ q.stream = st
    BY <2>2, <2>3, <2>4 DEF RepRecords
  <2>. QED
    BY <1>17, <2>1, <2>5
<1>19. PICK v : v = Sees(file, pos', q)
  OBVIOUS
<1>20. q.desc # NoDesc /\ \A d \in Descs : pos'[d] = IF d = desc THEN 0 ELSE pos[d]
  <2>1. pos \in [Descs -> Nat]
    BY <1>0 DEF TypeInv
  <2>2. NoDesc \notin Descs
    BY DEF NoDesc, Descs, Replicas, Voters
  <2>. QED
    BY <1>11, <1>17, <1>18, <2>1, <2>2
<1>21. v \in Views /\ v.file = file /\ v.st = q.stream /\ v.pos = 0
  <2>1. /\ file \in Files /\ pos' \in [Descs -> Nat] /\ q.desc \in Descs \cup {NoDesc}
        /\ q.stream \in Streams
    BY <1>0, <1>11, <1>14, <1>17, <1>18 DEF TypeInv
  <2>2. v \in Views /\ v.file = file /\ v.st = q.stream /\ v.pos = pos'[q.desc]
    BY <1>19, <1>20, <2>1, SeesIs
  <2>. QED
    BY <1>11, <1>18, <1>20, <2>2
<1>22. Sound(v) /\ Where(v) = 0 /\ v.st.eof = FALSE
  BY <1>14, <1>18, <1>21, BlankSound
<1>23. o = IsOpen(q) /\ e = FALSE
  BY <1>0, <1>7, <1>20 DEF IsOpen
<1>24. e = v.st.eof
  BY <1>22, <1>23
<1>25. IsThere(q, v, o, a, e)
  BY <1>7, <1>22, <1>23, <1>24 DEF IsThere
<1>26. Fits(prog, shm, q, v, o, a, e)
  BY <1>18, <1>25, GetsThere
<1>27. ASSUME Shares(prog)
       PROVE  Plain(prog, q)
  <2>1. ~ByDescriptor(prog) => ~reads
    <3>1. ASSUME ByWriting(prog)
          PROVE  ~reads
      <4>1. c.op = "fopen" => "read" \notin c.flags
        BY <1>4, <3>1 DEF ByWriting
      <4>. QED
        BY <1>8, <1>12, <4>1
    <3>. QED
      BY <1>27, <3>1 DEF Shares
  <2>. QED
    BY <1>14, <1>18, <2>1 DEF Plain
<1>28. \A d \in Descs : pos'[d] = pos[d] \/ (d = q.desc /\ (Shares(prog) => pos'[d] = a))
  BY <1>7, <1>18, <1>20
<1>29. \A j \in Replicas \ {i} : rep[j].desc # q.desc
  BY <1>11, <1>18
<1>30. Moves(i, q, o, a, e)
  BY <1>1, <1>2, <1>17, <1>18, <1>19, <1>26, <1>27, <1>28, <1>29 DEF Moves
<1>. QED
  BY <1>1, <1>30

-----------------------------------------------------------------------------
(* The steps that every replica takes at once.                             *)

\* What fits depends on where a replica is, what it has, and what it has told.
LEMMA FitsSame ==
  ASSUME NEW pr, NEW s, NEW f, NEW ps, NEW o, NEW a, NEW e, NEW p, NEW q,
         q.pc = p.pc, q.results = p.results, q.desc = p.desc, q.stream = p.stream,
         q.told = p.told, Fits(pr, s, p, Sees(f, ps, p), o, a, e)
  PROVE  Fits(pr, s, q, Sees(f, ps, q), o, a, e)
<1>1. PICK w : w = Sees(f, ps, p)
  OBVIOUS
<1>2. Sees(f, ps, q) = w
  BY <1>1 DEF Sees
<1>3. Phase(pr, s, q) = Phase(pr, s, p)
  BY DEF Phase, Closing
<1>4. NextCall(pr, q) = NextCall(pr, p) /\ IsOpen(q) = IsOpen(p)
  BY DEF NextCall, IsOpen
<1>5. Fits(pr, s, p, w, o, a, e)
  BY <1>1
<1>6. Phase(pr, s, p) = "opens" => WillOpen(pr, q, w, o, a, e)
  BY <1>4, <1>5 DEF Fits, WillOpen
<1>7. Phase(pr, s, p) = "seeks" => WillSeek(s, q, w, o, a, e)
  BY <1>4, <1>5 DEF Fits, WillSeek
<1>8. ExitDue(s, p, w, o, a, e) => ExitDue(s, q, w, o, a, e)
  BY <1>4 DEF ExitDue
<1>9. Phase(pr, s, p) = "follows" => WillFollow(s, q, w, o, a, e)
  BY <1>5, <1>8 DEF Fits, WillFollow
<1>10. Phase(pr, s, p) = "fills" => WillFill(s, q, w, o, a, e)
  BY <1>5, <1>8 DEF Fits, WillFill
<1>11. Phase(pr, s, p) = "probes" => WillProbe(s, q, w, o, a, e)
  BY <1>5, <1>8 DEF Fits, WillProbe
<1>12. Phase(pr, s, p) = "rests" => IsThere(q, w, o, a, e)
  BY <1>4, <1>5 DEF Fits, IsThere
<1>13. Phase(pr, s, p) = "rests" => Compares(s, q, w, o, a, e)
  BY <1>5, <1>8 DEF Fits, Compares
<1>14. Phase(pr, s, p) = "closes" => WillClose(o, a, e)
  BY <1>5 DEF Fits
<1>15. Fits(pr, s, q, w, o, a, e)
  BY <1>3, <1>6, <1>7, <1>9, <1>10, <1>11, <1>12, <1>13, <1>14 DEF Fits
<1>. QED
  BY <1>2, <1>15

\* Everybody that makes a step together is there.
Gathered(r, o, a, e) ==
  /\ \A i \in Replicas :
       /\ r[i] \in RepRecords /\ Fits(prog, shm, r[i], Sees(file, pos, r[i]), o, a, e)
       /\ Phase(prog, shm, r[i]) = "rests"
       /\ Shares(prog) => Plain(prog, r[i])
  /\ Shares(prog) => ~shm.eof
  /\ ~Shares(prog) => deaths = 0 /\ OwnDescs(r)

LEMMA RestoredKept ==
  ASSUME NEW o, NEW a, NEW e, Underway(o, a, e), NEW src, NEW pc \in {"call", "exit"},
         Arrived(src, pc), NEW r, r = Restored(src)
  PROVE  Gathered(r, o, a, e) /\ \A i \in Replicas : r[i].pc = pc
<1>0. /\ TypeInv /\ Sharing(prog, shm, rep, deaths) /\ \A i \in Replicas : rep[i].pc # "failed"
  BY DEF Underway, KeptAt
<1>1. ASSUME NEW i \in Replicas
      PROVE  /\ r[i].pc = pc /\ r[i] \in RepRecords
             /\ \E j \in Alive :
                  /\ rep[j].pc = pc /\ r[i].results = rep[j].results
                  /\ r[i].fds = rep[j].fds /\ r[i].shmFd = rep[j].shmFd
                  /\ r[i].fd = rep[j].fd /\ r[i].desc = rep[j].desc
                  /\ r[i].stream = rep[j].stream /\ r[i].told = rep[j].told
  <2>1. /\ r[i].pc = pc /\ ReplicaOK(prog, r[i], shm, extraShmSize)
        /\ \E j \in Alive :
             /\ rep[j].pc = pc /\ r[i].results = rep[j].results
             /\ r[i].fds = rep[j].fds /\ r[i].shmFd = rep[j].shmFd
             /\ r[i].fd = rep[j].fd /\ r[i].desc = rep[j].desc
             /\ r[i].stream = rep[j].stream /\ r[i].told = rep[j].told
    BY <1>0, <1>1, RestoredOK
  <2>. QED
    BY <2>1 DEF ReplicaOK, RepOK
<1>2. ASSUME NEW i \in Replicas
      PROVE  /\ Fits(prog, shm, r[i], Sees(file, pos, r[i]), o, a, e)
             /\ Phase(prog, shm, r[i]) = "rests"
             /\ Shares(prog) => Plain(prog, r[i])
  <2>1. PICK j \in Alive :
               /\ rep[j].pc = pc /\ r[i].results = rep[j].results
               /\ r[i].desc = rep[j].desc
               /\ r[i].stream = rep[j].stream /\ r[i].told = rep[j].told
    BY <1>1, <1>2
  <2>2. PICK p, q : p = rep[j] /\ q = r[i]
    OBVIOUS
  <2>3. /\ q.pc = p.pc /\ q.results = p.results /\ q.desc = p.desc /\ q.stream = p.stream
        /\ q.told = p.told /\ j \in Replicas /\ p.pc \notin Gone /\ q.pc = pc
    BY <1>1, <1>2, <2>1, <2>2 DEF Alive
  <2>4. Fits(prog, shm, p, Sees(file, pos, p), o, a, e) /\ (Shares(prog) => Plain(prog, p))
    BY <2>2, <2>3, FitsNow
  <2>5. Fits(prog, shm, q, Sees(file, pos, q), o, a, e)
    BY <2>3, <2>4, FitsSame
  <2>6. Phase(prog, shm, q) = "rests"
    BY <2>3, PhaseIs
  <2>7. Shares(prog) => Plain(prog, q)
    BY <2>3, <2>4 DEF Plain
  <2>. QED
    BY <2>2, <2>5, <2>6, <2>7
<1>3. ASSUME ~Shares(prog)
      PROVE  deaths = 0 /\ OwnDescs(r)
  <2>1. deaths = 0 /\ OwnDescs(rep) /\ \A i \in Replicas : rep[i].pc # "dead"
    BY <1>0, <1>3 DEF Sharing
  <2>2. \A i \in Replicas : i \in Alive
    BY <1>0, <2>1 DEF Alive, Gone
  <2>3. \A i \in Replicas : r[i] = rep[i]
    BY <2>2 DEF Restored
  <2>. QED
    BY <2>1, <2>3 DEF OwnDescs
<1>4. Shares(prog) => ~shm.eof
  BY <1>0 DEF Sharing
<1>. QED
  BY <1>1, <1>2, <1>3, <1>4 DEF Gathered

\* Everybody goes on, to the same spot.
LEMMA AllGo ==
  ASSUME TypeInv', NEW o \in BOOLEAN, NEW a \in Nat, NEW e \in BOOLEAN,
         prog' = prog, deaths' = deaths, file'.seeks,
         \A i \in Replicas :
           /\ rep'[i].pc \notin Gone
           /\ Fits(prog, shm', rep'[i], Sees(file', pos', rep'[i]), o, a, e)
           /\ Shares(prog) => Plain(prog, rep'[i]),
         Shares(prog) => ~shm'.eof, ~Shares(prog) => deaths = 0 /\ OwnDescs(rep')
  PROVE  Kept'
<1>1. \A i \in Replicas : rep'[i].pc # "failed" /\ rep'[i].pc # "dead"
  BY DEF Gone
<1>2. Sharing(prog, shm', rep', deaths')
  BY <1>1 DEF Sharing
<1>3. AllFit(prog, shm', file', pos', rep', o, a, e)
  BY DEF AllFit
<1>4. KeptAt(prog', shm', file', pos', rep', deaths', o, a, e)
  BY <1>1, <1>2, <1>3 DEF KeptAt
<1>. QED
  BY <1>4 DEF Kept

LEMMA CheckOnlyKept ==
  ASSUME NEW o, NEW a, NEW e, Underway(o, a, e), InStep(rep), CheckOnly
  PROVE  Kept'
<1>0. /\ TypeInv /\ TypeInv' /\ a \in Nat /\ o \in BOOLEAN /\ e \in BOOLEAN /\ file.seeks
  BY DEF Underway, KeptAt
<1>1. PICK src \in Alive :
             /\ Arrived(src, "call") /\ CallOf(rep[src]).op \in Locals
             /\ rep' = [i \in Replicas |-> [Restored(src)[i] EXCEPT !.pc = "own"]]
  BY DEF CheckOnly
<1>2. /\ prog' = prog /\ file' = file /\ pos' = pos /\ shm' = shm /\ deaths' = deaths
  BY DEF CheckOnly
<1>3. PICK r : r = Restored(src)
  OBVIOUS
<1>4. Gathered(r, o, a, e) /\ \A i \in Replicas : r[i].pc = "call"
  BY <1>1, <1>3, RestoredKept
<1>5. \A i \in Replicas : Len(r[i].results) = Len(rep[src].results)
  BY <1>0, <1>1, <1>3, RestoredInStep
<1>6. PICK c : c = CallOf(rep[src])
  OBVIOUS
<1>7. ASSUME NEW i \in Replicas
      PROVE  /\ rep'[i].pc = "own" /\ rep'[i].results = r[i].results
             /\ rep'[i].desc = r[i].desc /\ rep'[i].stream = r[i].stream
             /\ NextCall(prog, rep'[i]) = c
  <2>1. PICK p, q : p = r[i] /\ q = rep'[i]
    OBVIOUS
  <2>2. p \in RepRecords /\ q = [p EXCEPT !.pc = "own"]
    BY <1>1, <1>3, <1>4, <1>7, <2>1 DEF Gathered
  <2>3. q.pc = "own" /\ q.results = p.results /\ q.desc = p.desc /\ q.stream = p.stream
    BY <2>2 DEF RepRecords
  <2>4. Len(q.results) = Len(rep[src].results)
    BY <1>5, <1>7, <2>1, <2>3
  <2>5. NextCall(prog, q) = c
    BY <1>6, <2>4 DEF NextCall, CallOf
  <2>. QED
    BY <2>1, <2>3, <2>5
<1>8. ~Shares(prog) => deaths = 0 /\ OwnDescs(rep')
  BY <1>4, <1>7 DEF Gathered, OwnDescs
<1>9. (Shares(prog) => ~shm'.eof) /\ file'.seeks
  BY <1>0, <1>2, <1>4 DEF Gathered
<1>10. ASSUME NEW i \in Replicas
       PROVE  rep'[i].pc \notin Gone /\ (Shares(prog) => Plain(prog, rep'[i]))
  BY <1>4, <1>7, <1>10 DEF Gathered, Plain, Gone
<1>11. CASE c.op = "getpid"
  <2>1. ASSUME NEW i \in Replicas
        PROVE  Fits(prog, shm', rep'[i], Sees(file', pos', rep'[i]), o, a, e)
    <3>1. PICK p, q, w : p = r[i] /\ q = rep'[i] /\ w = Sees(file, pos, p)
      OBVIOUS
    <3>2. IsThere(p, w, o, a, e)
      BY <1>4, <2>1, <3>1 DEF Gathered, Fits
    <3>3. q.pc = "own" /\ q.desc = p.desc /\ q.stream = p.stream /\ NextCall(prog, q).op = "getpid"
      BY <1>7, <1>11, <2>1, <3>1
    <3>4. IsThere(q, w, o, a, e)
      BY <3>2, <3>3 DEF IsThere, IsOpen
    <3>5. Phase(prog, shm, q) = "rests"
      BY <3>3 DEF Phase, Closing, NextCall
    <3>6. Fits(prog, shm, q, w, o, a, e)
      BY <3>3, <3>4, <3>5 DEF Fits, Compares
    <3>7. Sees(file', pos', q) = w
      BY <1>2, <3>1, <3>3 DEF Sees
    <3>. QED
      BY <1>2, <3>1, <3>6, <3>7
  <2>. QED
    BY <1>0, <1>2, <1>8, <1>9, <1>10, <2>1, AllGo
<1>12. CASE c.op # "getpid"
  <2>1. PICK o2 \in BOOLEAN : o2 = FALSE
    OBVIOUS
  <2>2. PICK a2 \in Nat : a2 = 0
    OBVIOUS
  <2>3. ASSUME NEW i \in Replicas
        PROVE  Fits(prog, shm', rep'[i], Sees(file', pos', rep'[i]), o2, a2, o2)
    <3>1. PICK q, w : q = rep'[i] /\ w = Sees(file', pos', rep'[i])
      OBVIOUS
    <3>2. q.pc = "own" /\ NextCall(prog, q).op # "getpid"
      BY <1>7, <1>12, <2>3, <3>1
    <3>3. Phase(prog, shm', q) = "closes"
      BY <3>2 DEF Phase, Closing, NextCall
    <3>4. WillClose(o2, a2, o2)
      BY <2>1, <2>2 DEF WillClose
    <3>5. Fits(prog, shm', q, w, o2, a2, o2)
      BY <3>3, <3>4 DEF Fits
    <3>. QED
      BY <3>1, <3>5
  <2>. QED
    BY <1>0, <1>2, <1>8, <1>9, <1>10, <2>3, AllGo
<1>. QED
  BY <1>11, <1>12

\* Equal exit states are not voted on.
LEMMA EqualAgree ==
  ASSUME NEW args, NEW t, \A i \in Replicas : args[i] = t
  PROVE  BadProc(args) = AllAgree
<1>1. args[0] = t /\ args[1] = t /\ args[2] = t
  BY DEF Replicas, Voters
<1>2. CompareArgs(args[0], args[1]) = {} /\ CompareArgs(args[1], args[2]) = {}
  BY <1>1 DEF CompareArgs
<1>. QED
  BY <1>2 DEF BadProc

\* All exit states being the same, nobody is condemned, and everybody goes on.
LEMMA ExitsAgree ==
  ASSUME NEW o, NEW a, NEW e, Underway(o, a, e), CompareExits
  PROVE  \E src \in Alive :
           /\ Arrived(src, "exit")
           /\ rep' = [i \in Replicas |-> [Restored(src)[i] EXCEPT !.pc = "call"]]
<1>0. /\ TypeInv /\ TypeInv' /\ a \in Nat /\ o \in BOOLEAN /\ e \in BOOLEAN /\ file.seeks
  BY DEF Underway, KeptAt
<1>1. PICK src \in Alive :
             /\ Arrived(src, "exit")
             /\ LET r == Restored(src)
                    bad == BadProc([i \in Replicas |-> r[i].told])
                IN  \/ /\ bad \in Replicas
                       /\ \E voter \in Replicas \ {bad} :
                            rep' = [i \in Replicas |->
                                     [(IF i = bad THEN CopyOf(r[voter]) ELSE r[i]) EXCEPT
                                        !.pc = "call"]]
                    \/ /\ bad = AllAgree
                       /\ rep' = [i \in Replicas |-> [r[i] EXCEPT !.pc = "call"]]
                    \/ /\ bad = NoMajority
                       /\ rep' = [i \in Replicas |-> [r[i] EXCEPT !.pc = "failed"]]
  BY DEF CompareExits
<1>3. PICK r : r = Restored(src)
  OBVIOUS
<1>4. Gathered(r, o, a, e) /\ \A i \in Replicas : r[i].pc = "exit"
  BY <1>1, <1>3, RestoredKept
<1>5. PICK t : t = [offs |-> a, eof |-> e]
  OBVIOUS
<1>6. ASSUME NEW i \in Replicas
      PROVE  r[i].told = t
  <2>1. PICK p : p = r[i]
    OBVIOUS
  <2>2. p.told.offs = a /\ p.told.eof = e /\ p \in RepRecords
    BY <1>4, <1>6, <2>1 DEF Gathered, Fits, Compares
  <2>3. p.told \in Tolds
    BY <2>2, RepFields
  <2>. QED
    BY <1>5, <2>1, <2>2, <2>3 DEF Tolds
<1>7. BadProc([i \in Replicas |-> r[i].told]) = AllAgree
  <2>1. PICK args : args = [i \in Replicas |-> r[i].told]
    OBVIOUS
  <2>2. \A i \in Replicas : args[i] = t
    BY <1>6, <2>1
  <2>. QED
    BY <2>1, <2>2, EqualAgree
<1>8. rep' = [i \in Replicas |-> [r[i] EXCEPT !.pc = "call"]]
  <2>1. AllAgree \notin Replicas /\ AllAgree # NoMajority
    BY DEF AllAgree, NoMajority, Replicas, Voters
  <2>. QED
    BY <1>1, <1>3, <1>7, <2>1
<1>. QED
  BY <1>1, <1>3, <1>8

LEMMA CompareExitsKept ==
  ASSUME NEW o, NEW a, NEW e, Underway(o, a, e), CompareExits
  PROVE  Kept'
<1>0. /\ TypeInv /\ TypeInv' /\ a \in Nat /\ o \in BOOLEAN /\ e \in BOOLEAN /\ file.seeks
  BY DEF Underway, KeptAt
<1>1. PICK src \in Alive :
             /\ Arrived(src, "exit")
             /\ rep' = [i \in Replicas |-> [Restored(src)[i] EXCEPT !.pc = "call"]]
  BY ExitsAgree
<1>2. prog' = prog /\ file' = file /\ pos' = pos /\ shm' = shm /\ deaths' = deaths
  BY DEF CompareExits
<1>3. PICK r : r = Restored(src)
  OBVIOUS
<1>4. Gathered(r, o, a, e) /\ \A i \in Replicas : r[i].pc = "exit"
  BY <1>1, <1>3, RestoredKept
<1>8. rep' = [i \in Replicas |-> [r[i] EXCEPT !.pc = "call"]]
  BY <1>1, <1>3
<1>9. ASSUME NEW i \in Replicas
      PROVE  rep'[i].pc = "call" /\ rep'[i].desc = r[i].desc /\ rep'[i].stream = r[i].stream
  <2>1. PICK p, q : p = r[i] /\ q = rep'[i]
    OBVIOUS
  <2>2. p \in RepRecords /\ q = [p EXCEPT !.pc = "call"]
    BY <1>4, <1>8, <1>9, <2>1 DEF Gathered
  <2>3. q.pc = "call" /\ q.desc = p.desc /\ q.stream = p.stream
    BY <2>2 DEF RepRecords
  <2>. QED
    BY <2>1, <2>3
<1>10. ASSUME NEW i \in Replicas
       PROVE  /\ rep'[i].pc \notin Gone
              /\ Fits(prog, shm', rep'[i], Sees(file', pos', rep'[i]), o, a, e)
              /\ Shares(prog) => Plain(prog, rep'[i])
  <2>1. PICK p, q, w : p = r[i] /\ q = rep'[i] /\ w = Sees(file, pos, p)
    OBVIOUS
  <2>2. /\ Fits(prog, shm, p, w, o, a, e) /\ Phase(prog, shm, p) = "rests"
        /\ (Shares(prog) => Plain(prog, p))
    BY <1>4, <1>10, <2>1 DEF Gathered
  <2>3. q.pc = "call" /\ q.desc = p.desc /\ q.stream = p.stream
    BY <1>9, <1>10, <2>1
  <2>4. Fits(prog, shm, q, w, o, a, e)
    BY <2>2, <2>3, StaysThere
  <2>5. Sees(file', pos', q) = w
    BY <1>2, <2>1, <2>3 DEF Sees
  <2>6. q.pc \notin Gone /\ (Shares(prog) => Plain(prog, q))
    BY <2>2, <2>3 DEF Plain, Gone
  <2>. QED
    BY <1>2, <2>1, <2>4, <2>5, <2>6
<1>11. ~Shares(prog) => deaths = 0 /\ OwnDescs(rep')
  BY <1>4, <1>9 DEF Gathered, OwnDescs
<1>12. (Shares(prog) => ~shm'.eof) /\ file'.seeks
  BY <1>0, <1>2, <1>4 DEF Gathered
<1>. QED
  BY <1>0, <1>2, <1>10, <1>11, <1>12, AllGo

-----------------------------------------------------------------------------
(* The master's call.                                                      *)

\* What everybody has before it.
LEMMA CallStart ==
  ASSUME NEW o, NEW a, NEW e, Underway(o, a, e),
         NEW src, NEW r, NEW n, NEW c, NEW out, NEW size, NEW p,
         CallMade(src, r, n, c, out, size, p), NEW m, m = r[Master],
         NEW w, w = Sees(file, pos, m)
  PROVE  /\ Gathered(r, o, a, e) /\ Master \in Replicas
         /\ m \in RepRecords /\ w \in Views /\ w.file = file /\ w.st = m.stream
         /\ out = Served(w, c) /\ IsThere(m, w, o, a, e) /\ file.seeks
         /\ c \in Calls /\ c.op \notin Locals
         /\ (\E k \in DOMAIN prog.calls : c = prog.calls[k])
         /\ out.w \in Views /\ out.w.file.seeks /\ file' = out.w.file /\ shm' = Left(out)
         /\ out.follow = FollowOf(c.op) /\ out.compare = (out.follow = "fseek")
         /\ prog' = prog /\ deaths' = deaths
<1>0. /\ TypeInv /\ file.seeks /\ file \in Files /\ pos \in [Descs -> Nat] /\ prog \in Programs
  BY DEF Underway, KeptAt, TypeInv
<1>1. /\ Arrived(src, "call") /\ r = Restored(src) /\ n \in Nat /\ n < Len(prog.calls)
      /\ c \in Calls /\ c = prog.calls[n + 1] /\ c.op \notin Locals
      /\ out = Served(View(r, Master), c)
      /\ IsOutcome(out) /\ out.follow = FollowOf(c.op) /\ out.w.file.seeks = file.seeks
      /\ file' = out.w.file /\ shm' = Left(out) /\ prog' = prog /\ deaths' = deaths
  BY ZenonT(30) DEF CallMade
<1>2. Gathered(r, o, a, e)
  BY <1>1, RestoredKept
<1>3. Master \in Replicas
  BY DEF Master, Replicas, Voters
<1>4. m \in RepRecords /\ Fits(prog, shm, m, w, o, a, e) /\ Phase(prog, shm, m) = "rests"
  BY <1>2, <1>3 DEF Gathered
<1>5. IsThere(m, w, o, a, e)
  BY <1>4 DEF Fits
<1>6. w \in Views /\ w.file = file /\ w.st = m.stream
  BY <1>0, <1>4, RepFields, SeesIs
<1>7. out = Served(w, c)
  BY <1>1 DEF View, Sees
<1>8. out.w \in Views /\ out.compare = (out.follow = "fseek")
  BY <1>1 DEF IsOutcome
<1>9. \E k \in DOMAIN prog.calls : c = prog.calls[k]
  <2>1. n + 1 \in DOMAIN prog.calls
    BY <1>0, <1>1, ProgramType
  <2>. QED
    BY <1>1, <2>1
<1>. QED
  BY <1>0, <1>1, <1>2, <1>3, <1>4, <1>5, <1>6, <1>7, <1>8, <1>9

\* What a slave has after it.
LEMMA SlaveAfter ==
  ASSUME NEW o, NEW a, NEW e, Underway(o, a, e),
         NEW src, NEW r, NEW n, NEW c, NEW out, NEW size, NEW p,
         CallMade(src, r, n, c, out, size, p), NEW i \in Replicas, i # Master,
         NEW b, b = r[i], NEW w, w = Sees(file, pos, b),
         NEW q, q = rep'[i], NEW v, v = Sees(file', pos', q)
  PROVE  /\ q.pc = "copy" /\ q.desc = b.desc /\ q.stream = b.stream
         /\ NextCall(prog, q) = c /\ IsThere(b, w, o, a, e)
         /\ b.desc \in Descs \cup {NoDesc}
         /\ w \in Views /\ w.file = file /\ v \in Views /\ v.file = file'
         /\ v.st = q.stream /\ w.st = q.stream
         /\ q.desc = NoDesc => w.pos = 0 /\ v.pos = 0
         /\ q.desc # NoDesc => w.pos = pos[q.desc] /\ v.pos = pos'[q.desc]
<1>0. /\ file \in Files /\ pos \in [Descs -> Nat]
      /\ file' \in Files /\ pos' \in [Descs -> Nat]
  BY DEF Underway, TypeInv
<1>1. /\ n \in Nat /\ Len(r[i].results) = n /\ c = prog.calls[n + 1]
      /\ rep'[i] = [r[i] EXCEPT !.pc = "copy"]
  BY ZenonT(30) DEF CallMade
<1>2. Gathered(r, o, a, e)
  BY CallStart
<1>3. b \in RepRecords /\ Fits(prog, shm, b, w, o, a, e) /\ Phase(prog, shm, b) = "rests"
  BY <1>2 DEF Gathered
<1>4. IsThere(b, w, o, a, e)
  BY <1>3 DEF Fits
<1>5. /\ q.pc = "copy" /\ q.desc = b.desc /\ q.stream = b.stream /\ q.results = b.results
  BY <1>1, <1>3 DEF RepRecords
<1>6. NextCall(prog, q) = c
  BY <1>1, <1>5 DEF NextCall
<1>7. /\ b.desc \in Descs \cup {NoDesc} /\ b.stream \in Streams
      /\ q.desc \in Descs \cup {NoDesc} /\ q.stream \in Streams
  BY <1>3, <1>5, RepFields
<1>8. /\ w \in Views /\ w.file = file /\ w.st = b.stream
      /\ b.desc = NoDesc => w.pos = 0
      /\ b.desc # NoDesc => b.desc \in Descs /\ w.pos = pos[b.desc]
  BY <1>0, <1>7, SeesIs
<1>9. /\ v \in Views /\ v.file = file' /\ v.st = q.stream
      /\ q.desc = NoDesc => v.pos = 0
      /\ q.desc # NoDesc => q.desc \in Descs /\ v.pos = pos'[q.desc]
  BY <1>0, <1>7, SeesIs
<1>. QED
  BY <1>4, <1>5, <1>6, <1>7, <1>8, <1>9

\* What the master m has after it, as q.
BackFrom(r, out, p, m, q) ==
  /\ q.pc = IF out.compare THEN "tell" ELSE "call"
  /\ q.desc = p.desc /\ q.desc \in Descs \cup {NoDesc}
  /\ Opening(out) => q.desc = FreshDesc(r, Master) /\ q.stream = out.w.st
  /\ ~Opening(out) => q.desc = m.desc
  /\ out.follow # "open" => q.stream = out.w.st
  /\ out.follow = "open" /\ ~Opening(out) => q.stream = m.stream

LEMMA MasterAfter ==
  ASSUME NEW o, NEW a, NEW e, Underway(o, a, e),
         NEW src, NEW r, NEW n, NEW c, NEW out, NEW size, NEW p,
         CallMade(src, r, n, c, out, size, p), NEW m, m = r[Master], NEW q, q = rep'[Master]
  PROVE  BackFrom(r, out, p, m, q)
<1>0. TypeInv /\ prog \in Programs /\ extraShmSize \in Nat
  BY DEF Underway, TypeInv
<1>1. /\ Arrived(src, "call") /\ r = Restored(src) /\ size \in Nat /\ size >= extraShmSize
      /\ p = Called(r[Master], r, out, size)
      /\ rep'[Master] = [Returned(p, out.ret, out.data) EXCEPT
                           !.pc = IF out.compare THEN "tell" ELSE "call"]
  BY ZenonT(30) DEF CallMade
<1>2. Master \in Replicas
  BY DEF Master, Replicas, Voters
<1>3. ReplicaOK(prog, m, shm, extraShmSize)
  BY <1>0, <1>1, <1>2, RestoredOK
<1>4. PICK k \in Nat, size0 \in Nat :
        k = OpensBefore(prog, Len(m.results)) /\ k <= MaxOpens /\ size0 = extraShmSize
  <2>1. Len(m.results) \in Nat
    BY <1>3, RepFields DEF ReplicaOK, RepOK
  <2>. QED
    BY <1>0, <2>1, OpensGrow
<1>5. RepOK(m, size0, k) /\ size0 <= size
  BY <1>1, <1>3, <1>4 DEF ReplicaOK
<1>6. RepOK(m, size, k)
  BY <1>1, <1>5, RepOKMonotone
<1>7. PICK f : f = Refreshed(m, size)
  OBVIOUS
<1>8. RepOK(f, size, k) /\ f.desc = m.desc /\ f.stream = m.stream
  BY <1>1, <1>4, <1>6, <1>7, RefreshedOK
<1>9. f \in RepRecords /\ f.desc \in Descs \cup {NoDesc}
  BY <1>8, RepFields DEF RepOK
<1>10. PICK desc \in Descs : desc = FreshDesc(r, Master)
  BY <1>2, FreshDescIs
<1>11. CASE Opening(out)
  <2>1. p = WithFile(f, desc, out.w.st)
    BY <1>1, <1>7, <1>10, <1>11 DEF Called, MasterOpens, Opening
  <2>2. PICK fd, fds : p = [f EXCEPT !.fd = fd, !.fds = fds, !.desc = desc, !.stream = out.w.st]
    BY <2>1 DEF WithFile
  <2>3. PICK x : q = [[p EXCEPT !.results = x] EXCEPT
                        !.pc = IF out.compare THEN "tell" ELSE "call"]
    BY <1>1 DEF Returned
  <2>4. PICK to : to = IF out.compare THEN "tell" ELSE "call"
    OBVIOUS
  <2>5. q.pc = to /\ q.desc = desc /\ q.stream = out.w.st /\ p.desc = desc
    BY <1>9, <2>2, <2>3, <2>4 DEF RepRecords
  <2>. QED
    BY <1>10, <1>11, <2>4, <2>5 DEF Opening, BackFrom
<1>12. CASE ~Opening(out)
  <2>1. PICK st : p = [f EXCEPT !.stream = st]
                  /\ st = IF out.follow = "open" THEN m.stream ELSE out.w.st
    <3>1. CASE out.follow = "open"
      <4>1. p = f
        BY <1>1, <1>7, <1>12, <3>1 DEF Called, MasterOpens, Opening
      <4>2. f = [f EXCEPT !.stream = m.stream]
        BY <1>8, <1>9 DEF RepRecords
      <4>. QED
        BY <3>1, <4>1, <4>2
    <3>2. CASE out.follow # "open"
      BY <1>1, <1>7, <3>2 DEF Called
    <3>. QED
      BY <3>1, <3>2
  <2>3. PICK x : q = [[p EXCEPT !.results = x] EXCEPT
                        !.pc = IF out.compare THEN "tell" ELSE "call"]
    BY <1>1 DEF Returned
  <2>4. PICK to : to = IF out.compare THEN "tell" ELSE "call"
    OBVIOUS
  <2>5. q.pc = to /\ q.desc = f.desc /\ q.stream = st /\ p.desc = f.desc
    BY <1>9, <2>1, <2>3, <2>4 DEF RepRecords
  <2>. QED
    BY <1>8, <1>9, <1>12, <2>1, <2>4, <2>5 DEF BackFrom
<1>. QED
  BY <1>11, <1>12

\* What the master sees after it.
LEMMA MasterSees ==
  ASSUME NEW o, NEW a, NEW e, Underway(o, a, e),
         NEW src, NEW r, NEW n, NEW c, NEW out, NEW size, NEW p,
         CallMade(src, r, n, c, out, size, p), NEW q, q = rep'[Master],
         NEW v, v = Sees(file', pos', q)
  PROVE  /\ v \in Views /\ v.file = out.w.file /\ v.st = q.stream
         /\ q.desc = NoDesc => v.pos = 0
         /\ q.desc # NoDesc => v.pos = out.w.pos
         /\ q.desc # NoDesc /\ q.stream = out.w.st => v = out.w
         /\ \A d \in Descs : d # q.desc => pos'[d] = pos[d]
<1>0. /\ file' \in Files /\ pos' \in [Descs -> Nat] /\ pos \in [Descs -> Nat]
      /\ rep' \in [Replicas -> RepRecords]
  BY DEF Underway, TypeInv
<1>1. /\ file' = out.w.file
      /\ pos' = IF p.desc = NoDesc THEN pos ELSE [pos EXCEPT ![p.desc] = out.w.pos]
  BY ZenonT(30) DEF CallMade
<1>9. PICK m : m = r[Master]
  OBVIOUS
<1>10. BackFrom(r, out, p, m, q)
  BY <1>9, MasterAfter
<1>2. q.desc = p.desc /\ q.desc \in Descs \cup {NoDesc}
  BY <1>10 DEF BackFrom
<1>3. q.stream \in Streams
  BY <1>0, RepFields DEF Master, Replicas, Voters
<1>4. /\ v \in Views /\ v.file = file' /\ v.st = q.stream
      /\ q.desc = NoDesc => v.pos = 0
      /\ q.desc # NoDesc => q.desc \in Descs /\ v.pos = pos'[q.desc]
  BY <1>0, <1>2, <1>3, SeesIs
<1>5. q.desc # NoDesc => v.pos = out.w.pos
  BY <1>0, <1>1, <1>2, <1>4
<1>6. out.w \in Views
  BY CallStart
<1>7. q.desc # NoDesc /\ q.stream = out.w.st => v = out.w
  BY <1>1, <1>4, <1>5, <1>6, ViewType
<1>8. \A d \in Descs : d # q.desc => pos'[d] = pos[d]
  BY <1>0, <1>1, <1>2
<1>. QED
  BY <1>1, <1>4, <1>5, <1>7, <1>8

\* The step, when master and slaves make for this spot.
SlavesFit(o, a, e) ==
  \A i \in Replicas \ {Master} :
    Fits(prog, shm', rep'[i], Sees(file', pos', rep'[i]), o, a, e)

LEMMA CallKept ==
  ASSUME NEW o, NEW a, NEW e, Underway(o, a, e),
         NEW src, NEW r, NEW n, NEW c, NEW out, NEW size, NEW p,
         CallMade(src, r, n, c, out, size, p),
         NEW o2 \in BOOLEAN, NEW a2 \in Nat, NEW e2 \in BOOLEAN, NEW q, q = rep'[Master],
         Fits(prog, shm', q, Sees(file', pos', q), o2, a2, e2), SlavesFit(o2, a2, e2),
         Shares(prog) => Plain(prog, q) /\ ~out.eof
  PROVE  Kept'
<1>1. /\ Gathered(r, o, a, e) /\ Master \in Replicas /\ file'.seeks /\ shm' = Left(out)
      /\ prog' = prog /\ deaths' = deaths
  BY CallStart
<1>2. PICK m : m = r[Master]
  OBVIOUS
<1>3. /\ q.pc = IF out.compare THEN "tell" ELSE "call"
      /\ q.desc = m.desc \/ q.desc = FreshDesc(r, Master)
  <2>1. BackFrom(r, out, p, m, q)
    BY <1>2, MasterAfter
  <2>. QED
    BY <2>1 DEF BackFrom
<1>4. ASSUME NEW i \in Replicas, i # Master
      PROVE  rep'[i].pc = "copy" /\ rep'[i].desc = r[i].desc /\ rep'[i].stream = r[i].stream
  <2>1. PICK b, w, z, v : b = r[i] /\ w = Sees(file, pos, b) /\ z = rep'[i] /\ v = Sees(file', pos', z)
    OBVIOUS
  <2>2. z.pc = "copy" /\ z.desc = b.desc /\ z.stream = b.stream
    BY <1>4, <2>1, SlaveAfter
  <2>. QED
    BY <2>1, <2>2
<1>5. ASSUME NEW i \in Replicas
      PROVE  /\ rep'[i].pc \notin Gone
             /\ Fits(prog, shm', rep'[i], Sees(file', pos', rep'[i]), o2, a2, e2)
             /\ Shares(prog) => Plain(prog, rep'[i])
  <2>1. CASE i = Master
    BY <1>3, <2>1 DEF Gone
  <2>2. CASE i # Master
    <3>1. rep'[i].pc \notin Gone
      BY <1>4, <1>5, <2>2 DEF Gone
    <3>2. Fits(prog, shm', rep'[i], Sees(file', pos', rep'[i]), o2, a2, e2)
      BY <1>5, <2>2 DEF SlavesFit
    <3>3. Shares(prog) => Plain(prog, rep'[i])
      BY <1>1, <1>4, <1>5, <2>2 DEF Gathered, Plain
    <3>. QED
      BY <3>1, <3>2, <3>3
  <2>. QED
    BY <2>1, <2>2
<1>6. ~Shares(prog) => deaths = 0 /\ OwnDescs(rep')
  <2>1. SUFFICES ASSUME ~Shares(prog)
                 PROVE  deaths = 0 /\ OwnDescs(rep')
    OBVIOUS
  <2>2. deaths = 0 /\ OwnDescs(r)
    BY <1>1, <2>1 DEF Gathered
  <2>3. \A j \in Replicas \ {Master} : r[j].desc # FreshDesc(r, Master)
    BY <1>1, FreshDescIs
  <2>4. ASSUME NEW i \in Replicas, NEW j \in Replicas, i # j
        PROVE  rep'[i].desc # rep'[j].desc \/ rep'[i].desc = NoDesc
    <3>1. r[i].desc # r[j].desc \/ r[i].desc = NoDesc
      BY <2>2, <2>4 DEF OwnDescs
    <3>2. CASE i # Master /\ j # Master
      BY <1>4, <2>4, <3>1, <3>2
    <3>3. CASE i = Master
      <4>1. rep'[j].desc = r[j].desc /\ rep'[i].desc = q.desc /\ j \in Replicas \ {Master}
        BY <1>4, <2>4, <3>3
      <4>. QED
        BY <1>2, <1>3, <2>3, <3>1, <3>3, <4>1
    <3>4. CASE j = Master
      <4>1. rep'[i].desc = r[i].desc /\ rep'[j].desc = q.desc /\ i \in Replicas \ {Master}
        BY <1>4, <2>4, <3>4
      <4>. QED
        BY <1>2, <1>3, <2>3, <3>1, <3>4, <4>1
    <3>. QED
      BY <3>2, <3>3, <3>4
  <2>. QED
    BY <2>2, <2>4 DEF OwnDescs
<1>7. Shares(prog) => ~shm'.eof
  BY <1>1 DEF Left
<1>8. TypeInv'
  BY DEF Underway
<1>. QED
  BY <1>1, <1>5, <1>6, <1>7, <1>8, AllGo

\* What a slave sees moves only when the master has its offset.
LEMMA SlaveSees ==
  ASSUME NEW o, NEW a, NEW e, Underway(o, a, e),
         NEW src, NEW r, NEW n, NEW c, NEW out, NEW size, NEW p,
         CallMade(src, r, n, c, out, size, p), NEW i \in Replicas, i # Master,
         NEW b, b = r[i], NEW w, w = Sees(file, pos, b),
         NEW q, q = rep'[i], NEW v, v = Sees(file', pos', q), NEW z, z = rep'[Master]
  PROVE  v.pos = w.pos \/ (q.desc # NoDesc /\ q.desc = z.desc /\ v.pos = out.w.pos)
<1>1. /\ q.desc = b.desc /\ b.desc \in Descs \cup {NoDesc}
      /\ q.desc = NoDesc => w.pos = 0 /\ v.pos = 0
      /\ q.desc # NoDesc => w.pos = pos[q.desc] /\ v.pos = pos'[q.desc]
  BY SlaveAfter
<1>2. PICK y : y = Sees(file', pos', z)
  OBVIOUS
<1>3. /\ z.desc # NoDesc => y.pos = out.w.pos
      /\ \A d \in Descs : d # z.desc => pos'[d] = pos[d]
  BY <1>2, MasterSees
<1>4. z.desc # NoDesc => y.pos = pos'[z.desc]
  BY <1>2 DEF Sees
<1>. QED
  BY <1>1, <1>3, <1>4

\* Of everybody who is there, nothing is known but that when the offsets may be shared.
LEMMA CallerPlain ==
  ASSUME NEW o, NEW a, NEW e, Underway(o, a, e),
         NEW src, NEW r, NEW n, NEW c, NEW out, NEW size, NEW p,
         CallMade(src, r, n, c, out, size, p), NEW i \in Replicas, NEW b, b = r[i]
  PROVE  /\ Shares(prog) => Plain(prog, b)
         /\ ~Shares(prog) /\ i # Master => b.desc # r[Master].desc \/ b.desc = NoDesc
         /\ rep[src].pc = "call" /\ src \in Alive /\ HasCall(rep[src]) /\ CallOf(rep[src]) = c
<1>1. Gathered(r, o, a, e)
  BY CallStart
<1>2. Shares(prog) => Plain(prog, b)
  BY <1>1 DEF Gathered
<1>3. ~Shares(prog) /\ i # Master => b.desc # r[Master].desc \/ b.desc = NoDesc
  <2>1. ~Shares(prog) => OwnDescs(r)
    BY <1>1 DEF Gathered
  <2>2. Master \in Replicas
    BY DEF Master, Replicas, Voters
  <2>. QED
    BY <2>1, <2>2 DEF OwnDescs
<1>4. /\ Arrived(src, "call") /\ src \in Alive /\ n = Len(rep[src].results)
      /\ n < Len(prog.calls) /\ c = prog.calls[n + 1]
  BY ZenonT(30) DEF CallMade
<1>5. rep[src].pc = "call"
  BY <1>4 DEF Arrived
<1>6. HasCall(rep[src]) /\ CallOf(rep[src]) = c
  BY <1>4 DEF HasCall, CallOf
<1>. QED
  BY <1>2, <1>3, <1>4, <1>5, <1>6

LEMMA MasterStreamKept ==
  ASSUME NEW o, NEW a, NEW e, Underway(o, a, e), Tame(prog), WellUsed,
         NEW src, NEW r, NEW n, NEW c, NEW out, NEW size, NEW p,
         CallMade(src, r, n, c, out, size, p), c.op \in StreamOps
  PROVE  Kept'
<1>0. o \in BOOLEAN
  BY DEF Underway
<1>1. PICK m, q : m = r[Master] /\ q = rep'[Master]
  OBVIOUS
<1>2. PICK w, v : w = Sees(file, pos, m) /\ v = Sees(file', pos', q)
  OBVIOUS
<1>3. /\ Master \in Replicas /\ w \in Views /\ w.file = file /\ w.st = m.stream
      /\ out = Served(w, c) /\ IsThere(m, w, o, a, e) /\ file.seeks
      /\ c \in Calls /\ (\E k \in DOMAIN prog.calls : c = prog.calls[k])
      /\ file' = out.w.file /\ shm' = Left(out) /\ out.compare = (out.follow = "fseek")
  BY <1>1, <1>2, CallStart
<1>4. o = TRUE
  <2>1. PICK u : u = rep[src]
    OBVIOUS
  <2>2. u.pc = "call" /\ src \in Alive /\ HasCall(u) /\ CallOf(u) = c
    BY <1>1, <1>3, <2>1, CallerPlain
  <2>3. u.desc # NoDesc
    BY <2>1, <2>2 DEF WellUsed
  <2>4. PICK x : x = Sees(file, pos, u)
    OBVIOUS
  <2>5. src \in Replicas /\ u.pc \notin Gone
    BY <2>1, <2>2 DEF Alive
  <2>6. Fits(prog, shm, u, x, o, a, e)
    BY <2>1, <2>4, <2>5, FitsNow
  <2>7. Phase(prog, shm, u) = "rests"
    BY <2>2, PhaseIs
  <2>8. o = IsOpen(u)
    BY <2>6, <2>7 DEF Fits, IsThere
  <2>. QED
    BY <1>0, <2>3, <2>8 DEF IsOpen
<1>5. Sound(w) /\ m.desc # NoDesc
  BY <1>3, <1>4 DEF IsThere, IsOpen
<1>6. /\ out.w \in Views /\ Sound(out.w) /\ out.offs = Where(out.w)
      /\ out.eof = out.w.st.eof /\ out.follow = "fseek"
      /\ Len(out.w.file.data) >= Len(w.file.data)
      /\ out.w.st.reads = w.st.reads
      /\ c.op \notin StreamReads /\ Blank(w.st) /\ ~w.st.reads => Blank(out.w.st)
  BY <1>3, <1>5, StreamServed
<1>7. q.pc = "tell" /\ q.desc = m.desc /\ q.stream = out.w.st
  <2>1. BackFrom(r, out, p, m, q)
    BY <1>1, MasterAfter
  <2>2. ~Opening(out) /\ out.compare = TRUE
    BY <1>3, <1>6 DEF Opening
  <2>. QED
    BY <1>6, <2>1, <2>2 DEF BackFrom
<1>8. v = out.w
  BY <1>1, <1>2, <1>5, <1>7, MasterSees
<1>9. PICK a2 \in Nat : a2 = Where(out.w)
  BY <1>6, WhereType
<1>10. PICK e2 \in BOOLEAN : e2 = out.eof
  BY <1>6, ViewType
<1>11. shm'.offs = a2 /\ shm'.eof = e2 /\ shm'.follow = "fseek"
  BY <1>3, <1>6, <1>9, <1>10 DEF Left
<1>12. e2 => a2 >= Len(out.w.file.data)
  BY <1>6, <1>9, <1>10 DEF Sound
<1>13. Fits(prog, shm', q, v, TRUE, a2, e2)
  <2>1. IsOpen(q) = TRUE
    BY <1>5, <1>7 DEF IsOpen
  <2>2. e2 = v.st.eof
    BY <1>6, <1>8, <1>10
  <2>3. IsThere(q, v, TRUE, a2, e2)
    BY <1>6, <1>8, <1>9, <2>1, <2>2 DEF IsThere
  <2>4. ExitDue(shm', q, v, TRUE, a2, e2)
    BY <1>8, <1>11, <1>12, <2>1 DEF ExitDue
  <2>5. Compares(shm', q, v, TRUE, a2, e2)
    BY <1>7, <2>4 DEF Compares
  <2>6. Phase(prog, shm', q) = "rests"
    BY <1>7, PhaseIs
  <2>. QED
    BY <2>3, <2>5, <2>6 DEF Fits
<1>14. Shares(prog) => Plain(prog, q) /\ ~out.eof
  <2>1. SUFFICES ASSUME Shares(prog)
                 PROVE  Plain(prog, q) /\ ~out.eof
    OBVIOUS
  <2>2. Plain(prog, m)
    BY <1>1, <1>3, <2>1, CallerPlain
  <2>3. ~ByDescriptor(prog)
    BY <1>3 DEF ByDescriptor, StreamOps, StreamReads, StreamWrites, Locals
  <2>4. ByWriting(prog)
    BY <2>1, <2>3 DEF Shares
  <2>5. c.op \notin StreamReads
    BY <1>3, <2>4 DEF ByWriting, StreamReads, StreamWrites, Locals
  <2>6. Blank(w.st) /\ ~w.st.reads
    BY <1>3, <2>2, <2>3 DEF Plain
  <2>7. Blank(out.w.st) /\ ~out.w.st.reads
    BY <1>6, <2>5, <2>6
  <2>. QED
    BY <1>6, <1>7, <2>3, <2>7 DEF Plain, Blank
<1>15. ASSUME NEW i \in Replicas \ {Master}
       PROVE  Fits(prog, shm', rep'[i], Sees(file', pos', rep'[i]), TRUE, a2, e2)
  <2>1. PICK b, z : b = r[i] /\ z = rep'[i]
    OBVIOUS
  <2>2. PICK x, y : x = Sees(file, pos, b) /\ y = Sees(file', pos', z)
    OBVIOUS
  <2>3. /\ z.pc = "copy" /\ z.desc = b.desc /\ IsThere(b, x, o, a, e)
        /\ x \in Views /\ x.file = file /\ y \in Views /\ y.file = file'
        /\ y.st = z.stream /\ x.st = z.stream /\ z.stream = b.stream
    BY <1>15, <2>1, <2>2, SlaveAfter
  <2>4. Phase(prog, shm', z) = "follows"
    BY <1>11, <2>3 DEF Phase, Opening
  <2>5. IsOpen(z) /\ Sound(x) /\ z.desc # NoDesc
    BY <1>4, <2>3 DEF IsThere, IsOpen
  <2>6. ExitDue(shm', z, y, TRUE, a2, e2)
    BY <1>3, <1>11, <1>12, <2>3, <2>5 DEF ExitDue
  <2>7. Loose(y)
    <3>1. CASE Shares(prog)
      <4>1. Plain(prog, b)
        BY <1>15, <2>1, <3>1, CallerPlain
      <4>. QED
        BY <2>3, <4>1 DEF Plain, Blank, Loose
    <3>2. CASE ~Shares(prog)
      <4>1. b.desc # m.desc
        BY <1>1, <1>15, <2>1, <2>3, <2>5, <3>2, CallerPlain
      <4>2. y.pos = x.pos \/ (z.desc # NoDesc /\ z.desc = q.desc /\ y.pos = out.w.pos)
        BY <1>1, <1>15, <2>1, <2>2, SlaveSees
      <4>3. y.pos = x.pos
        BY <1>7, <2>3, <4>1, <4>2
      <4>4. /\ x.pos \in Nat /\ Len(x.file.data) \in Nat /\ Len(y.file.data) \in Nat
            /\ Len(y.file.data) >= Len(x.file.data)
        BY <1>3, <1>6, <2>3, ViewType
      <4>. QED
        BY <2>3, <2>5, <4>3, <4>4 DEF Sound, Loose
    <3>. QED
      BY <3>1, <3>2
  <2>8. WillFollow(shm', z, y, TRUE, a2, e2)
    BY <2>6, <2>7 DEF WillFollow
  <2>9. Fits(prog, shm', z, y, TRUE, a2, e2)
    BY <2>4, <2>8 DEF Fits
  <2>. QED
    BY <2>1, <2>2, <2>9
<1>16. SlavesFit(TRUE, a2, e2)
  BY <1>15 DEF SlavesFit
<1>17. Fits(prog, shm', q, Sees(file', pos', q), TRUE, a2, e2)
  BY <1>2, <1>13
<1>. QED
  BY <1>1, <1>14, <1>16, <1>17, CallKept

\* Calls on a descriptor.
LEMMA MasterDescriptorKept ==
  ASSUME NEW o, NEW a, NEW e, Underway(o, a, e), ByDescriptor(prog),
         NEW src, NEW r, NEW n, NEW c, NEW out, NEW size, NEW p,
         CallMade(src, r, n, c, out, size, p), c.op \in {"read", "write"}
  PROVE  Kept'
<1>0. o \in BOOLEAN /\ Shares(prog)
  BY DEF Underway, Shares
<1>1. PICK m, q : m = r[Master] /\ q = rep'[Master]
  OBVIOUS
<1>2. PICK w, v : w = Sees(file, pos, m) /\ v = Sees(file', pos', q)
  OBVIOUS
<1>3. /\ Master \in Replicas /\ w \in Views /\ w.file = file /\ w.st = m.stream
      /\ out = Served(w, c) /\ IsThere(m, w, o, a, e) /\ file.seeks /\ c \in Calls
      /\ shm' = Left(out) /\ out.compare = (out.follow = "fseek")
  BY <1>1, <1>2, CallStart
<1>4. /\ out.w \in Views /\ out.w.st = w.st /\ out.follow = "lseek"
      /\ out.offs = out.w.pos /\ out.eof = FALSE
  BY <1>3, FdServed
<1>5. q.pc = "call" /\ q.desc = m.desc /\ q.stream = m.stream
  <2>1. BackFrom(r, out, p, m, q)
    BY <1>1, MasterAfter
  <2>2. ~Opening(out) /\ out.compare = FALSE
    BY <1>3, <1>4 DEF Opening
  <2>. QED
    BY <1>3, <1>4, <2>1, <2>2 DEF BackFrom
<1>6. /\ v \in Views /\ v.st = q.stream
      /\ q.desc = NoDesc => v.pos = 0
      /\ q.desc # NoDesc => v.pos = out.w.pos
  BY <1>1, <1>2, MasterSees
<1>7. Plain(prog, m) /\ Blank(m.stream) /\ m.stream.offset = Unknown
  <2>1. Plain(prog, m)
    BY <1>0, <1>1, <1>3, CallerPlain
  <2>. QED
    BY <2>1 DEF Plain
<1>8. Plain(prog, q)
  BY <1>5, <1>7 DEF Plain
<1>9. PICK a2 \in Nat : a2 = v.pos
  BY <1>6, ViewType
<1>10. o = IsOpen(q) /\ (o => a2 = out.offs) /\ (~o => a2 = 0)
  BY <1>3, <1>4, <1>5, <1>6, <1>9 DEF IsThere, IsOpen
<1>11. Fits(prog, shm', q, v, o, a2, FALSE)
  <2>1. Sound(v) /\ Where(v) = v.pos /\ v.st.eof = FALSE
    BY <1>5, <1>6, <1>7, BlankSound
  <2>2. IsThere(q, v, o, a2, FALSE)
    BY <1>9, <1>10, <2>1 DEF IsThere
  <2>. QED
    BY <1>5, <2>2, GetsThere
<1>12. shm'.offs = out.offs /\ shm'.follow = "lseek"
  BY <1>3, <1>4 DEF Left
<1>13. ASSUME NEW i \in Replicas \ {Master}
       PROVE  Fits(prog, shm', rep'[i], Sees(file', pos', rep'[i]), o, a2, FALSE)
  <2>1. PICK b, z : b = r[i] /\ z = rep'[i]
    OBVIOUS
  <2>2. PICK x, y : x = Sees(file, pos, b) /\ y = Sees(file', pos', z)
    OBVIOUS
  <2>3. /\ z.pc = "copy" /\ z.desc = b.desc /\ IsThere(b, x, o, a, e)
        /\ y.st = z.stream /\ z.stream = b.stream
    BY <1>13, <2>1, <2>2, SlaveAfter
  <2>4. Phase(prog, shm', z) = "seeks"
    BY <1>12, <2>3 DEF Phase, Opening
  <2>5. Plain(prog, b)
    BY <1>0, <1>13, <2>1, CallerPlain
  <2>6. Blank(y.st) /\ y.st.offset = Unknown
    BY <2>3, <2>5 DEF Plain
  <2>7. o = IsOpen(z)
    BY <2>3 DEF IsThere, IsOpen
  <2>8. WillSeek(shm', z, y, o, a2, FALSE)
    BY <1>10, <1>12, <2>6, <2>7 DEF WillSeek
  <2>9. Fits(prog, shm', z, y, o, a2, FALSE)
    BY <2>4, <2>8 DEF Fits
  <2>. QED
    BY <2>1, <2>2, <2>9
<1>14. SlavesFit(o, a2, FALSE)
  BY <1>13 DEF SlavesFit
<1>15. Fits(prog, shm', q, Sees(file', pos', q), o, a2, FALSE)
  BY <1>2, <1>11
<1>. QED
  BY <1>0, <1>1, <1>4, <1>8, <1>14, <1>15, CallKept

\* Opening and removing a file says nothing of the end of it.
LEMMA NoEof ==
  ASSUME NEW w, NEW c, c.op \in OpenOps \cup {"unlink"}
  PROVE  Served(w, c).eof = FALSE
<1>1. CASE c.op = "unlink"
  <2>1. Served(w, c) = Unlink(w, c)
    BY <1>1, ServedOps
  <2>2. PICK v, x : Unlink(w, c) = ResultCall(v, x)
    BY Zenon DEF Unlink
  <2>. QED
    BY <2>1, <2>2 DEF ResultCall
<1>2. CASE c.op \in OpenOps
  <2>1. Served(w, c) = Open(w, c) \/ Served(w, c) = Fopen(w, c)
    BY <1>2, ServedOps DEF OpenOps
  <2>2. PICK v, x : Open(w, c) = OpenCall(v, x)
    BY Zenon DEF Open
  <2>3. PICK v2, x2 : Fopen(w, c) = OpenCall(v2, x2)
    BY Zenon DEF Fopen
  <2>. QED
    BY <2>1, <2>2, <2>3 DEF OpenCall, ResultCall
<1>. QED
  BY <1>1, <1>2

LEMMA MasterUnlinkKept ==
  ASSUME NEW o, NEW a, NEW e, Underway(o, a, e), ByDescriptor(prog),
         NEW src, NEW r, NEW n, NEW c, NEW out, NEW size, NEW p,
         CallMade(src, r, n, c, out, size, p), c.op = "unlink"
  PROVE  Kept'
<1>0. o \in BOOLEAN /\ a \in Nat /\ e \in BOOLEAN /\ Shares(prog)
  BY DEF Underway, Shares
<1>1. PICK m, q : m = r[Master] /\ q = rep'[Master]
  OBVIOUS
<1>2. PICK w, v : w = Sees(file, pos, m) /\ v = Sees(file', pos', q)
  OBVIOUS
<1>3. /\ Master \in Replicas /\ w \in Views /\ w.file = file /\ w.st = m.stream
      /\ out = Served(w, c) /\ IsThere(m, w, o, a, e) /\ c \in Calls
      /\ shm' = Left(out) /\ out.compare = (out.follow = "fseek")
  BY <1>1, <1>2, CallStart
<1>4. /\ out.w.st = w.st /\ out.w.pos = w.pos /\ out.follow = "none"
  BY <1>3, UnlinkType
<1>5. out.eof = FALSE
  BY <1>3, NoEof
<1>6. q.pc = "call" /\ q.desc = m.desc /\ q.stream = m.stream
  <2>1. BackFrom(r, out, p, m, q)
    BY <1>1, MasterAfter
  <2>2. ~Opening(out) /\ out.compare = FALSE
    BY <1>3, <1>4 DEF Opening
  <2>. QED
    BY <1>3, <1>4, <2>1, <2>2 DEF BackFrom
<1>7. ASSUME NEW i \in Replicas, NEW b, b = r[i]
      PROVE  Plain(prog, b) /\ Blank(b.stream) /\ b.stream.offset = Unknown
  <2>1. Plain(prog, b)
    BY <1>0, <1>7, CallerPlain
  <2>. QED
    BY <2>1 DEF Plain
<1>8. /\ v \in Views /\ v.st = q.stream
      /\ q.desc = NoDesc => v.pos = 0
      /\ q.desc # NoDesc => v.pos = out.w.pos
  BY <1>1, <1>2, MasterSees
<1>9. w.pos = a /\ e = FALSE /\ o = IsOpen(m)
  <2>1. Sound(w) /\ Where(w) = w.pos /\ w.st.eof = FALSE
    BY <1>1, <1>3, <1>7, BlankSound
  <2>. QED
    BY <1>3, <2>1 DEF IsThere
<1>10. v.pos = a
  <2>1. m.desc = NoDesc => w.pos = 0
    BY <1>2 DEF Sees
  <2>. QED
    BY <1>4, <1>6, <1>8, <1>9, <2>1
<1>11. Fits(prog, shm', q, v, o, a, e)
  <2>0. Blank(v.st) /\ v.st.offset = Unknown
    BY <1>1, <1>3, <1>6, <1>7, <1>8
  <2>1. Sound(v) /\ Where(v) = v.pos /\ v.st.eof = FALSE
    BY <1>8, <2>0, BlankSound
  <2>2. IsThere(q, v, o, a, e)
    BY <1>6, <1>9, <1>10, <2>1 DEF IsThere, IsOpen
  <2>. QED
    BY <1>6, <2>2, GetsThere
<1>12. Plain(prog, q)
  BY <1>1, <1>3, <1>6, <1>7 DEF Plain
<1>13. ASSUME NEW i \in Replicas \ {Master}
       PROVE  Fits(prog, shm', rep'[i], Sees(file', pos', rep'[i]), o, a, e)
  <2>1. PICK b, z : b = r[i] /\ z = rep'[i]
    OBVIOUS
  <2>2. PICK x, y : x = Sees(file, pos, b) /\ y = Sees(file', pos', z)
    OBVIOUS
  <2>3. /\ z.pc = "copy" /\ z.desc = b.desc /\ IsThere(b, x, o, a, e)
        /\ x \in Views /\ y \in Views
        /\ y.st = z.stream /\ x.st = z.stream /\ z.stream = b.stream
    BY <1>13, <2>1, <2>2, SlaveAfter
  <2>4. Phase(prog, shm', z) = "rests"
    <3>1. shm'.follow = "none"
      BY <1>3, <1>4 DEF Left
    <3>. QED
      BY <2>3, <3>1 DEF Phase, Opening
  <2>5. Blank(b.stream) /\ b.stream.offset = Unknown
    BY <1>7, <1>13, <2>1
  <2>6. Where(x) = x.pos
    BY <2>3, <2>5, BlankSound
  <2>7. Sound(y) /\ Where(y) = y.pos /\ y.st.eof = FALSE
    BY <2>3, <2>5, BlankSound
  <2>8. y.pos = a
    <3>1. y.pos = x.pos \/ y.pos = out.w.pos
      BY <1>1, <1>13, <2>1, <2>2, SlaveSees
    <3>2. x.pos = a
      BY <2>3, <2>6 DEF IsThere
    <3>. QED
      BY <1>4, <1>9, <3>1, <3>2
  <2>9. o = IsOpen(z)
    BY <2>3 DEF IsThere, IsOpen
  <2>10. IsThere(z, y, o, a, e)
    BY <1>9, <2>7, <2>8, <2>9 DEF IsThere
  <2>11. Fits(prog, shm', z, y, o, a, e)
    BY <2>3, <2>4, <2>10 DEF Fits, Compares
  <2>. QED
    BY <2>1, <2>2, <2>11
<1>14. SlavesFit(o, a, e)
  BY <1>13 DEF SlavesFit
<1>15. Fits(prog, shm', q, Sees(file', pos', q), o, a, e)
  BY <1>2, <1>11
<1>. QED
  BY <1>0, <1>1, <1>5, <1>12, <1>14, <1>15, CallKept

\* Opening the file.
LEMMA MasterOpenKept ==
  ASSUME NEW o, NEW a, NEW e, Underway(o, a, e),
         NEW src, NEW r, NEW n, NEW c, NEW out, NEW size, NEW p,
         CallMade(src, r, n, c, out, size, p), c.op \in OpenOps, CanOpen(file, c.flags)
  PROVE  Kept'
<1>1. PICK m, q : m = r[Master] /\ q = rep'[Master]
  OBVIOUS
<1>2. PICK w, v : w = Sees(file, pos, m) /\ v = Sees(file', pos', q)
  OBVIOUS
<1>3. /\ Master \in Replicas /\ w \in Views /\ w.file = file /\ w.st = m.stream
      /\ out = Served(w, c) /\ c \in Calls /\ file' = out.w.file
      /\ (\E k \in DOMAIN prog.calls : c = prog.calls[k])
      /\ shm' = Left(out) /\ out.compare = (out.follow = "fseek")
  BY <1>1, <1>2, CallStart
<1>4. PICK fresh : fresh = FreshStream(ForReading(c))
  OBVIOUS
<1>5. /\ out.follow = "open" /\ out.ret = 0 /\ out.w.file = Opened(file, c.flags)
      /\ out.w.pos = 0 /\ out.w.st = fresh /\ out.w.file.exists
  BY <1>3, <1>4, OpenType
<1>6. "trunc" \in c.flags => out.w.file.data = << >>
  <2>1. file \in Files
    BY <1>3, ViewType
  <2>. QED
    BY <1>5, <2>1, OpenedType
<1>7. /\ Blank(fresh) /\ fresh.offset = Unknown /\ fresh.reads = ForReading(c)
  BY <1>4, FreshIs DEF ForReading
<1>8. out.eof = FALSE
  BY <1>3, NoEof
<1>9. q.pc = "call" /\ q.desc # NoDesc /\ q.stream = fresh
  <2>1. BackFrom(r, out, p, m, q)
    BY <1>1, MasterAfter
  <2>2. Opening(out) /\ out.compare = FALSE
    BY <1>3, <1>5 DEF Opening
  <2>3. FreshDesc(r, Master) \in Descs /\ NoDesc \notin Descs
    BY <1>3, FreshDescIs DEF NoDesc, Descs, Replicas, Voters
  <2>. QED
    BY <1>5, <2>1, <2>2, <2>3 DEF BackFrom
<1>10. v \in Views /\ v.st = fresh /\ v.pos = 0
  BY <1>1, <1>2, <1>5, <1>9, MasterSees
<1>11. Fits(prog, shm', q, v, TRUE, 0, FALSE)
  <2>1. Sound(v) /\ Where(v) = 0 /\ v.st.eof = FALSE
    BY <1>7, <1>10, BlankSound
  <2>2. IsThere(q, v, TRUE, 0, FALSE)
    BY <1>9, <2>1 DEF IsThere, IsOpen
  <2>. QED
    BY <1>9, <2>2, GetsThere
<1>12. ASSUME Shares(prog)
       PROVE  Plain(prog, q)
  <2>1. ~ByDescriptor(prog) => ~ForReading(c)
    BY <1>3, <1>12 DEF Shares, ByWriting, ForReading
  <2>. QED
    BY <1>7, <1>9, <2>1 DEF Plain
<1>13. ASSUME NEW i \in Replicas \ {Master}
       PROVE  Fits(prog, shm', rep'[i], Sees(file', pos', rep'[i]), TRUE, 0, FALSE)
  <2>1. PICK b, z : b = r[i] /\ z = rep'[i]
    OBVIOUS
  <2>2. PICK x, y : x = Sees(file, pos, b) /\ y = Sees(file', pos', z)
    OBVIOUS
  <2>3. /\ z.pc = "copy" /\ NextCall(prog, z) = c /\ IsThere(b, x, o, a, e)
        /\ y.file = file' /\ y.st = z.stream /\ x.st = z.stream
    BY <1>13, <2>1, <2>2, SlaveAfter
  <2>4. Phase(prog, shm', z) = "opens"
    <3>1. Opening(shm')
      BY <1>3, <1>5 DEF Left, Opening
    <3>. QED
      BY <2>3, <3>1 DEF Phase
  <2>5. y.st.out = << >>
    BY <2>3 DEF IsThere, Sound
  <2>6. WillOpen(prog, z, y, TRUE, 0, FALSE)
    BY <1>3, <1>5, <1>6, <2>3, <2>5 DEF WillOpen
  <2>7. Fits(prog, shm', z, y, TRUE, 0, FALSE)
    BY <2>4, <2>6 DEF Fits
  <2>. QED
    BY <2>1, <2>2, <2>7
<1>14. SlavesFit(TRUE, 0, FALSE)
  BY <1>13 DEF SlavesFit
<1>15. Fits(prog, shm', q, Sees(file', pos', q), TRUE, 0, FALSE)
  BY <1>2, <1>11
<1>16. Shares(prog) => Plain(prog, q) /\ ~out.eof
  BY <1>8, <1>12
<1>. QED
  BY <1>1, <1>14, <1>15, <1>16, CallKept

\* Failing to.
LEMMA MasterCannotKept ==
  ASSUME NEW o, NEW a, NEW e, Underway(o, a, e),
         NEW src, NEW r, NEW n, NEW c, NEW out, NEW size, NEW p,
         CallMade(src, r, n, c, out, size, p), c.op \in OpenOps, ~CanOpen(file, c.flags)
  PROVE  Kept'
<1>0. o \in BOOLEAN /\ a \in Nat /\ e \in BOOLEAN
  BY DEF Underway
<1>1. PICK m, q : m = r[Master] /\ q = rep'[Master]
  OBVIOUS
<1>2. PICK w, v : w = Sees(file, pos, m) /\ v = Sees(file', pos', q)
  OBVIOUS
<1>3. /\ Master \in Replicas /\ w \in Views /\ w.file = file /\ w.st = m.stream
      /\ out = Served(w, c) /\ IsThere(m, w, o, a, e) /\ c \in Calls /\ file' = out.w.file
      /\ shm' = Left(out) /\ out.compare = (out.follow = "fseek")
  BY <1>1, <1>2, CallStart
<1>4. out.follow = "open" /\ out.ret = -1 /\ out.w = w
  BY <1>3, OpenType
<1>5. out.eof = FALSE
  BY <1>3, NoEof
<1>6. ~Opening(out)
  BY <1>4 DEF Opening
<1>7. q.pc = "call" /\ q.desc = m.desc /\ q.stream = m.stream
  <2>1. BackFrom(r, out, p, m, q)
    BY <1>1, MasterAfter
  <2>2. out.compare = FALSE
    BY <1>3, <1>4
  <2>. QED
    BY <1>4, <1>6, <2>1, <2>2 DEF BackFrom
<1>8. v = w
  <2>1. /\ v \in Views /\ v.file = out.w.file /\ v.st = q.stream
        /\ q.desc = NoDesc => v.pos = 0
        /\ q.desc # NoDesc => v.pos = out.w.pos
    BY <1>1, <1>2, MasterSees
  <2>2. m.desc = NoDesc => w.pos = 0
    BY <1>2 DEF Sees
  <2>3. v.pos = w.pos /\ v.file = w.file /\ v.st = w.st
    BY <1>3, <1>4, <1>7, <2>1, <2>2
  <2>. QED
    BY <1>3, <2>1, <2>3, ViewType
<1>9. Fits(prog, shm', q, v, o, a, e)
  <2>1. IsThere(q, v, o, a, e)
    BY <1>3, <1>7, <1>8 DEF IsThere, IsOpen
  <2>. QED
    BY <1>7, <2>1, GetsThere
<1>10. Shares(prog) => Plain(prog, q) /\ ~out.eof
  <2>1. Shares(prog) => Plain(prog, m)
    BY <1>1, <1>3, CallerPlain
  <2>. QED
    BY <1>5, <1>7, <2>1 DEF Plain
<1>11. ASSUME NEW i \in Replicas \ {Master}
       PROVE  Fits(prog, shm', rep'[i], Sees(file', pos', rep'[i]), o, a, e)
  <2>1. PICK b, z : b = r[i] /\ z = rep'[i]
    OBVIOUS
  <2>2. PICK x, y : x = Sees(file, pos, b) /\ y = Sees(file', pos', z)
    OBVIOUS
  <2>3. /\ z.pc = "copy" /\ z.desc = b.desc /\ IsThere(b, x, o, a, e)
        /\ x \in Views /\ x.file = file /\ y \in Views /\ y.file = file'
        /\ y.st = z.stream /\ x.st = z.stream
        /\ z.desc # NoDesc => x.pos = pos[z.desc]
    BY <1>11, <2>1, <2>2, SlaveAfter
  <2>4. Phase(prog, shm', z) = "rests"
    <3>1. ~Opening(shm') /\ shm'.follow = "open"
      BY <1>3, <1>4 DEF Left, Opening
    <3>. QED
      BY <2>3, <3>1 DEF Phase
  <2>5. y.pos = x.pos
    <3>1. y.pos = x.pos \/ (z.desc # NoDesc /\ z.desc = q.desc /\ y.pos = out.w.pos)
      BY <1>1, <1>11, <2>1, <2>2, SlaveSees
    <3>2. q.desc # NoDesc => w.pos = pos[q.desc]
      BY <1>2, <1>7 DEF Sees
    <3>. QED
      BY <1>4, <2>3, <3>1, <3>2
  <2>6. y = x
    <3>1. x \in Views /\ y \in Views /\ y.st = x.st /\ y.pos = x.pos /\ y.file = x.file
      BY <1>3, <1>4, <2>3, <2>5
    <3>. QED
      BY <3>1, ViewType
  <2>7. IsThere(z, y, o, a, e)
    BY <2>3, <2>6 DEF IsThere, IsOpen
  <2>8. Fits(prog, shm', z, y, o, a, e)
    BY <2>3, <2>4, <2>7 DEF Fits, Compares
  <2>. QED
    BY <2>1, <2>2, <2>8
<1>12. SlavesFit(o, a, e)
  BY <1>11 DEF SlavesFit
<1>13. Fits(prog, shm', q, Sees(file', pos', q), o, a, e)
  BY <1>2, <1>9
<1>. QED
  BY <1>0, <1>1, <1>10, <1>12, <1>13, CallKept

LEMMA MasterCallKept ==
  ASSUME NEW o, NEW a, NEW e, Underway(o, a, e), InStep(rep), Tame(prog), WellUsed,
         MasterCall
  PROVE  Kept'
<1>1. TypeInv
  BY DEF Underway
<1>2. PICK src, r, n, c, out, size, p : CallMade(src, r, n, c, out, size, p)
  BY <1>1, MasterCallIs
<1>3. PICK m, w : m = r[Master] /\ w = Sees(file, pos, m)
  OBVIOUS
<1>4. c \in Calls /\ c.op \notin Locals /\ \E k \in DOMAIN prog.calls : c = prog.calls[k]
  BY <1>2, <1>3, CallStart
<1>5. /\ c.op \in StreamOps \cup {"read", "write", "open", "fopen", "unlink"}
      /\ c.op \in {"read", "write", "unlink"} => ByDescriptor(prog)
  BY <1>4 DEF Tame, ByDescriptor, ByWriting, ByOwnStream, StreamOps, StreamReads, StreamWrites,
              Locals
<1>6. CASE c.op \in StreamOps
  BY <1>2, <1>6, MasterStreamKept
<1>7. CASE c.op \in {"read", "write"}
  BY <1>2, <1>5, <1>7, MasterDescriptorKept
<1>8. CASE c.op = "unlink"
  BY <1>2, <1>5, <1>8, MasterUnlinkKept
<1>9. CASE c.op \in OpenOps
  BY <1>2, <1>9, MasterOpenKept, MasterCannotKept
<1>. QED
  BY <1>5, <1>6, <1>7, <1>8, <1>9 DEF OpenOps

-----------------------------------------------------------------------------
(* The steps together, and what they keep.                                 *)

LEMMA KeptInit ==
  ASSUME \A pr \in Programs : Tame(pr)
  PROVE  Init => Kept
<1>1. SUFFICES ASSUME Init
               PROVE  Kept
  OBVIOUS
<1>2. TypeInv /\ prog \in Programs
  BY <1>1, TypeInit DEF Init
<1>3. Tame(prog) /\ prog.file.seeks /\ file = prog.file /\ shm = Nothing /\ deaths = 0
  BY <1>1, <1>2 DEF Tame, Init
<1>4. PICK o \in BOOLEAN : o = (prog.std # "none")
  OBVIOUS
<1>5. PICK reads \in BOOLEAN : reads = (prog.std = "in")
  OBVIOUS
<1>6. PICK st : st = FreshStream(reads)
  OBVIOUS
<1>7. st \in Streams /\ Blank(st) /\ st.offset = Unknown /\ st.reads = reads
  BY <1>6, FreshIs
<1>8. NoDesc \notin Descs /\ 0 \in Descs /\ NoDesc # 0
  BY DEF NoDesc, Descs, Replicas, Voters
<1>9. ASSUME NEW i \in Replicas
      PROVE  /\ rep[i].pc = "call" /\ rep[i].stream = st
             /\ rep[i].desc = IF prog.std = "none" THEN NoDesc ELSE 0
  BY <1>1, <1>5, <1>6 DEF Init
<1>10. ASSUME NEW i \in Replicas
       PROVE  Fits(prog, shm, rep[i], Sees(file, pos, rep[i]), o, 0, FALSE)
  <2>1. PICK p, w : p = rep[i] /\ w = Sees(file, pos, p)
    OBVIOUS
  <2>2. /\ p.pc = "call" /\ p.stream = st /\ p.desc \in Descs \cup {NoDesc} /\ o = IsOpen(p)
    BY <1>4, <1>8, <1>9, <2>1 DEF IsOpen
  <2>3. /\ w \in Views /\ w.st = st /\ w.pos = 0
    <3>1. file \in Files /\ pos \in [Descs -> Nat]
      BY <1>2 DEF TypeInv
    <3>2. \A d \in Descs : pos[d] = 0
      BY <1>1 DEF Init
    <3>3. /\ w \in Views /\ w.file = file /\ w.st = p.stream
          /\ p.desc = NoDesc => w.pos = 0
          /\ p.desc # NoDesc => p.desc \in Descs /\ w.pos = pos[p.desc]
      BY <1>7, <2>1, <2>2, <3>1, SeesIs
    <3>. QED
      BY <2>2, <3>2, <3>3
  <2>4. Sound(w) /\ Where(w) = 0 /\ w.st.eof = FALSE
    BY <1>7, <2>3, BlankSound
  <2>5. IsThere(p, w, o, 0, FALSE)
    BY <2>2, <2>4 DEF IsThere
  <2>6. Fits(prog, shm, p, w, o, 0, FALSE)
    BY <2>2, <2>5, GetsThere
  <2>. QED
    BY <2>1, <2>6
<1>11. Sharing(prog, shm, rep, deaths)
  <2>1. CASE Shares(prog)
    <3>1. ~ByDescriptor(prog) => ~reads
      BY <1>5, <2>1 DEF Shares, ByWriting
    <3>2. ASSUME NEW i \in Replicas
          PROVE  Plain(prog, rep[i])
      BY <1>7, <1>9, <3>1, <3>2 DEF Plain
    <3>3. ~shm.eof
      BY <1>3 DEF Nothing
    <3>. QED
      BY <2>1, <3>2, <3>3 DEF Sharing
  <2>2. CASE ~Shares(prog)
    <3>1. prog.std = "none"
      BY <1>3, <2>2 DEF Tame, Shares, ByOwnStream
    <3>2. OwnDescs(rep) /\ \A i \in Replicas : rep[i].pc # "dead"
      BY <1>9, <3>1 DEF OwnDescs
    <3>. QED
      BY <1>3, <2>2, <3>2 DEF Sharing
  <2>. QED
    BY <2>1, <2>2
<1>12. \A i \in Replicas : rep[i].pc # "failed"
  BY <1>9
<1>13. KeptAt(prog, shm, file, pos, rep, deaths, o, 0, FALSE)
  BY <1>3, <1>10, <1>11, <1>12 DEF KeptAt, AllFit
<1>. QED
  BY <1>13 DEF Kept

\* Whatever step a replica takes, it moves to where all are.
LEMMA StepMoves ==
  ASSUME FopenPlain, NEW o, NEW a, NEW e, Underway(o, a, e), Tame(prog),
         NEW i \in Replicas, StepsOf(i)
  PROVE  Moves(i, rep'[i], o, a, e)
<1>1. CASE OwnCall(i)
  BY <1>1, OwnCallMoves
<1>2. CASE TakeResult(i)
  BY <1>2, TakeResultMoves
<1>3. CASE TakeOffset(i)
  BY <1>3, TakeOffsetMoves
<1>4. CASE OpenToo(i)
  BY <1>4, OpenTooMoves
<1>5. CASE SeekStream(i)
  BY <1>5, SeekStreamMoves
<1>6. CASE FillStream(i)
  BY <1>6, FillStreamMoves
<1>7. CASE ProbeEof(i)
  BY <1>7, ProbeEofMoves
<1>8. CASE Tell(i)
  BY <1>8, TellMoves
<1>9. CASE Finish(i)
  BY <1>9, FinishMoves
<1>10. CASE Die(i)
  BY <1>10, DieMoves
<1>. QED
  BY <1>1, <1>2, <1>3, <1>4, <1>5, <1>6, <1>7, <1>8, <1>9, <1>10 DEF StepsOf

LEMMA KeptNext ==
  ASSUME FopenPlain, \A pr \in Programs : Tame(pr)
  PROVE  Inv /\ Kept /\ WellUsed /\ [Next]_vars => Kept'
<1>1. SUFFICES ASSUME Inv, Kept, WellUsed, [Next]_vars
               PROVE  Kept'
  OBVIOUS
<1>2. TypeInv /\ InStep(rep) /\ TypeInv' /\ prog \in Programs
  BY <1>1, InvNext DEF Inv, TypeInv
<1>3. Tame(prog)
  BY <1>2
<1>4. PICK o \in BOOLEAN, a \in Nat, e \in BOOLEAN :
        KeptAt(prog, shm, file, pos, rep, deaths, o, a, e)
  BY <1>1 DEF Kept
<1>5. Underway(o, a, e)
  BY <1>2, <1>4 DEF Underway
<1>6. CASE CheckOnly
  BY <1>2, <1>5, <1>6, CheckOnlyKept
<1>7. CASE MasterCall
  BY <1>1, <1>2, <1>3, <1>5, <1>7, MasterCallKept
<1>8. CASE CompareExits
  BY <1>2, <1>5, <1>8, CompareExitsKept
<1>9. CASE \E i \in Replicas : StepsOf(i)
  <2>1. PICK i \in Replicas : StepsOf(i)
    BY <1>9
  <2>2. Moves(i, rep'[i], o, a, e)
    BY <1>3, <1>5, <2>1, StepMoves
  <2>3. KeptAt(prog', shm', file', pos', rep', deaths', o, a, e)
    BY <1>5, <2>2, OneMoves
  <2>. QED
    BY <2>3 DEF Kept
<1>10. CASE UNCHANGED vars
  <2>1. /\ prog' = prog /\ file' = file /\ pos' = pos /\ rep' = rep /\ shm' = shm
        /\ deaths' = deaths
    BY <1>10 DEF vars
  <2>2. KeptAt(prog', shm', file', pos', rep', deaths', o, a, e)
    BY <1>4, <2>1
  <2>. QED
    BY <2>2 DEF Kept
<1>. QED
  BY <1>1, <1>6, <1>7, <1>8, <1>9, <1>10 DEF Next, StepsOf

LEMMA KeptMeans == Inv /\ Kept => StreamsAgree /\ NoFalseAlarm
<1>1. SUFFICES ASSUME Inv, Kept
               PROVE  StreamsAgree /\ NoFalseAlarm
  OBVIOUS
<1>2. TypeInv
  BY <1>1 DEF Inv
<1>3. PICK o \in BOOLEAN, a \in Nat, e \in BOOLEAN :
        KeptAt(prog, shm, file, pos, rep, deaths, o, a, e)
  BY <1>1 DEF Kept
<1>4. ASSUME NEW i \in Replicas, rep[i].pc = "call"
      PROVE  TruePosition(View(rep, i)) = a /\ rep[i].stream.eof = e
  <2>1. PICK p, w : p = rep[i] /\ w = Sees(file, pos, p)
    OBVIOUS
  <2>2. Fits(prog, shm, p, w, o, a, e)
    BY <1>3, <1>4, <2>1 DEF KeptAt, AllFit, Gone
  <2>3. Phase(prog, shm, p) = "rests"
    BY <1>4, <2>1, PhaseIs
  <2>4. Sound(w) /\ a = Where(w) /\ e = w.st.eof
    BY <2>2, <2>3 DEF Fits, IsThere
  <2>5. w \in Views /\ w.st = p.stream
    <3>1. /\ file \in Files /\ pos \in [Descs -> Nat] /\ p \in RepRecords
      BY <1>2, <1>4, <2>1 DEF TypeInv
    <3>. QED
      BY <2>1, <3>1, RepFields, SeesIs
  <2>6. Len(w.st.out) = 0 /\ a \in Nat
    BY <2>4, EmptySeq DEF Sound
  <2>7. TruePosition(w) = a
    <3>1. PICK x \in Nat : x = w.pos
      BY <2>5, ViewType
    <3>2. PICK u \in Nat : u = Unread(w.st)
      BY <2>5, ViewType
    <3>3. a = x - u
      BY <2>4, <3>1, <3>2 DEF Where
    <3>. QED
      BY <2>6, <3>1, <3>2, <3>3 DEF TruePosition
  <2>8. View(rep, i) = w
    BY <2>1, ViewSees
  <2>. QED
    BY <2>1, <2>4, <2>5, <2>7, <2>8
<1>5. StreamsAgree
  <2>1. ASSUME NEW i \in Alive, NEW j \in Alive, rep[i].pc = "call", rep[j].pc = "call"
        PROVE  /\ TruePosition(View(rep, i)) = TruePosition(View(rep, j))
               /\ rep[i].stream.eof = rep[j].stream.eof
    <3>1. i \in Replicas /\ j \in Replicas
      BY DEF Alive
    <3>. QED
      BY <1>4, <2>1, <3>1
  <2>. QED
    BY <2>1 DEF StreamsAgree
<1>6. ASSUME NEW i \in Replicas, NEW j \in Replicas, rep[i].pc = "exit", rep[j].pc = "exit"
      PROVE  rep[i].told = rep[j].told
  <2>1. ASSUME NEW k \in Replicas, rep[k].pc = "exit"
        PROVE  rep[k].told \in Tolds /\ rep[k].told.offs = a /\ rep[k].told.eof = e
    <3>1. PICK p, w : p = rep[k] /\ w = Sees(file, pos, p)
      OBVIOUS
    <3>2. Fits(prog, shm, p, w, o, a, e)
      BY <1>3, <2>1, <3>1 DEF KeptAt, AllFit, Gone
    <3>3. Phase(prog, shm, p) = "rests"
      BY <2>1, <3>1, PhaseIs
    <3>4. p.told.offs = a /\ p.told.eof = e
      BY <2>1, <3>1, <3>2, <3>3 DEF Fits, Compares
    <3>5. p \in RepRecords
      BY <1>2, <2>1, <3>1 DEF TypeInv
    <3>6. p.told \in Tolds
      BY <3>5 DEF RepRecords
    <3>. QED
      BY <3>1, <3>4, <3>6
  <2>2. PICK s, t : s = rep[i].told /\ t = rep[j].told
    OBVIOUS
  <2>3. s \in Tolds /\ t \in Tolds /\ s.offs = t.offs /\ s.eof = t.eof
    BY <1>6, <2>1, <2>2
  <2>4. s = t
    BY <2>3 DEF Tolds
  <2>. QED
    BY <2>2, <2>4
<1>7. \A i \in Replicas : rep[i].pc # "failed"
  BY <1>3 DEF KeptAt
<1>8. NoFalseAlarm
  BY <1>6, <1>7 DEF NoFalseAlarm
<1>. QED
  BY <1>5, <1>8

\* On a file that can seek, and for programs that use descriptors only, streams
\* only for writing, or a stream of their own that no replica inherits: whatever
\* the order in which master and slaves take their steps, replicas that are on
\* their way to the same call are at the same place in the file.
THEOREM ReplicasStayTogether ==
  ASSUME FopenPlain, \A pr \in Programs : Tame(pr)
  PROVE  Spec /\ []WellUsed => []StreamsAgree
<1>1. Init => Kept
  BY KeptInit
<1>2. Inv /\ Kept /\ WellUsed /\ [Next]_vars => Kept'
  BY KeptNext
<1>. QED
  BY <1>1, <1>2, InvAlways, KeptMeans, PTL DEF Spec

\* For the same programs the comparison of exit states after a call on a stream
\* never finds a difference, so it condemns nobody that no fault has hit.
THEOREM NobodyCondemned ==
  ASSUME FopenPlain, \A pr \in Programs : Tame(pr)
  PROVE  Spec /\ []WellUsed => []NoFalseAlarm
<1>1. Init => Kept
  BY KeptInit
<1>2. Inv /\ Kept /\ WellUsed /\ [Next]_vars => Kept'
  BY KeptNext
<1>. QED
  BY <1>1, <1>2, InvAlways, KeptMeans, PTL DEF Spec

\* Programs that use descriptors only use no stream, open or not.
LEMMA NoStreamUsed ==
  ASSUME \A pr \in Programs : ByDescriptor(pr)
  PROVE  Inv => WellUsed
<1>1. SUFFICES ASSUME Inv, NEW i \in Alive, HasCall(rep[i]), CallOf(rep[i]).op \in StreamOps
               PROVE  FALSE
  BY DEF WellUsed
<1>2. TypeInv /\ i \in Replicas
  BY <1>1 DEF Inv, Alive
<1>3. PICK p : p = rep[i]
  OBVIOUS
<1>4. PICK n \in Nat : n = Len(p.results)
  BY <1>2, <1>3, ReplicaFacts
<1>5. prog \in Programs /\ n < Len(prog.calls)
  BY <1>1, <1>2, <1>3, <1>4 DEF TypeInv, HasCall
<1>6. n + 1 \in DOMAIN prog.calls /\ CallOf(p) = prog.calls[n + 1]
  BY <1>4, <1>5, ProgramType DEF CallOf
<1>7. CallOf(p).op \in {"read", "write", "open", "unlink"} \cup Locals
  BY <1>5, <1>6 DEF ByDescriptor
<1>. QED
  BY <1>1, <1>3, <1>7 DEF StreamOps, StreamReads, StreamWrites, Locals

\* They need no assumption on how they use their files.
THEOREM DescriptorsStayTogether ==
  ASSUME FopenPlain, \A pr \in Programs : pr.file.seeks /\ ByDescriptor(pr)
  PROVE  Spec => []StreamsAgree
<1>1. \A pr \in Programs : Tame(pr)
  BY DEF Tame
<1>2. Spec /\ []WellUsed => []StreamsAgree
  BY <1>1, ReplicasStayTogether
<1>3. Inv => WellUsed
  BY NoStreamUsed
<1>. QED
  BY <1>2, <1>3, InvAlways, PTL
=============================================================================
