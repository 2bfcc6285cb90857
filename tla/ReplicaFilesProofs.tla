-------------------------- MODULE ReplicaFilesProofs --------------------------
(***************************************************************************)
(* What ReplicaFiles keeps, for every set of programs.                     *)
(***************************************************************************)
EXTENDS ReplicaFiles, SequenceTheorems, FiniteSetTheorems, LeastNatural, TLAPS

-----------------------------------------------------------------------------
(* Numbers.                                                                *)

\* Least picks the least number of a set that has any.
LEMMA LeastIsLeast ==
  ASSUME NEW S \in SUBSET Nat, S # {}
  PROVE  Least(S) \in S /\ \A y \in S : Least(S) <= y
BY LeastElement DEF Least

LEMMA DivBounds ==
  ASSUME NEW n \in Nat, NEW d \in Nat \ {0}, NEW q, q = n \div d
  PROVE  q \in Nat /\ q * d \in Nat /\ q <= q * d /\ q * d <= n
<1>1. q \in Nat
  OBVIOUS
<1>2. n = d * q + (n % d) /\ n % d \in 0 .. d - 1
  OBVIOUS
<1>3. q * d = d * q /\ q * d \in Nat
  BY <1>1
<1>4. q * d <= n
  BY <1>2, <1>3
<1>5. q <= q * d
  <2>1. PICK e \in Nat : d = e + 1
    <3>1. d - 1 \in Nat /\ d = (d - 1) + 1
      OBVIOUS
    <3>. QED
      BY <3>1
  <2>2. q * (e + 1) = q * e + q /\ q * e \in Nat
    BY <1>1
  <2>. QED
    BY <1>1, <2>1, <2>2
<1>. QED
  BY <1>1, <1>3, <1>4, <1>5

\* A block starts no more than a buffer's size before what it is the block of.
LEMMA BlockStartBounds ==
  ASSUME NEW offs \in Nat
  PROVE  /\ BlockStart(offs) \in Nat /\ BlockStart(offs) <= offs
         /\ offs - BlockStart(offs) \in Nat
<1>1. BufSize \in Nat /\ BufSize > 0
  BY BufSizeAssumption
<1>2. offs % BufSize \in 0 .. BufSize - 1
  BY <1>1
<1>3. offs = BufSize * (offs \div BufSize) + (offs % BufSize) /\ offs \div BufSize \in Nat
  BY <1>1
<1>4. BufSize * (offs \div BufSize) >= 0
  BY <1>1, <1>3
<1>5. offs % BufSize \in Nat /\ offs % BufSize <= offs
  <2> DEFINE m == offs % BufSize
             q == BufSize * (offs \div BufSize)
  <2>1. m \in Nat /\ q \in Int
    BY <1>1, <1>2, <1>3
  <2>2. offs = q + m /\ q >= 0
    BY <1>3, <1>4
  <2> HIDE DEF m, q
  <2>3. m <= offs
    BY <2>1, <2>2
  <2>. QED
    BY <2>1, <2>3 DEF m
<1>6. BlockStart(offs) = offs - (offs % BufSize)
  BY DEF BlockStart
<1> HIDE DEF BlockStart
<1>. QED
  BY <1>5, <1>6

-----------------------------------------------------------------------------
(* Files and streams.                                                      *)

StreamRecords == [buf : Seq(Nat), ptr : Nat, offset : Int, out : Seq(Nat),
                  eof : BOOLEAN, reads : BOOLEAN]
Streams == {st \in StreamRecords : st.ptr <= Len(st.buf) /\ st.offset >= -1}

Views == [file : Files, pos : Nat, st : Streams]

\* What is pending on the stream can be written: stepping back over what was read
\* ahead does not lead to before the start of the file.
Flushable(w) == Len(w.st.out) # 0 /\ Unread(w.st) <= w.pos

LEMMA FreshType == \A reads \in BOOLEAN : FreshStream(reads) \in Streams
BY EmptySeq DEF FreshStream, Streams, StreamRecords, Unknown

LEMMA OverwriteType ==
  ASSUME NEW d \in Seq(Nat), NEW p \in Nat, NEW s \in Seq(Nat)
  PROVE  /\ Overwrite(d, p, s) \in Seq(Nat)
         /\ s = << >> => Overwrite(d, p, s) = d
         /\ s # << >> => Len(Overwrite(d, p, s)) =
                            IF p + Len(s) > Len(d) THEN p + Len(s) ELSE Len(d)
<1> DEFINE n == IF p + Len(s) > Len(d) THEN p + Len(s) ELSE Len(d)
           e(k) == IF k > p /\ k <= p + Len(s) THEN s[k - p]
                   ELSE IF k <= Len(d) THEN d[k] ELSE 0
<1>1. Len(d) \in Nat /\ Len(s) \in Nat
  BY LenProperties
<1>2. n \in Nat
  BY <1>1
<1>3. ASSUME NEW k \in 1 .. n
      PROVE  e(k) \in Nat
  BY <1>1, <1>2, ElementOfSeq, SMTT(30)
<1> HIDE DEF n, e
<1>4. [k \in 1 .. n |-> e(k)] \in [1 .. n -> Nat]
  BY <1>3
<1>5. [k \in 1 .. n |-> e(k)] \in Seq(Nat) /\ Len([k \in 1 .. n |-> e(k)]) = n
  BY <1>2, <1>4
<1>6. CASE s = << >>
  BY <1>6 DEF Overwrite
<1>7. CASE s # << >>
  BY <1>5, <1>7 DEF Overwrite, n, e
<1>. QED
  BY <1>6, <1>7

LEMMA BytesAtType ==
  ASSUME NEW d \in Seq(Nat), NEW p \in Nat, NEW n \in Nat
  PROVE  /\ BytesAt(d, p, n) \in Seq(Nat)
         /\ Len(BytesAt(d, p, n)) =
              IF p >= Len(d) THEN 0 ELSE IF p + n < Len(d) THEN n ELSE Len(d) - p
         /\ \A k \in 1 .. Len(BytesAt(d, p, n)) : BytesAt(d, p, n)[k] = d[p + k]
<1>1. Len(d) \in Nat
  BY LenProperties
<1> DEFINE m == IF p + n < Len(d) THEN p + n ELSE Len(d)
<1>2. m \in Nat /\ m <= Len(d)
  BY <1>1
<1>3. \A i \in p + 1 .. m : d[i] \in Nat
  BY <1>1, <1>2, ElementOfSeq
<1>4. /\ SubSeq(d, p + 1, m) \in Seq(Nat)
      /\ Len(SubSeq(d, p + 1, m)) = IF p + 1 <= m THEN m - (p + 1) + 1 ELSE 0
      /\ \A k \in 1 .. m - (p + 1) + 1 : SubSeq(d, p + 1, m)[k] = d[p + 1 + k - 1]
  BY <1>2, <1>3
<1>5. BytesAt(d, p, n) = SubSeq(d, p + 1, m)
  BY DEF BytesAt
<1>6. m = IF p + n < Len(d) THEN p + n ELSE Len(d)
  OBVIOUS
<1> HIDE DEF m
<1>7. Len(SubSeq(d, p + 1, m)) =
        IF p >= Len(d) THEN 0 ELSE IF p + n < Len(d) THEN n ELSE Len(d) - p
  BY <1>1, <1>2, <1>4, <1>6
<1>8. \A k \in 1 .. Len(SubSeq(d, p + 1, m)) : SubSeq(d, p + 1, m)[k] = d[p + k]
  BY <1>1, <1>2, <1>4, SMTT(30)
<1>. QED
  BY <1>4, <1>5, <1>7, <1>8

LEMMA ViewType ==
  ASSUME NEW w \in Views
  PROVE  /\ w.file \in Files /\ w.pos \in Nat /\ w.st \in Streams /\ w.st \in StreamRecords
         /\ w.file.data \in Seq(Nat) /\ Len(w.file.data) \in Nat
         /\ w.st.buf \in Seq(Nat) /\ Len(w.st.buf) \in Nat
         /\ w.st.out \in Seq(Nat) /\ Len(w.st.out) \in Nat
         /\ w.st.ptr \in Nat /\ w.st.ptr <= Len(w.st.buf)
         /\ w.st.offset \in Int /\ w.st.offset >= -1
         /\ w.st.eof \in BOOLEAN /\ w.st.reads \in BOOLEAN /\ w.file.seeks \in BOOLEAN
         /\ Unread(w.st) \in Nat /\ Unread(w.st) = Len(w.st.buf) - w.st.ptr
         /\ w = [file |-> w.file, pos |-> w.pos, st |-> w.st]
BY LenProperties DEF Views, Files, Streams, StreamRecords, Unread

LEMMA StreamEta ==
  ASSUME NEW st \in StreamRecords
  PROVE  st = [buf |-> st.buf, ptr |-> st.ptr, offset |-> st.offset, out |-> st.out,
               eof |-> st.eof, reads |-> st.reads]
BY DEF StreamRecords

LEMMA AdvancedType ==
  ASSUME NEW offset \in Int, offset >= -1, NEW n \in Nat
  PROVE  Advanced(offset, n) \in Int /\ Advanced(offset, n) >= -1
BY DEF Advanced, Unknown

LEMMA ViewFromParts ==
  ASSUME NEW f \in Files, NEW p \in Nat, NEW st \in Streams
  PROVE  [file |-> f, pos |-> p, st |-> st] \in Views
BY DEF Views

LEMMA MovedView ==
  ASSUME NEW w \in Views, NEW p \in Nat, NEW st \in Streams
  PROVE  /\ [w EXCEPT !.pos = p, !.st = st] \in Views
         /\ [w EXCEPT !.pos = p, !.st = st].file = w.file
         /\ [w EXCEPT !.pos = p, !.st = st].pos = p
         /\ [w EXCEPT !.pos = p, !.st = st].st = st
         /\ [w EXCEPT !.st = st] \in Views
         /\ [w EXCEPT !.st = st].file = w.file
         /\ [w EXCEPT !.st = st].pos = w.pos
         /\ [w EXCEPT !.st = st].st = st
         /\ [w EXCEPT !.pos = p] \in Views
         /\ [w EXCEPT !.pos = p].file = w.file
         /\ [w EXCEPT !.pos = p].pos = p
         /\ [w EXCEPT !.pos = p].st = w.st
BY DEF Views

LEMMA WithDataType ==
  ASSUME NEW f \in Files, NEW d \in Seq(Nat)
  PROVE  /\ [f EXCEPT !.data = d] \in Files
         /\ [f EXCEPT !.data = d].data = d
         /\ [f EXCEPT !.data = d].seeks = f.seeks
         /\ [f EXCEPT !.data = d].exists = f.exists
BY DEF Files

LEMMA FflushCases ==
  ASSUME NEW w \in Views, NEW v, v = Fflush(w)
  PROVE  /\ v \in Views
         /\ v.file.seeks = w.file.seeks /\ v.file.exists = w.file.exists
         /\ v.st.reads = w.st.reads /\ v.st.eof = w.st.eof
         /\ ~Flushable(w) => v = w
         /\ Flushable(w) =>
              /\ v.pos = w.pos - Unread(w.st) + Len(w.st.out)
              /\ v.file.data = Overwrite(w.file.data, w.pos - Unread(w.st), w.st.out)
              /\ v.st.out = << >> /\ v.st.buf = << >> /\ v.st.ptr = 0
              /\ v.st.offset = IF Unread(w.st) # 0
                                 THEN w.pos - Unread(w.st) + Len(w.st.out)
                               ELSE Advanced(w.st.offset, Len(w.st.out))
<1>0. /\ w.file \in Files /\ w.pos \in Nat /\ w.st \in Streams /\ w.st \in StreamRecords
      /\ w.st.out \in Seq(Nat) /\ Len(w.st.out) \in Nat /\ w.file.data \in Seq(Nat)
      /\ w.st.offset \in Int /\ w.st.offset >= -1 /\ w.st.eof \in BOOLEAN
      /\ Unread(w.st) \in Nat
  BY ViewType
<1>1. CASE ~Flushable(w)
  BY <1>0, <1>1 DEF Fflush, Flushable
<1>2. CASE Flushable(w)
  <2> DEFINE p == w.pos - Unread(w.st)
             n == Len(w.st.out)
             off == IF Unread(w.st) # 0 THEN p + n ELSE Advanced(w.st.offset, n)
             d == Overwrite(w.file.data, p, w.st.out)
             f == [w.file EXCEPT !.data = d]
             st == [buf |-> << >>, ptr |-> 0, offset |-> off, out |-> << >>,
                    eof |-> w.st.eof, reads |-> w.st.reads]
  <2>1. ~(n = 0 \/ p < 0)
    BY <1>0, <1>2 DEF Flushable
  <2>2. p \in Nat /\ n \in Nat
    BY <1>0, <2>1
  <2>3. off \in Int /\ off >= -1
    <3>1. Advanced(w.st.offset, n) \in Int /\ Advanced(w.st.offset, n) >= -1
      BY <1>0, <2>2, AdvancedType
    <3>2. p + n \in Int /\ p + n >= -1
      BY <2>2
    <3>. QED
      BY <3>1, <3>2
  <2>4. d \in Seq(Nat)
    BY <1>0, <2>2, OverwriteType
  <2>5. v = [file |-> f, pos |-> p + n,
             st |-> [w.st EXCEPT !.buf = << >>, !.ptr = 0, !.out = << >>,
                                 !.offset = off]]
    BY <2>1 DEF Fflush
  <2> HIDE DEF d, p, off, n
  <2>6. [w.st EXCEPT !.buf = << >>, !.ptr = 0, !.out = << >>, !.offset = off] = st
    <3> DEFINE x == [w.st EXCEPT !.buf = << >>, !.ptr = 0, !.out = << >>, !.offset = off]
    <3>1. x \in StreamRecords
      BY <1>0, <2>3, EmptySeq DEF StreamRecords
    <3>2. /\ x.buf = << >> /\ x.ptr = 0 /\ x.out = << >> /\ x.offset = off
          /\ x.eof = w.st.eof /\ x.reads = w.st.reads
      BY <1>0 DEF StreamRecords
    <3> HIDE DEF x
    <3>3. x = st
      BY <3>1, <3>2, StreamEta
    <3>. QED
      BY <3>3 DEF x
  <2>7. /\ f \in Files /\ p + n \in Nat /\ f.seeks = w.file.seeks
        /\ f.exists = w.file.exists
    BY <1>0, <2>2, <2>4, WithDataType
  <2>8. st \in Streams
    BY <1>0, <2>3, EmptySeq DEF Streams, StreamRecords
  <2>9. /\ st.out = << >> /\ st.reads = w.st.reads /\ st.eof = w.st.eof
        /\ st.buf = << >> /\ st.ptr = 0 /\ st.offset = off
    OBVIOUS
  <2>12. f.data = d
    BY <1>0, <2>4, WithDataType
  <2> HIDE DEF st, f
  <2>10. v = [file |-> f, pos |-> p + n, st |-> st]
    BY <2>5, <2>6
  <2>11. v \in Views
    BY <2>7, <2>8, <2>10, ViewFromParts
  <2>. QED
    BY <1>2, <2>7, <2>9, <2>10, <2>11, <2>12 DEF d, p, off, n
<1>. QED
  BY <1>0, <1>1, <1>2

LEMMA PutType ==
  ASSUME NEW w \in Views, NEW s \in Seq(Nat)
  PROVE  /\ Put(w, s) \in Views
         /\ Unread(Put(w, s).st) = Unread(w.st) /\ Put(w, s).pos = w.pos
         /\ Put(w, s).file = w.file /\ Put(w, s).st.out = w.st.out \o s
         /\ Put(w, s).st.buf = w.st.buf /\ Put(w, s).st.ptr = w.st.ptr
         /\ Put(w, s).st.offset = w.st.offset /\ Put(w, s).st.eof = w.st.eof
         /\ Put(w, s).st.reads = w.st.reads
<1> DEFINE o == w.st.out \o s
           st == [buf |-> w.st.buf, ptr |-> w.st.ptr, offset |-> w.st.offset,
                  out |-> o, eof |-> w.st.eof, reads |-> w.st.reads]
<1>0. /\ w = [file |-> w.file, pos |-> w.pos, st |-> w.st]
      /\ w.file \in Files /\ w.pos \in Nat /\ w.st \in Streams /\ w.st \in StreamRecords
      /\ w.st.buf \in Seq(Nat) /\ w.st.ptr \in Nat /\ w.st.ptr <= Len(w.st.buf)
      /\ w.st.offset \in Int /\ w.st.offset >= -1 /\ w.st.eof \in BOOLEAN
      /\ w.st.out \in Seq(Nat)
  BY ViewType
<1>1. o \in Seq(Nat)
  BY <1>0, ConcatProperties
<1>2. Put(w, s) = [w EXCEPT !.st = [w.st EXCEPT !.out = o]]
  BY <1>0 DEF Put
<1> HIDE DEF o
<1>3. [w.st EXCEPT !.out = o] = st
  <2> DEFINE x == [w.st EXCEPT !.out = o]
  <2>1. x \in StreamRecords
    BY <1>0, <1>1 DEF StreamRecords
  <2>2. /\ x.buf = w.st.buf /\ x.ptr = w.st.ptr /\ x.offset = w.st.offset /\ x.out = o
        /\ x.eof = w.st.eof /\ x.reads = w.st.reads
    BY <1>0 DEF StreamRecords
  <2> HIDE DEF x
  <2>3. x = st
    BY <2>1, <2>2, StreamEta
  <2>. QED
    BY <2>3 DEF x
<1>4. Put(w, s) = [file |-> w.file, pos |-> w.pos, st |-> st]
  BY <1>0, <1>2, <1>3
<1>5. st \in Streams
  BY <1>0, <1>1 DEF Streams, StreamRecords
<1>6. Unread(st) = Unread(w.st)
  BY DEF Unread
<1>7. /\ st.out = o /\ st.buf = w.st.buf /\ st.ptr = w.st.ptr
      /\ st.offset = w.st.offset /\ st.eof = w.st.eof /\ st.reads = w.st.reads
  OBVIOUS
<1> HIDE DEF st
<1>8. Put(w, s) \in Views
  BY <1>0, <1>4, <1>5, ViewFromParts
<1>. QED
  BY <1>4, <1>6, <1>7, <1>8 DEF o

\* What a read of the stream's file would get.
Ahead(w) == BytesAt(w.file.data, w.pos, BufSize)

\* The four things that fgetc may come to.
LEMMA GetcCases ==
  ASSUME NEW w \in Views, NEW g, g = Getc(w)
  PROVE  /\ g.w \in Views /\ g.c \in Nat \cup {EOF}
         /\ g.w.file = w.file /\ g.w.st.out = w.st.out /\ g.w.st.reads = w.st.reads
         /\ IF w.st.ptr < Len(w.st.buf)
              THEN /\ g.w.pos = w.pos /\ g.w.st.buf = w.st.buf
                   /\ g.w.st.ptr = w.st.ptr + 1 /\ g.w.st.offset = w.st.offset
                   /\ g.w.st.eof = w.st.eof /\ g.c = w.st.buf[w.st.ptr + 1]
            ELSE IF w.st.eof THEN g.w = w /\ g.c = EOF
            ELSE IF Ahead(w) = << >>
              THEN /\ g.w.pos = w.pos /\ g.w.st.buf = << >> /\ g.w.st.ptr = 0
                   /\ g.w.st.offset = Unknown /\ g.w.st.eof = TRUE /\ g.c = EOF
            ELSE /\ g.w.pos = w.pos + Len(Ahead(w)) /\ g.w.st.buf = Ahead(w)
                 /\ g.w.st.ptr = 1 /\ g.w.st.offset = Advanced(w.st.offset, Len(Ahead(w)))
                 /\ g.w.st.eof = FALSE /\ g.c = Ahead(w)[1]
<1>a. PICK ahead : ahead = Ahead(w)
  OBVIOUS
<1>b. ahead = BytesAt(w.file.data, w.pos, BufSize)
  BY <1>a DEF Ahead
<1> DEFINE off == Advanced(w.st.offset, Len(ahead))
<1>0. /\ w.st \in StreamRecords /\ w.st \in Streams /\ w.pos \in Nat /\ w.file \in Files
      /\ w.st.buf \in Seq(Nat) /\ w.st.ptr \in Nat /\ w.st.ptr <= Len(w.st.buf)
      /\ Len(w.st.buf) \in Nat /\ w.st.eof \in BOOLEAN
      /\ w.st.offset \in Int /\ w.st.offset >= -1
  BY ViewType
<1>1. ahead \in Seq(Nat) /\ Len(ahead) \in Nat /\ (ahead # << >> => Len(ahead) >= 1)
  <2>1. ahead \in Seq(Nat)
    BY <1>b, BytesAtType, BufSizeAssumption, ViewType
  <2>. QED
    BY <2>1, EmptySeq, LenProperties
<1>2. off \in Int /\ off >= -1
  BY <1>0, <1>1, AdvancedType
<1> HIDE DEF off
<1>3. CASE w.st.ptr < Len(w.st.buf)
  <2>1. PICK st : st = [w.st EXCEPT !.ptr = w.st.ptr + 1]
    OBVIOUS
  <2>2. PICK v : v = [w EXCEPT !.st = st]
    OBVIOUS
  <2>3. g = [w |-> v, c |-> w.st.buf[w.st.ptr + 1]]
    <3>1. [w EXCEPT !.st.ptr = w.st.ptr + 1] = v
      BY <2>1, <2>2
    <3>. QED
      BY <1>3, <3>1 DEF Getc
  <2>4. /\ st \in Streams /\ st.ptr = w.st.ptr + 1 /\ st.buf = w.st.buf
        /\ st.offset = w.st.offset /\ st.eof = w.st.eof /\ st.out = w.st.out
        /\ st.reads = w.st.reads
    <3>1. w.st \in StreamRecords /\ w.st.ptr + 1 \in Nat
      BY <1>0
    <3>2. st \in StreamRecords
      BY <2>1, <3>1 DEF StreamRecords
    <3>3. /\ st.ptr = w.st.ptr + 1 /\ st.buf = w.st.buf
          /\ st.offset = w.st.offset /\ st.eof = w.st.eof /\ st.out = w.st.out
          /\ st.reads = w.st.reads
      BY <2>1, <3>1 DEF StreamRecords
    <3>. QED
      BY <1>0, <1>3, <3>2, <3>3, SMTT(30) DEF Streams
  <2>6. /\ v \in Views /\ v.st = st /\ v.file = w.file /\ v.pos = w.pos
    BY <2>2, <2>4, MovedView, ZenonT(30)
  <2>5. w.st.buf[w.st.ptr + 1] \in Nat
    <3>1. w.st.ptr + 1 \in 1 .. Len(w.st.buf)
      BY <1>0, <1>3, SMTT(30)
    <3>. QED
      BY <1>0, <3>1, ElementOfSeq
  <2>7. g.w = v /\ g.c = w.st.buf[w.st.ptr + 1]
    BY <2>3
  <2>. QED
    BY <1>3, <2>4, <2>5, <2>6, <2>7
<1>4. CASE ~(w.st.ptr < Len(w.st.buf)) /\ w.st.eof
  <2>1. g = [w |-> w, c |-> EOF]
    BY <1>4 DEF Getc
  <2>. QED
    BY <1>4, <2>1 DEF EOF
<1>5. CASE ~(w.st.ptr < Len(w.st.buf)) /\ ~w.st.eof /\ ahead = << >>
  <2>1. PICK st : st = WithBuffer(w.st, << >>, 0, Unknown, TRUE)
    OBVIOUS
  <2> DEFINE v == [w EXCEPT !.st = st]
  <2>2. g = [w |-> v, c |-> EOF]
    BY <1>5, <1>b, <2>1 DEF Getc
  <2>3. /\ st \in Streams /\ st.ptr = 0 /\ st.buf = << >> /\ st.offset = Unknown
        /\ st.eof = TRUE /\ st.out = w.st.out /\ st.reads = w.st.reads
    <3>1. w.st \in Streams
      BY <1>0
    <3>. QED
      BY <2>1, <3>1, EmptySeq DEF WithBuffer, Streams, StreamRecords, Unknown
  <2>4. v \in Views /\ v.st = st /\ v.file = w.file /\ v.pos = w.pos
    BY <2>3, MovedView, ZenonT(30)
  <2> HIDE DEF v
  <2>5. /\ g.w \in Views /\ g.c = EOF /\ g.w.file = w.file /\ g.w.pos = w.pos
        /\ g.w.st = st
    BY <2>2, <2>4
  <2>. QED
    BY <1>5, <1>a, <2>3, <2>5 DEF EOF
<1>6. CASE ~(w.st.ptr < Len(w.st.buf)) /\ ~w.st.eof /\ ahead # << >>
  <2>1. PICK st : st = WithBuffer(w.st, ahead, 1, off, FALSE)
    OBVIOUS
  <2>2. PICK p \in Nat : p = w.pos + Len(ahead)
    BY <1>0, <1>1
  <2> DEFINE v == [w EXCEPT !.pos = p, !.st = st]
  <2>4. g = [w |-> v, c |-> ahead[1]]
    BY <1>6, <1>b, <2>1, <2>2 DEF Getc, off
  <2>3. /\ st \in Streams /\ st.ptr = 1 /\ st.buf = ahead /\ st.offset = off
        /\ st.eof = FALSE /\ st.out = w.st.out /\ st.reads = w.st.reads
    <3>1. w.st \in Streams /\ 1 <= Len(ahead) /\ ahead \in Seq(Nat)
      BY <1>0, <1>1, <1>6
    <3>. QED
      BY <1>2, <2>1, <3>1 DEF WithBuffer, Streams, StreamRecords
  <2>5. /\ v \in Views /\ v.st = st /\ v.file = w.file /\ v.pos = p
    <3>1. st \in Streams
      BY <2>3
    <3>. QED
      BY <3>1 DEF Views
  <2>6. ahead[1] \in Nat
    BY <1>1, <1>6, ElementOfSeq
  <2> HIDE DEF v
  <2>7. g.w = v /\ g.c = ahead[1]
    BY <2>4
  <2>. QED
    BY <1>6, <1>a, <2>2, <2>3, <2>5, <2>6, <2>7 DEF off
<1>. QED
  BY <1>3, <1>4, <1>5, <1>6

\* fgetc leaves the file and what is pending on the stream as they are.
LEMMA GetcType ==
  ASSUME NEW w \in Views, NEW g, g = Getc(w)
  PROVE  /\ g.w \in Views /\ g.c \in Nat \cup {EOF}
         /\ g.w.file = w.file /\ g.w.st.out = w.st.out /\ g.w.st.reads = w.st.reads
BY GetcCases

-----------------------------------------------------------------------------
(* Taking bytes off a stream, one after the other.                         *)

\* The states that taking goes through, as many as there are bytes asked for.
TakenFrom(start, stop, n, g) ==
  g = [k \in 0 .. n |-> IF k = 0 THEN start ELSE TakeMore(g[k - 1], stop)]

LEMMA TakenSteps ==
  ASSUME NEW start, NEW stop, NEW n \in Nat
  PROVE  \E g : TakenFrom(start, stop, n, g)
<1> DEFINE Is(g, m) == TakenFrom(start, stop, m, g)
           Bad == {m \in Nat : ~ \E g : Is(g, m)}
<1>1. SUFFICES ASSUME Bad # {}
               PROVE  FALSE
  OBVIOUS
<1>2. PICK m \in Bad : \A k \in Bad : m <= k
  BY <1>1, LeastElement
<1>3. m \in Nat /\ ~ \E g : Is(g, m)
  OBVIOUS
<1>4. CASE m = 0
  <2> DEFINE g == [k \in 0 .. 0 |-> start]
  <2>1. Is(g, 0)
    BY DEF TakenFrom
  <2>. QED
    BY <1>3, <1>4, <2>1
<1>5. CASE m # 0
  <2>1. m - 1 \in Nat /\ m - 1 \notin Bad
    BY <1>2, <1>3, <1>5
  <2>2. PICK f : Is(f, m - 1)
    BY <2>1
  <2> DEFINE g == [k \in 0 .. m |-> IF k = m THEN TakeMore(f[m - 1], stop) ELSE f[k]]
  <2>3. \A k \in 0 .. m - 1 : g[k] = f[k]
    BY <1>3
  <2>4. \A k \in 0 .. m : g[k] = IF k = 0 THEN start ELSE TakeMore(g[k - 1], stop)
    <3>1. TAKE k \in 0 .. m
    <3>2. CASE k = 0
      BY <1>3, <1>5, <2>2, <2>3, <3>2 DEF TakenFrom
    <3>3. CASE k = m
      BY <1>3, <1>5, <2>3, <3>3
    <3>4. CASE k # 0 /\ k # m
      <4>1. k \in 0 .. m - 1 /\ k - 1 \in 0 .. m - 1
        BY <1>3, <3>1, <3>4
      <4>2. f[k] = TakeMore(f[k - 1], stop)
        BY <2>2, <3>4, <4>1 DEF TakenFrom
      <4>. QED
        BY <2>3, <3>4, <4>1, <4>2
    <3>. QED
      BY <3>2, <3>3, <3>4
  <2>5. Is(g, m)
    BY <2>4 DEF TakenFrom
  <2>. QED
    BY <1>3, <2>5
<1>. QED
  BY <1>4, <1>5

\* What holds at the start, and of each step when it held of the one before, holds
\* of what was taken.
LEMMA TakeCounted ==
  ASSUME NEW w, NEW n \in Nat, NEW stop, NEW Good,
         [w |-> w, data |-> << >>, more |-> TRUE] \in Good[0],
         \A k \in 1 .. n : \A r \in Good[k - 1] : TakeMore(r, stop) \in Good[k]
  PROVE  Take(w, n, stop) \in Good[n]
<1> DEFINE start == [w |-> w, data |-> << >>, more |-> TRUE]
           g == CHOOSE g : g = [k \in 0 .. n |->
                  IF k = 0 THEN start ELSE TakeMore(g[k - 1], stop)]
<1>1. TakenFrom(start, stop, n, g)
  <2> HIDE DEF start
  <2>1. \E f : TakenFrom(start, stop, n, f)
    BY TakenSteps
  <2>. QED
    BY <2>1, Zenon DEF TakenFrom
<1>2. Take(w, n, stop) = g[n]
  BY DEF Take
<1> HIDE DEF g
<1>3. \A k \in 0 .. n : g[k] = IF k = 0 THEN start ELSE TakeMore(g[k - 1], stop)
  <2> HIDE DEF start
  <2>. QED
    BY <1>1 DEF TakenFrom
<1> DEFINE Bad == {k \in 0 .. n : g[k] \notin Good[k]}
<1>4. Bad = {}
  <2>1. SUFFICES ASSUME Bad # {}
                 PROVE  FALSE
    OBVIOUS
  <2>2. PICK m \in Bad : \A k \in Bad : m <= k
    <3>1. Bad \in SUBSET Nat
      OBVIOUS
    <3> HIDE DEF Bad
    <3>. QED
      BY <2>1, <3>1, LeastElement
  <2>3. CASE m = 0
    BY <1>3, <2>2, <2>3
  <2>4. CASE m # 0
    <3>1. m - 1 \in 0 .. n /\ m - 1 \notin Bad
      BY <2>2, <2>4
    <3>2. g[m - 1] \in Good[m - 1] /\ g[m] = TakeMore(g[m - 1], stop)
      BY <1>3, <2>2, <2>4, <3>1
    <3>3. m \in 1 .. n
      BY <2>2, <2>4
    <3>. QED
      BY <2>2, <3>2, <3>3
  <2>. QED
    BY <2>3, <2>4
<1>. QED
  BY <1>2, <1>4

\* The same of what does not depend on how many steps there were.
LEMMA TakeInduction ==
  ASSUME NEW w, NEW n \in Nat, NEW stop, NEW Good,
         [w |-> w, data |-> << >>, more |-> TRUE] \in Good,
         \A r \in Good : TakeMore(r, stop) \in Good
  PROVE  Take(w, n, stop) \in Good
<1>1. PICK G : G = [k \in 0 .. n |-> Good]
  OBVIOUS
<1>2. \A k \in 0 .. n : G[k] = Good
  BY <1>1
<1>3. [w |-> w, data |-> << >>, more |-> TRUE] \in G[0]
  BY <1>2
<1>4. \A k \in 1 .. n : \A r \in G[k - 1] : TakeMore(r, stop) \in G[k]
  BY <1>2
<1>5. Take(w, n, stop) \in G[n]
  BY <1>3, <1>4, TakeCounted
<1>. QED
  BY <1>2, <1>5

\* What was taken so far.
Takings == [w : Views, data : Seq(Nat), more : BOOLEAN]

\* One more step: nothing, an EOF, or a byte.
LEMMA TakeMoreCases ==
  ASSUME NEW r \in Takings, NEW stop, NEW t, t = TakeMore(r, stop),
         NEW b, b = Getc(r.w)
  PROVE  /\ t \in Takings
         /\ \/ ~r.more /\ t = r
            \/ r.more /\ b.c = EOF /\ t.w = b.w /\ t.data = r.data /\ ~t.more
            \/ /\ r.more /\ b.c # EOF /\ t.w = b.w /\ t.data = Append(r.data, b.c)
               /\ t.more = (b.c \notin stop)
<1>1. r.w \in Views /\ r.data \in Seq(Nat) /\ r.more \in BOOLEAN
  BY DEF Takings
<1>2. b.w \in Views /\ b.c \in Nat \cup {EOF}
  BY <1>1, GetcType
<1>3. CASE ~r.more
  BY <1>3 DEF TakeMore
<1>4. CASE r.more /\ b.c = EOF
  BY <1>1, <1>2, <1>4 DEF TakeMore, Takings
<1>5. CASE r.more /\ b.c # EOF
  <2>1. t = [w |-> b.w, data |-> Append(r.data, b.c), more |-> b.c \notin stop]
    BY <1>5 DEF TakeMore
  <2>2. b.c \in Nat /\ Append(r.data, b.c) \in Seq(Nat)
    BY <1>1, <1>2, <1>5
  <2>3. (b.c \notin stop) \in BOOLEAN
    OBVIOUS
  <2>. QED
    BY <1>2, <1>5, <2>1, <2>2, <2>3 DEF Takings
<1>. QED
  BY <1>3, <1>4, <1>5

\* Reading off a stream changes the view's offset and stream and nothing else.
LEMMA TakeType ==
  ASSUME NEW w \in Views, NEW n \in Nat, NEW stop, NEW t, t = Take(w, n, stop)
  PROVE  /\ t.w \in Views /\ t.data \in Seq(Nat)
         /\ t.w.file = w.file /\ t.w.st.out = w.st.out /\ t.w.st.reads = w.st.reads
<1> DEFINE Good == {r \in Takings : /\ r.w.file = w.file /\ r.w.st.out = w.st.out
                                    /\ r.w.st.reads = w.st.reads}
<1>1. [w |-> w, data |-> << >>, more |-> TRUE] \in Good
  BY EmptySeq DEF Takings
<1>2. ASSUME NEW r \in Good
      PROVE  TakeMore(r, stop) \in Good
  <2>1. r \in Takings /\ r.w \in Views
    BY DEF Takings
  <2>2. PICK b : b = Getc(r.w)
    OBVIOUS
  <2>3. PICK m : m = TakeMore(r, stop)
    OBVIOUS
  <2>4. /\ b.w.file = r.w.file /\ b.w.st.out = r.w.st.out /\ b.w.st.reads = r.w.st.reads
    BY <2>1, <2>2, GetcType
  <2>5. m \in Takings /\ (m = r \/ m.w = b.w)
    BY <2>1, <2>2, <2>3, TakeMoreCases
  <2>. QED
    BY <2>3, <2>4, <2>5
<1>3. t \in Good
  <2> HIDE DEF Good
  <2>. QED
    BY <1>1, <1>2, TakeInduction
<1>. QED
  BY <1>3 DEF Takings

-----------------------------------------------------------------------------
(* Seeking.                                                                *)

\* The view v is where fseek is after its lseek, from w: the flush failed, the
\* target is in the buffer, it is in a block that is read next, or nothing has to
\* be read.
Sought(w, offs, v) ==
  /\ v \in Views /\ v.file = w.file /\ v.st.out = w.st.out /\ v.st.reads = w.st.reads
  /\ IF w.st.out # << >> THEN v = w
     ELSE IF InBuffer(w.st, offs)
       THEN /\ v.pos = w.st.offset /\ v.st.buf = w.st.buf
            /\ v.st.ptr = offs - (w.st.offset - Len(w.st.buf))
            /\ v.st.offset = w.st.offset /\ v.st.eof = FALSE
     ELSE IF NeedsFill(w.st, offs) THEN v.pos = BlockStart(offs) /\ v.st = w.st
     ELSE /\ v.pos = offs /\ v.st.buf = << >> /\ v.st.ptr = 0
          /\ v.st.offset = offs /\ v.st.eof = FALSE

LEMMA FseekStartCases ==
  ASSUME NEW w0 \in Views, NEW offs \in Nat, NEW v, v = FseekStart(w0, offs)
  PROVE  Sought(Fflush(w0), offs, v)
<1>0. PICK w : w = Fflush(w0)
  OBVIOUS
<1>1. w \in Views
  BY <1>0, FflushCases
<1>2. /\ w.st \in Streams /\ w.pos \in Nat /\ w.st.buf \in Seq(Nat) /\ Len(w.st.buf) \in Nat
      /\ w.st.offset \in Int /\ w.st.offset >= -1
  BY <1>1, ViewType
<1>3. ASSUME w.st.out # << >>
      PROVE  Sought(w, offs, v)
  BY <1>0, <1>1, <1>3 DEF FseekStart, Sought
<1>4. ASSUME w.st.out = << >>, InBuffer(w.st, offs)
      PROVE  Sought(w, offs, v)
  <2>1. PICK ptr : ptr = offs - (w.st.offset - Len(w.st.buf))
    OBVIOUS
  <2>2. ptr \in Nat /\ ptr <= Len(w.st.buf) /\ w.st.offset \in Nat
    <3>1. /\ w.st.offset # -1 /\ w.st.offset - Len(w.st.buf) <= offs
          /\ offs < w.st.offset
      BY <1>4 DEF InBuffer, Unknown
    <3>. QED
      BY <1>2, <2>1, <3>1, SMTT(30)
  <2>3. PICK st : st = WithBuffer(w.st, w.st.buf, ptr, w.st.offset, FALSE)
    OBVIOUS
  <2>4. /\ st \in Streams /\ st.buf = w.st.buf /\ st.ptr = ptr /\ st.offset = w.st.offset
        /\ st.eof = FALSE /\ st.out = w.st.out /\ st.reads = w.st.reads
    BY <1>2, <2>2, <2>3 DEF WithBuffer, Streams, StreamRecords
  <2>5. v = [w EXCEPT !.pos = w.st.offset, !.st = st]
    BY <1>0, <1>4, <2>1, <2>3 DEF FseekStart
  <2>6. v \in Views /\ v.file = w.file /\ v.pos = w.st.offset /\ v.st = st
    BY <1>1, <2>2, <2>4, <2>5 DEF Views
  <2>. QED
    BY <1>4, <2>1, <2>4, <2>6 DEF Sought
<1>5. ASSUME w.st.out = << >>, ~InBuffer(w.st, offs), NeedsFill(w.st, offs)
      PROVE  Sought(w, offs, v)
  <2>1. v = [w EXCEPT !.pos = BlockStart(offs)]
    BY <1>0, <1>5 DEF FseekStart
  <2>2. v \in Views /\ v.file = w.file /\ v.pos = BlockStart(offs) /\ v.st = w.st
    BY <1>1, <2>1, BlockStartBounds DEF Views
  <2>. QED
    BY <1>5, <2>2 DEF Sought
<1>6. ASSUME w.st.out = << >>, ~InBuffer(w.st, offs), ~NeedsFill(w.st, offs)
      PROVE  Sought(w, offs, v)
  <2>1. PICK st : st = WithBuffer(w.st, << >>, 0, offs, FALSE)
    OBVIOUS
  <2>2. /\ st \in Streams /\ st.buf = << >> /\ st.ptr = 0 /\ st.offset = offs
        /\ st.eof = FALSE /\ st.out = w.st.out /\ st.reads = w.st.reads
    BY <1>2, <2>1, EmptySeq DEF WithBuffer, Streams, StreamRecords
  <2>3. v = [w EXCEPT !.pos = offs, !.st = st]
    BY <1>0, <1>6, <2>1 DEF FseekStart
  <2>4. v \in Views /\ v.file = w.file /\ v.pos = offs /\ v.st = st
    BY <1>1, <2>2, <2>3 DEF Views
  <2>. QED
    BY <1>6, <2>2, <2>4 DEF Sought
<1>7. Sought(w, offs, v)
  BY <1>3, <1>4, <1>5, <1>6
<1>. QED
  BY <1>0, <1>7

\* What fseek reads of the block that its target is in.
Block(w, offs) ==
  BytesAt(w.file.data, w.pos, IF w.st.buf = << >> THEN offs - BlockStart(offs) ELSE BufSize)

LEMMA FseekFillCases ==
  ASSUME NEW w \in Views, NEW offs \in Nat, NEW v, v = FseekFill(w, offs)
  PROVE  /\ v \in Views /\ v.file = w.file /\ v.st.out = w.st.out /\ v.st.reads = w.st.reads
         /\ v.st.eof = FALSE /\ Block(w, offs) \in Seq(Nat)
         /\ IF Len(Block(w, offs)) < offs - BlockStart(offs)
              THEN /\ v.pos = w.pos + (offs - BlockStart(offs)) /\ v.st.buf = << >>
                   /\ v.st.ptr = 0 /\ v.st.offset = v.pos
            ELSE /\ v.pos = w.pos + Len(Block(w, offs)) /\ v.st.buf = Block(w, offs)
                 /\ v.st.ptr = offs - BlockStart(offs)
                 /\ v.st.offset = BlockStart(offs) + Len(Block(w, offs))
<1>1. w.st \in Streams /\ w.pos \in Nat /\ w.file.data \in Seq(Nat)
  BY ViewType
<1>2. PICK block : block = Block(w, offs)
  OBVIOUS
<1>3. PICK delta : delta = offs - BlockStart(offs)
  OBVIOUS
<1>4. delta \in Nat /\ BlockStart(offs) \in Nat
  BY <1>3, BlockStartBounds
<1>5. block \in Seq(Nat) /\ Len(block) \in Nat
  <2>1. PICK n : n = IF w.st.buf = << >> THEN delta ELSE BufSize
    OBVIOUS
  <2>2. n \in Nat
    BY <1>4, <2>1, BufSizeAssumption
  <2>3. block = BytesAt(w.file.data, w.pos, n)
    BY <1>2, <1>3, <2>1 DEF Block
  <2>4. block \in Seq(Nat)
    BY <1>1, <2>2, <2>3, BytesAtType
  <2>. QED
    BY <2>4, LenProperties
<1>6. CASE Len(block) < delta
  <2>1. PICK after : after = w.pos + delta
    OBVIOUS
  <2>2. after \in Nat
    BY <1>1, <1>4, <2>1
  <2>3. PICK st : st = WithBuffer(w.st, << >>, 0, after, FALSE)
    OBVIOUS
  <2>4. /\ st \in Streams /\ st.buf = << >> /\ st.ptr = 0 /\ st.offset = after
        /\ st.eof = FALSE /\ st.out = w.st.out /\ st.reads = w.st.reads
    BY <1>1, <2>2, <2>3, EmptySeq DEF WithBuffer, Streams, StreamRecords
  <2>5. v = [w EXCEPT !.pos = after, !.st = st]
    BY <1>2, <1>3, <1>6, <2>1, <2>3 DEF FseekFill, Block
  <2>6. v \in Views /\ v.file = w.file /\ v.pos = after /\ v.st = st
    BY <2>2, <2>4, <2>5 DEF Views
  <2>. QED
    BY <1>2, <1>3, <1>5, <1>6, <2>1, <2>4, <2>6
<1>7. CASE ~(Len(block) < delta)
  <2>1. PICK off : off = BlockStart(offs) + Len(block)
    OBVIOUS
  <2>2. off \in Int /\ off >= -1 /\ delta <= Len(block)
    BY <1>4, <1>5, <1>7, <2>1
  <2>3. PICK st : st = WithBuffer(w.st, block, delta, off, FALSE)
    OBVIOUS
  <2>4. /\ st \in Streams /\ st.buf = block /\ st.ptr = delta /\ st.offset = off
        /\ st.eof = FALSE /\ st.out = w.st.out /\ st.reads = w.st.reads
    BY <1>1, <1>4, <1>5, <2>2, <2>3 DEF WithBuffer, Streams, StreamRecords
  <2>5. PICK p \in Nat : p = w.pos + Len(block)
    BY <1>1, <1>5
  <2>6. v = [w EXCEPT !.pos = p, !.st = st]
    BY <1>2, <1>3, <1>7, <2>1, <2>3, <2>5 DEF FseekFill, Block
  <2>7. v \in Views /\ v.file = w.file /\ v.pos = p /\ v.st = st
    BY <2>4, <2>5, <2>6 DEF Views
  <2>. QED
    BY <1>2, <1>3, <1>5, <1>7, <2>1, <2>4, <2>5, <2>7
<1>. QED
  BY <1>6, <1>7

LEMMA FseekType ==
  ASSUME NEW w \in Views, NEW offs \in Nat, NEW v, v = Fseek(w, offs)
  PROVE  /\ v \in Views /\ v.file = Fflush(w).file
<1>2. PICK u : u = FseekStart(w, offs)
  OBVIOUS
<1>3. u \in Views /\ u.file = Fflush(w).file
  BY <1>2, FseekStartCases, ZenonT(30) DEF Sought
<1>4. PICK x : x = FseekFill(u, offs)
  OBVIOUS
<1>5. x \in Views /\ x.file = u.file
  BY <1>3, <1>4, FseekFillCases
<1>. QED
  BY <1>2, <1>3, <1>4, <1>5 DEF Fseek

LEMMA FtellType ==
  ASSUME NEW w \in Views
  PROVE  Ftell(w) \in Int /\ Ftell(w) >= -1 /\ Offset(w) \in Int /\ Offset(w) >= -1
BY ViewType, SMTT(30) DEF Ftell, Offset

-----------------------------------------------------------------------------
(* What the master's call comes to.                                        *)

StreamWrites == {"fwrite", "fputc", "fputs", "puts"}
Prints == {"printf", "printf_chk"}
StreamReads == {"fgetc", "fgets", "gets", "fread"}
Ops == {"read", "write", "fseek", "open", "fopen", "unlink", "close", "getpid"}
         \cup StreamWrites \cup Prints \cup StreamReads

LEMMA CallFields ==
  ASSUME NEW c \in Calls
  PROVE  /\ c.op \in Ops
         /\ c.op = "read" => c.n \in Nat
         /\ c.op = "fgets" => c.n \in Nat /\ c.n - 1 \in Nat
         /\ c.op = "fread" => c.size \in Nat \ {0} /\ c.nmemb \in Nat
         /\ c.op \in {"write"} \cup StreamWrites \cup Prints => c.bytes \in Seq(Nat)
         /\ c.op = "fseek" => c.offs \in Nat
         /\ c.op \in OpenOps => c.flags \in SUBSET {"read", "creat", "excl", "trunc"}
<1>1. /\ c.op \in Ops
      /\ c.op = "read" => c.n \in Nat
      /\ c.op = "fseek" => c.offs \in Nat
      /\ c.op = "fread" => c.size \in Nat \ {0} /\ c.nmemb \in Nat
  BY DEF Calls, Ops, OpenOps, StreamWrites, Prints, StreamReads
<1>2. /\ c.op = "fgets" => c.n \in Nat /\ c.n # 0
      /\ c.op \in {"write"} \cup StreamWrites \cup Prints => c.bytes \in Seq(Nat)
      /\ c.op \in OpenOps => c.flags \in SUBSET {"read", "creat", "excl", "trunc"}
  BY DEF Calls, OpenOps, StreamWrites, Prints
<1>. QED
  BY <1>1, <1>2

\* s is the beginning of d.
Begins(s, d) == Len(s) <= Len(d) /\ \A k \in 1 .. Len(s) : s[k] = d[k]

LEMMA BeginningOf ==
  ASSUME NEW d \in Seq(Nat), NEW n \in Nat, n <= Len(d)
  PROVE  /\ SubSeq(d, 1, n) \in Seq(Nat) /\ Len(SubSeq(d, 1, n)) = n
         /\ \A k \in 1 .. n : SubSeq(d, 1, n)[k] = d[k]
<1>1. \A i \in 1 .. n : d[i] \in Nat
  BY LenProperties, ElementOfSeq
<1>. QED
  BY <1>1

LEMMA BeginningType ==
  ASSUME NEW d \in Seq(Nat), NEW n \in Int, n <= Len(d)
  PROVE  SubSeq(d, 1, n) \in Seq(Nat) /\ Begins(SubSeq(d, 1, n), d)
<1>1. \A i \in 1 .. n : d[i] \in Nat
  BY LenProperties, ElementOfSeq
<1>2. /\ SubSeq(d, 1, n) \in Seq(Nat)
      /\ Len(SubSeq(d, 1, n)) = IF 1 <= n THEN n ELSE 0
      /\ \A k \in 1 .. n : SubSeq(d, 1, n)[k] = d[k]
  BY <1>1
<1>. QED
  BY <1>2, LenProperties DEF Begins

LEMMA CStringType ==
  ASSUME NEW s \in Seq(Nat)
  PROVE  CString(s) \in Seq(Nat) /\ Begins(CString(s), s)
<1> DEFINE ends == {k \in 1 .. Len(s) : s[k] = 0} \cup {Len(s) + 1}
<1>1. Len(s) \in Nat
  BY LenProperties
<1>2. ends \in SUBSET Nat /\ ends # {} /\ \A k \in ends : k <= Len(s) + 1
  BY <1>1
<1>3. CString(s) = SubSeq(s, 1, Least(ends) - 1)
  BY DEF CString
<1> HIDE DEF ends
<1>4. Least(ends) \in ends
  BY <1>2, LeastIsLeast
<1>5. PICK n : n = Least(ends) - 1
  OBVIOUS
<1>6. n \in Int /\ n <= Len(s)
  <2>1. Least(ends) \in Nat /\ Least(ends) <= Len(s) + 1
    BY <1>2, <1>4
  <2>. QED
    BY <1>1, <1>5, <2>1
<1>. QED
  BY <1>3, <1>5, <1>6, BeginningType

\* What the master's call leaves: its view, its result, and what it tells slaves.
IsOutcome(o) ==
  /\ o.w \in Views /\ o.ret \in Int
  /\ o.data \in Seq(Nat) /\ o.sent \in Seq(Nat) /\ Begins(o.sent, o.data)
  /\ o.offs \in Int /\ o.offs >= -1 /\ o.eof \in BOOLEAN
  /\ o.follow \in {"none", "lseek", "fseek", "open"}
  /\ o.compare = (o.follow = "fseek")

LEMMA FdCallType ==
  ASSUME NEW w \in Views, NEW ret \in Int, NEW data \in Seq(Nat),
         NEW o, o = FdCall(w, ret, data)
  PROVE  IsOutcome(o) /\ o.follow = "lseek"
<1>1. Begins(data, data)
  BY LenProperties DEF Begins
<1>2. Offset(w) \in Int /\ Offset(w) >= -1
  BY FtellType
<1>3. /\ o.w = w /\ o.ret = ret /\ o.data = data /\ o.sent = data /\ o.offs = Offset(w)
      /\ o.eof = FALSE /\ o.follow = "lseek" /\ o.compare = FALSE
  BY DEF FdCall
<1>. QED
  BY <1>1, <1>2, <1>3 DEF IsOutcome

LEMMA StreamCallType ==
  ASSUME NEW w \in Views, NEW ret \in Int, NEW data \in Seq(Nat), NEW sent \in Seq(Nat),
         Begins(sent, data), NEW o, o = StreamCall(w, ret, data, sent)
  PROVE  IsOutcome(o) /\ o.follow = "fseek"
<1>1. w.st.eof \in BOOLEAN
  BY ViewType
<1>. QED
  BY <1>1, FtellType DEF IsOutcome, StreamCall

LEMMA ResultCallType ==
  ASSUME NEW w \in Views, NEW ret \in Int, NEW o,
         o = ResultCall(w, ret) \/ o = OpenCall(w, ret)
  PROVE  /\ IsOutcome(o) /\ o.w = w /\ o.ret = ret
         /\ o.follow = IF o = ResultCall(w, ret) THEN "none" ELSE "open"
<1>1. << >> \in Seq(Nat) /\ Begins(<< >>, << >>)
  BY EmptySeq DEF Begins
<1>2. PICK e : e = << >>
  OBVIOUS
<1>3. e \in Seq(Nat) /\ Begins(e, e)
  BY <1>1, <1>2
<1>4. PICK r : r = ResultCall(w, ret)
  OBVIOUS
<1>5. r = [w |-> w, ret |-> ret, data |-> e, sent |-> e, offs |-> 0,
           eof |-> FALSE, follow |-> "none", compare |-> FALSE]
  BY <1>2, <1>4 DEF ResultCall
<1>6. PICK x : x = [r EXCEPT !.follow = "open"]
  OBVIOUS
<1>7. /\ x.w = w /\ x.ret = ret /\ x.data = e /\ x.sent = e /\ x.offs = 0
      /\ x.eof = FALSE /\ x.follow = "open" /\ x.compare = FALSE
  BY <1>5, <1>6
<1>8. /\ r.w = w /\ r.ret = ret /\ r.data = e /\ r.sent = e /\ r.offs = 0
      /\ r.eof = FALSE /\ r.follow = "none" /\ r.compare = FALSE
  BY <1>5
<1>9. IsOutcome(x)
  <2>1. /\ x.w \in Views /\ x.ret \in Int /\ x.data \in Seq(Nat)
        /\ x.sent \in Seq(Nat) /\ x.offs \in Int /\ x.offs >= -1
    BY <1>3, <1>7
  <2>2. Begins(x.sent, x.data)
    BY <1>3, <1>7
  <2>3. /\ x.eof \in BOOLEAN /\ x.compare = (x.follow = "fseek")
        /\ x.follow \in {"none", "lseek", "fseek", "open"}
    BY <1>7
  <2>. QED
    BY <2>1, <2>2, <2>3 DEF IsOutcome
<1>10. IsOutcome(r)
  <2>1. /\ r.w \in Views /\ r.ret \in Int /\ r.data \in Seq(Nat)
        /\ r.sent \in Seq(Nat) /\ r.offs \in Int /\ r.offs >= -1
    BY <1>3, <1>8
  <2>2. Begins(r.sent, r.data)
    BY <1>3, <1>8
  <2>3. /\ r.eof \in BOOLEAN /\ r.compare = (r.follow = "fseek")
        /\ r.follow \in {"none", "lseek", "fseek", "open"}
    BY <1>8
  <2>. QED
    BY <2>1, <2>2, <2>3 DEF IsOutcome
<1>11. o = r \/ o = x
  BY <1>4, <1>6 DEF OpenCall
<1>. QED
  BY <1>4, <1>7, <1>8, <1>9, <1>10, <1>11

\* The kind of call it is decides how the slaves follow.
FollowOf(op) ==
  IF op \in {"read", "write"} THEN "lseek"
  ELSE IF op \in {"fseek"} \cup StreamReads \cup StreamWrites THEN "fseek"
  ELSE IF op \in OpenOps THEN "open" ELSE "none"

LEMMA ServedOps ==
  ASSUME NEW w, NEW c
  PROVE  /\ c.op = "read" => Served(w, c) = Read(w, c)
         /\ c.op = "write" => Served(w, c) = Write(w, c)
         /\ c.op = "fgetc" => Served(w, c) = Fgetc(w, c)
         /\ c.op = "fgets" => Served(w, c) = Fgets(w, c)
         /\ c.op = "gets" => Served(w, c) = Gets(w, c)
         /\ c.op = "fread" => Served(w, c) = Fread(w, c)
         /\ c.op = "fwrite" => Served(w, c) = Fwrite(w, c)
         /\ c.op = "fputc" => Served(w, c) = Fputc(w, c)
         /\ c.op = "fputs" => Served(w, c) = Fputs(w, c)
         /\ c.op = "puts" => Served(w, c) = Puts(w, c)
         /\ c.op = "printf" => Served(w, c) = Printf(w, c)
         /\ c.op = "printf_chk" => Served(w, c) = PrintfChk(w, c)
         /\ c.op = "fseek" => Served(w, c) = FseekCall(w, c)
         /\ c.op = "open" => Served(w, c) = Open(w, c)
         /\ c.op = "fopen" => Served(w, c) = Fopen(w, c)
         /\ c.op = "unlink" => Served(w, c) = Unlink(w, c)
BY SMTT(30) DEF Served

LEMMA ReadType ==
  ASSUME NEW w \in Views, NEW c \in Calls, c.op = "read", NEW o, o = Read(w, c),
         NEW data, data = BytesAt(w.file.data, w.pos, c.n)
  PROVE  /\ IsOutcome(o) /\ o.follow = "lseek" /\ data \in Seq(Nat)
         /\ o.w.file = w.file /\ o.w.st = w.st /\ o.w.pos = w.pos + Len(data)
         /\ o.sent = o.data /\ o.offs = Offset(o.w) /\ o.eof = FALSE
<1>1. data \in Seq(Nat) /\ Len(data) \in Nat /\ w.pos \in Nat
  BY CallFields, ViewType, BytesAtType, LenProperties
<1>2. PICK v : v = [w EXCEPT !.pos = w.pos + Len(data)]
  OBVIOUS
<1>3. v \in Views /\ v.file = w.file /\ v.st = w.st /\ v.pos = w.pos + Len(data)
  BY <1>1, <1>2, SMTT(30) DEF Views
<1>4. o = FdCall(v, Len(data), data)
  BY <1>2 DEF Read
<1>5. o.w = v /\ o.sent = o.data /\ o.offs = Offset(v) /\ o.eof = FALSE
  BY <1>4 DEF FdCall
<1>6. IsOutcome(o) /\ o.follow = "lseek"
  BY <1>1, <1>3, <1>4, FdCallType
<1>. QED
  BY <1>1, <1>3, <1>5, <1>6

LEMMA WriteType ==
  ASSUME NEW w \in Views, NEW c \in Calls, c.op = "write", NEW o, o = Write(w, c)
  PROVE  /\ IsOutcome(o) /\ o.follow = "lseek"
         /\ o.w.file.seeks = w.file.seeks /\ o.w.file.exists = w.file.exists
         /\ o.w.st = w.st /\ o.w.pos = w.pos + Len(c.bytes) /\ Len(c.bytes) \in Nat
         /\ o.sent = o.data /\ o.offs = Offset(o.w) /\ o.eof = FALSE
<1>1. c.bytes \in Seq(Nat) /\ Len(c.bytes) \in Nat
  BY CallFields, LenProperties
<1>2. w.pos \in Nat /\ w.file \in Files /\ w.file.data \in Seq(Nat) /\ w.st \in Streams
  BY ViewType
<1>3. PICK d : d = Overwrite(w.file.data, w.pos, c.bytes)
  OBVIOUS
<1>4. d \in Seq(Nat)
  BY <1>1, <1>2, <1>3, OverwriteType
<1>5. PICK f : f = [w.file EXCEPT !.data = d]
  OBVIOUS
<1>6. f \in Files /\ f.seeks = w.file.seeks /\ f.exists = w.file.exists
  BY <1>2, <1>4, <1>5, WithDataType
<1>0. PICK p \in Nat : p = w.pos + Len(c.bytes)
  BY <1>1, <1>2
<1>7. PICK v : v = [w EXCEPT !.file = f, !.pos = p]
  OBVIOUS
<1>8. v \in Views /\ v.file = f /\ v.st = w.st /\ v.pos = p
  BY <1>6, <1>7 DEF Views
<1>12. PICK e : e = << >>
  OBVIOUS
<1>13. e \in Seq(Nat)
  BY <1>12, EmptySeq
<1>9. o = FdCall(v, Len(c.bytes), e)
  <2>1. [w EXCEPT !.file.data = Overwrite(w.file.data, w.pos, c.bytes),
                  !.pos = w.pos + Len(c.bytes)] = v
    BY <1>0, <1>3, <1>5, <1>7
  <2>. QED
    BY <1>12, <2>1 DEF Write
<1>10. o.w = v /\ o.sent = o.data /\ o.offs = Offset(v) /\ o.eof = FALSE
  BY <1>9 DEF FdCall
<1>11. IsOutcome(o) /\ o.follow = "lseek"
  BY <1>1, <1>8, <1>9, <1>13, FdCallType
<1>. QED
  BY <1>0, <1>1, <1>6, <1>8, <1>10, <1>11

\* Whatever reads off a stream leaves the file as it is.
LEMMA StreamReadType ==
  ASSUME NEW w \in Views, NEW c \in Calls, c.op \in StreamReads, NEW o, o = Served(w, c)
  PROVE  /\ IsOutcome(o) /\ o.follow = "fseek"
         /\ o.w.file = w.file /\ o.w.st.out = w.st.out /\ o.w.st.reads = w.st.reads
         /\ o.offs = Ftell(o.w) /\ o.eof = o.w.st.eof
         /\ \/ o.w = Getc(w).w
            \/ \E n \in Nat, stop \in {{}, {NL}} : o.w = Take(w, n, stop).w
<1>1. CASE c.op = "fgetc"
  <2>1. PICK b : b = Getc(w)
    OBVIOUS
  <2>2. /\ b.w \in Views /\ b.c \in Int
        /\ b.w.file = w.file /\ b.w.st.out = w.st.out /\ b.w.st.reads = w.st.reads
    BY <2>1, GetcType DEF EOF
  <2>3. o = StreamCall(b.w, b.c, << >>, << >>)
    BY <1>1, <2>1, ServedOps DEF Fgetc
  <2>4. << >> \in Seq(Nat) /\ Begins(<< >>, << >>)
    BY EmptySeq DEF Begins
  <2>5. IsOutcome(o) /\ o.follow = "fseek"
    BY <2>2, <2>3, <2>4, StreamCallType
  <2>6. o.w = b.w /\ o.offs = Ftell(b.w) /\ o.eof = b.w.st.eof
    BY <2>3 DEF StreamCall
  <2>. QED
    BY <2>1, <2>2, <2>5, <2>6
<1>2. ASSUME NEW n \in Nat, NEW stop \in {{}, {NL}}, NEW t, t = Take(w, n, stop),
             NEW ret \in Int, NEW data \in Seq(Nat), NEW sent \in Seq(Nat),
             Begins(sent, data), o = StreamCall(t.w, ret, data, sent)
      PROVE  /\ IsOutcome(o) /\ o.follow = "fseek"
             /\ o.w.file = w.file /\ o.w.st.out = w.st.out /\ o.w.st.reads = w.st.reads
             /\ o.offs = Ftell(o.w) /\ o.eof = o.w.st.eof
             /\ \E m \in Nat, s \in {{}, {NL}} : o.w = Take(w, m, s).w
  <2>1. t.w \in Views /\ t.w.file = w.file /\ t.w.st.out = w.st.out /\ t.w.st.reads = w.st.reads
    BY <1>2, TakeType
  <2>2. IsOutcome(o) /\ o.follow = "fseek"
    BY <1>2, <2>1, StreamCallType
  <2>3. o.w = t.w /\ o.offs = Ftell(t.w) /\ o.eof = t.w.st.eof
    BY <1>2 DEF StreamCall
  <2>. QED
    BY <1>2, <2>1, <2>2, <2>3
<1>3. CASE c.op = "fgets"
  <2>1. c.n - 1 \in Nat
    BY <1>3, CallFields
  <2>2. PICK t : t = Take(w, c.n - 1, {NL})
    OBVIOUS
  <2>3. t.data \in Seq(Nat)
    BY <2>1, <2>2, TakeType
  <2>4. CString(t.data) \in Seq(Nat) /\ Begins(CString(t.data), t.data)
    BY <2>3, CStringType
  <2>5. PICK ret \in Int : ret = IF t.data = << >> /\ c.n > 1 THEN -1 ELSE 0
    OBVIOUS
  <2>6. o = StreamCall(t.w, ret, t.data, CString(t.data))
    BY <1>3, <2>2, <2>5, ServedOps DEF Fgets
  <2>. QED
    BY <1>2, <2>1, <2>2, <2>3, <2>4, <2>6, ZenonT(30)
<1>4. CASE c.op = "gets"
  <2>1. PICK n \in Nat : n = Len(w.file.data) + 1
    BY ViewType
  <2>2. PICK t : t = Take(w, n, {NL})
    OBVIOUS
  <2>3. t.data \in Seq(Nat) /\ Len(t.data) \in Nat
    BY <2>2, TakeType, LenProperties
  <2>4. PICK line : line = IF t.data # << >> /\ t.data[Len(t.data)] = NL
                             THEN SubSeq(t.data, 1, Len(t.data) - 1) ELSE t.data
    OBVIOUS
  <2>5. line \in Seq(Nat)
    <3>1. SubSeq(t.data, 1, Len(t.data) - 1) \in Seq(Nat)
      BY <2>3, BeginningType
    <3>. QED
      BY <2>3, <2>4, <3>1
  <2>6. CString(line) \in Seq(Nat) /\ Begins(CString(line), line)
    BY <2>5, CStringType
  <2>7. PICK ret \in Int : ret = IF t.data = << >> THEN -1 ELSE 0
    OBVIOUS
  <2>8. o = StreamCall(t.w, ret, line, CString(line))
    BY <1>4, <2>1, <2>2, <2>4, <2>7, ServedOps DEF Gets
  <2>. QED
    BY <1>2, <2>2, <2>5, <2>6, <2>8
<1>5. CASE c.op = "fread"
  <2>1. c.size \in Nat \ {0} /\ c.nmemb \in Nat
    BY <1>5, CallFields
  <2>2. PICK n \in Nat : n = c.size * c.nmemb
    BY <2>1
  <2>0. PICK stop \in {{}, {NL}} : stop = {}
    OBVIOUS
  <2>3. PICK t : t = Take(w, n, stop)
    OBVIOUS
  <2>4. t.data \in Seq(Nat) /\ Len(t.data) \in Nat
    BY <2>3, TakeType, LenProperties
  <2>5. PICK ret : ret = Len(t.data) \div c.size
    OBVIOUS
  <2>6. ret \in Nat /\ ret * c.size \in Nat /\ ret <= ret * c.size
        /\ ret * c.size <= Len(t.data)
    BY <2>1, <2>4, <2>5, DivBounds
  <2>7. PICK data : data = SubSeq(t.data, 1, ret * c.size)
    OBVIOUS
  <2>8. PICK sent : sent = SubSeq(t.data, 1, ret)
    OBVIOUS
  <2>9. data \in Seq(Nat) /\ sent \in Seq(Nat) /\ Begins(sent, data)
    <3>1. data \in Seq(Nat) /\ Len(data) = ret * c.size
      BY <2>4, <2>6, <2>7, BeginningOf
    <3>2. sent \in Seq(Nat) /\ Len(sent) = ret
      BY <2>4, <2>6, <2>8, BeginningOf
    <3>3. \A k \in 1 .. ret : sent[k] = t.data[k]
      BY <2>4, <2>6, <2>8, BeginningOf
    <3>4. \A k \in 1 .. ret * c.size : data[k] = t.data[k]
      BY <2>4, <2>6, <2>7, BeginningOf
    <3>5. \A k \in 1 .. ret : k \in 1 .. ret * c.size
      BY <2>6
    <3>6. \A k \in 1 .. ret : sent[k] = data[k]
      BY <3>3, <3>4, <3>5
    <3>. QED
      BY <2>6, <3>1, <3>2, <3>6 DEF Begins
  <2>10. o = StreamCall(t.w, ret, data, sent)
    BY <1>5, <2>0, <2>2, <2>3, <2>5, <2>7, <2>8, ServedOps DEF Fread
  <2>. QED
    <3>1. ret \in Int
      BY <2>6
    <3>. QED
      BY <1>2, <2>3, <2>9, <2>10, <3>1
<1>. QED
  BY <1>1, <1>3, <1>4, <1>5 DEF StreamReads

\* What a call writes to its stream.
Line(c) == IF c.op = "puts" THEN Append(c.bytes, NL) ELSE c.bytes

LEMMA LineType ==
  ASSUME NEW c \in Calls, c.op \in StreamWrites \cup Prints
  PROVE  Line(c) \in Seq(Nat) /\ c.bytes \in Seq(Nat)
<1>1. c.bytes \in Seq(Nat)
  BY CallFields
<1>2. NL \in Nat
  BY DEF NL
<1>. QED
  BY <1>1, <1>2 DEF Line

LEMMA StreamWriteType ==
  ASSUME NEW w \in Views, NEW c \in Calls, c.op \in StreamWrites, NEW o, o = Served(w, c)
  PROVE  /\ IsOutcome(o) /\ o.follow = "fseek" /\ o.sent = o.data
         /\ o.w = Fflush(Put(w, Line(c))) /\ o.offs = Ftell(o.w) /\ o.eof = o.w.st.eof
<1>1. PICK s \in Seq(Nat) : s = Line(c)
  BY LineType
<1>2. PICK p : p = Put(w, s)
  OBVIOUS
<1>3. p \in Views
  BY <1>2, PutType
<1>4. PICK v : v = Fflush(p)
  OBVIOUS
<1>5. v \in Views
  BY <1>3, <1>4, FflushCases
<1>6. PICK e : e = << >>
  OBVIOUS
<1>7. e \in Seq(Nat)
  BY <1>6, EmptySeq
<1>8. Begins(e, e)
  BY <1>7, LenProperties DEF Begins
<1>9. Len(s) \in Int
  BY LenProperties
<1>10. o = StreamCall(v, Len(s), e, e)
  <2>1. CASE c.op = "puts"
    BY <1>1, <1>2, <1>4, <1>6, <2>1, ServedOps DEF Puts, Line
  <2>2. CASE c.op # "puts"
    <3>1. s = c.bytes
      BY <1>1, <2>2 DEF Line
    <3>2. c.op \in {"fwrite", "fputc", "fputs"}
      BY <2>2 DEF StreamWrites
    <3>. QED
      BY <1>2, <1>4, <1>6, <3>1, <3>2, ServedOps DEF Fwrite, Fputc, Fputs
  <2>. QED
    BY <2>1, <2>2
<1>11. IsOutcome(o) /\ o.follow = "fseek"
  BY <1>5, <1>7, <1>8, <1>9, <1>10, StreamCallType
<1>12. o.w = v /\ o.offs = Ftell(v) /\ o.eof = v.st.eof /\ o.sent = o.data
  BY <1>10 DEF StreamCall
<1>. QED
  BY <1>1, <1>2, <1>4, <1>11, <1>12

LEMMA PrintType ==
  ASSUME NEW w \in Views, NEW c \in Calls, c.op \in Prints, NEW o, o = Served(w, c)
  PROVE  /\ IsOutcome(o) /\ o.follow = "none" /\ o.sent = o.data
         /\ o.w = Put(w, Line(c))
<1>1. PICK s \in Seq(Nat) : s = Line(c)
  BY LineType
<1>2. PICK p : p = Put(w, s)
  OBVIOUS
<1>3. p \in Views
  BY <1>2, PutType
<1>4. o = ResultCall(p, Len(s))
  <2>1. s = c.bytes
    BY <1>1 DEF Line, Prints
  <2>. QED
    BY <1>2, <2>1, ServedOps DEF Prints, Printf, PrintfChk
<1>5. Len(s) \in Int
  BY LenProperties
<1>6. IsOutcome(o) /\ o.follow = "none" /\ o.w = p
  BY <1>3, <1>4, <1>5, ResultCallType
<1>7. o.sent = o.data
  BY <1>4 DEF ResultCall
<1>. QED
  BY <1>1, <1>2, <1>6, <1>7

LEMMA FseekCallType ==
  ASSUME NEW w \in Views, NEW c \in Calls, c.op = "fseek", NEW o, o = Served(w, c)
  PROVE  /\ IsOutcome(o) /\ o.follow = "fseek" /\ o.sent = o.data /\ c.offs \in Nat
         /\ o.w = IF w.file.seeks THEN Fseek(w, c.offs) ELSE Fflush(w)
         /\ o.w.file = Fflush(w).file /\ o.offs = Ftell(o.w)
         /\ o.eof = IF w.file.seeks THEN o.w.st.eof ELSE FALSE
<1>1. PICK offs \in Nat : offs = c.offs
  BY CallFields
<1>2. PICK v : v = IF w.file.seeks THEN Fseek(w, offs) ELSE Fflush(w)
  OBVIOUS
<1>3. v \in Views /\ v.file = Fflush(w).file
  <2>1. PICK f : f = Fflush(w)
    OBVIOUS
  <2>2. f \in Views
    BY <2>1, FflushCases
  <2>3. PICK u : u = Fseek(w, offs)
    OBVIOUS
  <2>4. u \in Views /\ u.file = f.file
    BY <2>1, <2>3, FseekType
  <2>. QED
    BY <1>2, <2>1, <2>2, <2>3, <2>4
<1>4. PICK e : e = << >>
  OBVIOUS
<1>5. e \in Seq(Nat)
  BY <1>4, EmptySeq
<1>6. Begins(e, e)
  BY <1>5, LenProperties DEF Begins
<1>7. PICK ret \in Int : ret = IF w.file.seeks THEN 0 ELSE -1
  OBVIOUS
<1>8. PICK eof \in BOOLEAN : eof = IF w.file.seeks THEN v.st.eof ELSE FALSE
  BY <1>3, ViewType
<1>9. /\ o.w = v /\ o.ret = ret /\ o.data = e /\ o.sent = e /\ o.offs = Ftell(v)
      /\ o.eof = eof /\ o.follow = "fseek" /\ o.compare = TRUE
  <2>1. o = FseekCall(w, c)
    BY ServedOps
  <2>2. CASE w.file.seeks
    <3>1. o = StreamCall(v, 0, e, e)
      BY <1>1, <1>2, <1>4, <2>1, <2>2 DEF FseekCall
    <3>. QED
      BY <1>7, <1>8, <2>2, <3>1 DEF StreamCall
  <2>3. CASE ~w.file.seeks
    <3>1. o = [StreamCall(v, -1, e, e) EXCEPT !.eof = FALSE]
      BY <1>2, <1>4, <2>1, <2>3 DEF FseekCall
    <3>. QED
      BY <1>7, <1>8, <2>3, <3>1 DEF StreamCall
  <2>. QED
    BY <2>2, <2>3
<1>10. IsOutcome(o)
  <2>1. Ftell(v) \in Int /\ Ftell(v) >= -1
    BY <1>3, FtellType
  <2>. QED
    BY <1>3, <1>5, <1>6, <1>9, <2>1 DEF IsOutcome
<1>. QED
  BY <1>1, <1>2, <1>3, <1>8, <1>9, <1>10

LEMMA OpenedType ==
  ASSUME NEW f \in Files, NEW flags, NEW g, g = Opened(f, flags)
  PROVE  /\ g \in Files /\ g.exists /\ g.seeks = f.seeks
         /\ g.data = IF ~f.exists \/ "trunc" \in flags THEN << >> ELSE f.data
<1>1. PICK e \in Seq(Nat) : e = << >>
  BY EmptySeq
<1>2. PICK d : d = IF ~f.exists \/ "trunc" \in flags THEN e ELSE f.data
  OBVIOUS
<1>3. d \in Seq(Nat)
  BY <1>2 DEF Files
<1>4. g = [f EXCEPT !.exists = TRUE, !.data = d]
  BY <1>1, <1>2 DEF Opened
<1>5. g \in Files /\ g.exists = TRUE /\ g.seeks = f.seeks /\ g.data = d
  BY <1>3, <1>4 DEF Files
<1>. QED
  BY <1>1, <1>2, <1>5

\* Does the call open its stream for reading?
ForReading(c) == c.op = "fopen" /\ "read" \in c.flags

LEMMA OpenType ==
  ASSUME NEW w \in Views, NEW c \in Calls, c.op \in OpenOps, NEW o, o = Served(w, c)
  PROVE  /\ IsOutcome(o) /\ o.follow = "open" /\ o.sent = o.data
         /\ CanOpen(w.file, c.flags) =>
              /\ o.ret = 0 /\ o.w.file = Opened(w.file, c.flags) /\ o.w.pos = 0
              /\ o.w.st = FreshStream(ForReading(c))
              /\ o.w.file.exists /\ o.w.file.seeks = w.file.seeks
         /\ ~CanOpen(w.file, c.flags) => o.ret = -1 /\ o.w = w
<1>1. CASE CanOpen(w.file, c.flags)
  <2>1. PICK reads \in BOOLEAN : reads = ForReading(c)
    BY DEF ForReading
  <2>2. PICK st : st = FreshStream(reads)
    OBVIOUS
  <2>3. st \in Streams
    BY <2>2, FreshType
  <2>4. PICK f : f = Opened(w.file, c.flags)
    OBVIOUS
  <2>5. f \in Files /\ f.exists /\ f.seeks = w.file.seeks
    <3>1. w.file \in Files
      BY ViewType
    <3>. QED
      BY <2>4, <3>1, OpenedType
  <2>6. PICK v : v = [file |-> f, pos |-> 0, st |-> st]
    OBVIOUS
  <2>7. v \in Views /\ v.file = f /\ v.pos = 0 /\ v.st = st
    BY <2>3, <2>5, <2>6 DEF Views
  <2>8. o = OpenCall(v, 0)
    <3>1. CASE c.op = "open"
      BY <1>1, <2>1, <2>2, <2>4, <2>6, <3>1, ServedOps DEF Open, ForReading
    <3>2. CASE c.op = "fopen"
      BY <1>1, <2>1, <2>2, <2>4, <2>6, <3>2, ServedOps DEF Fopen, ForReading
    <3>. QED
      BY <3>1, <3>2 DEF OpenOps
  <2>9. IsOutcome(o) /\ o.w = v /\ o.ret = 0
    BY <2>7, <2>8, ResultCallType
  <2>10. o.follow = "open" /\ o.sent = o.data
    BY <2>8 DEF OpenCall, ResultCall
  <2>. QED
    BY <1>1, <2>1, <2>2, <2>4, <2>5, <2>7, <2>9, <2>10
<1>2. CASE ~CanOpen(w.file, c.flags)
  <2>1. o = OpenCall(w, -1)
    BY <1>2, ServedOps DEF Open, Fopen, OpenOps
  <2>2. IsOutcome(o) /\ o.w = w /\ o.ret = -1
    BY <2>1, ResultCallType
  <2>3. o.follow = "open" /\ o.sent = o.data
    BY <2>1 DEF OpenCall, ResultCall
  <2>. QED
    BY <1>2, <2>2, <2>3
<1>. QED
  BY <1>1, <1>2

LEMMA UnlinkType ==
  ASSUME NEW w \in Views, NEW c \in Calls, c.op = "unlink", NEW o, o = Served(w, c)
  PROVE  /\ IsOutcome(o) /\ o.follow = "none" /\ o.sent = o.data
         /\ o.w.st = w.st /\ o.w.pos = w.pos /\ o.w.file.seeks = w.file.seeks
         /\ o.w.file.data = << >>
<1>1. PICK e \in Seq(Nat) : e = << >>
  BY EmptySeq
<1>2. PICK f : f = [w.file EXCEPT !.exists = FALSE, !.data = e]
  OBVIOUS
<1>3. f \in Files /\ f.seeks = w.file.seeks /\ f.data = e
  BY <1>2, ViewType DEF Files
<1>4. PICK v : v = [w EXCEPT !.file = f]
  OBVIOUS
<1>5. v \in Views /\ v.file = f /\ v.pos = w.pos /\ v.st = w.st
  BY <1>3, <1>4 DEF Views
<1>6. PICK ret \in Int : ret = IF w.file.exists THEN 0 ELSE -1
  OBVIOUS
<1>7. o = ResultCall(v, ret)
  <2>1. [w EXCEPT !.file.exists = FALSE, !.file.data = << >>] = v
    BY <1>1, <1>2, <1>4
  <2>. QED
    BY <1>6, <2>1, ServedOps, ZenonT(30) DEF Unlink
<1>8. IsOutcome(o) /\ o.follow = "none" /\ o.w = v
  BY <1>5, <1>7, ResultCallType
<1>9. o.sent = o.data
  BY <1>7 DEF ResultCall
<1>. QED
  BY <1>1, <1>3, <1>5, <1>8, <1>9

\* The master's call is of the kind its name says.
LEMMA ServedType ==
  ASSUME NEW w \in Views, NEW c \in Calls, c.op \notin Locals, NEW o, o = Served(w, c)
  PROVE  /\ IsOutcome(o) /\ o.follow = FollowOf(c.op) /\ o.w.file.seeks = w.file.seeks
         /\ c.op \in OpenOps /\ o.ret = 0 => o.w.file.exists
         /\ c.op # "unlink" /\ w.file.exists => o.w.file.exists
<1>1. CASE c.op = "read"
  <2>1. PICK data : data = BytesAt(w.file.data, w.pos, c.n)
    OBVIOUS
  <2>2. o = Read(w, c)
    BY <1>1, ServedOps
  <2>3. IsOutcome(o) /\ o.follow = "lseek" /\ o.w.file = w.file
    BY <1>1, <2>1, <2>2, ReadType, ZenonT(30)
  <2>. QED
    BY <1>1, <2>3 DEF FollowOf, OpenOps
<1>2. CASE c.op = "write"
  <2>1. o = Write(w, c)
    BY <1>2, ServedOps
  <2>2. /\ IsOutcome(o) /\ o.follow = "lseek" /\ o.w.file.seeks = w.file.seeks
        /\ o.w.file.exists = w.file.exists
    BY <1>2, <2>1, WriteType, ZenonT(30)
  <2>. QED
    BY <1>2, <2>2 DEF FollowOf, OpenOps
<1>3. CASE c.op \in StreamReads
  BY <1>3, StreamReadType DEF FollowOf, OpenOps, StreamReads
<1>4. CASE c.op \in StreamWrites
  <2>1. IsOutcome(o) /\ o.follow = "fseek" /\ o.w = Fflush(Put(w, Line(c)))
    BY <1>4, StreamWriteType
  <2>2. o.w.file.seeks = w.file.seeks /\ o.w.file.exists = w.file.exists
    <3>1. PICK p : p = Put(w, Line(c))
      OBVIOUS
    <3>2. p \in Views /\ p.file = w.file
      BY <1>4, <3>1, LineType, PutType
    <3>3. o.w.file.seeks = p.file.seeks /\ o.w.file.exists = p.file.exists
      BY <2>1, <3>1, <3>2, FflushCases
    <3>. QED
      BY <3>2, <3>3
  <2>. QED
    BY <1>4, <2>1, <2>2 DEF FollowOf, OpenOps, StreamWrites
<1>5. CASE c.op \in Prints
  <2>1. IsOutcome(o) /\ o.follow = "none" /\ o.w.file = w.file
    BY <1>5, PrintType, LineType, PutType
  <2>. QED
    BY <1>5, <2>1 DEF FollowOf, OpenOps, Prints, StreamReads, StreamWrites
<1>6. CASE c.op = "fseek"
  <2>1. IsOutcome(o) /\ o.follow = "fseek" /\ o.w.file = Fflush(w).file
    BY <1>6, FseekCallType
  <2>2. Fflush(w).file.seeks = w.file.seeks /\ Fflush(w).file.exists = w.file.exists
    BY FflushCases
  <2>. QED
    BY <1>6, <2>1, <2>2 DEF FollowOf, OpenOps
<1>7. CASE c.op \in OpenOps
  <2>1. IsOutcome(o) /\ o.follow = "open"
    BY <1>7, OpenType
  <2>2. /\ o.w.file.seeks = w.file.seeks /\ (o.ret = 0 => o.w.file.exists)
        /\ w.file.exists => o.w.file.exists
    BY <1>7, OpenType
  <2>. QED
    BY <1>7, <2>1, <2>2 DEF FollowOf, OpenOps, StreamReads, StreamWrites
<1>8. CASE c.op = "unlink"
  BY <1>8, UnlinkType DEF FollowOf, OpenOps, StreamReads, StreamWrites
<1>. QED
  BY <1>1, <1>2, <1>3, <1>4, <1>5, <1>6, <1>7, <1>8, CallFields DEF Ops, Locals, OpenOps

-----------------------------------------------------------------------------
(* Replicas: what they are, and what helpers make of them.                 *)

Results == [ret : Int, data : Seq(Int)]
Tolds == [offs : Int, eof : BOOLEAN]
RepRecords ==
  [pc : PCs, results : Seq(Results), fds : SUBSET Nat, shmFd : Int, mapped : Nat,
   fd : Int, desc : Descs \cup {NoDesc}, stream : Streams, told : Tolds]

\* How many of the first k calls open the file.
OpensBefore(pr, k) == Cardinality({m \in DOMAIN pr.calls : m <= k /\ pr.calls[m].op \in OpenOps})

\* A replica whose program has opened its file no more than k times, when the
\* extra shared memory is size bytes: it has few descriptors, among them that of
\* the shared memory and that of the file, which are not the same.
RepOK(p, size, k) ==
  /\ p \in RepRecords
  /\ p.fds \subseteq 0 .. 2 + k + (IF p.shmFd = NoFd THEN 0 ELSE 1)
  /\ p.shmFd # NoFd => p.shmFd \in p.fds
  /\ p.fd # NoFd => p.fd \in p.fds /\ p.fd # p.shmFd
  /\ p.fd # NoFd <=> p.desc # NoDesc
  /\ p.mapped <= size

LEMMA RepFields ==
  ASSUME NEW p \in RepRecords
  PROVE  /\ p.pc \in PCs /\ p.results \in Seq(Results) /\ Len(p.results) \in Nat
         /\ p.fds \in SUBSET Nat /\ p.shmFd \in Int /\ p.mapped \in Nat /\ p.fd \in Int
         /\ p.desc \in Descs \cup {NoDesc} /\ p.stream \in Streams /\ p.told \in Tolds
BY LenProperties DEF RepRecords

\* Nobody has all eight descriptors that there are here.
LEMMA LowestFreeIs ==
  ASSUME NEW fds, NEW m \in Nat, fds \subseteq 0 .. m, m < 7
  PROVE  LowestFree(fds) \in 0 .. m + 1 /\ LowestFree(fds) \notin fds
<1>1. PICK free : free = 0 .. 7 \ fds
  OBVIOUS
<1>2. m + 1 \in free /\ free \in SUBSET Nat
  BY <1>1
<1>3. Least(free) \in free /\ Least(free) <= m + 1
  BY <1>2, LeastIsLeast
<1>4. LowestFree(fds) = Least(free)
  BY <1>1 DEF LowestFree
<1>. QED
  BY <1>1, <1>2, <1>3, <1>4

LEMMA WithShmFdOK ==
  ASSUME NEW p, NEW size \in Nat, NEW k \in Nat, RepOK(p, size, k), k <= MaxOpens,
         NEW q, q = WithShmFd(p)
  PROVE  /\ RepOK(q, size, k) /\ q.shmFd # NoFd
         /\ q.pc = p.pc /\ q.results = p.results /\ q.fd = p.fd /\ q.desc = p.desc
         /\ q.stream = p.stream /\ q.told = p.told /\ q.mapped = p.mapped
         /\ q.shmFd = WithShmFd(p).shmFd /\ q.fds = WithShmFd(p).fds
<1>1. p \in RepRecords
  BY DEF RepOK
<1>2. CASE p.shmFd # NoFd
  BY <1>2 DEF WithShmFd
<1>3. CASE p.shmFd = NoFd
  <2>1. PICK f : f = LowestFree(p.fds)
    OBVIOUS
  <2>2. p.fds \subseteq 0 .. 2 + k
    BY <1>3 DEF RepOK
  <2>3. 2 + k \in Nat /\ 2 + k < 7 /\ 2 + k + 1 = 3 + k
    BY DEF MaxOpens
  <2>4. f \in 0 .. 3 + k /\ f \notin p.fds
    BY <2>1, <2>2, <2>3, LowestFreeIs
  <2>5. q = [p EXCEPT !.shmFd = f, !.fds = p.fds \cup {f}]
    BY <1>3, <2>1 DEF WithShmFd
  <2>6. p.fds \cup {f} \in SUBSET Nat /\ f \in Int
    BY <1>1, <2>4, RepFields
  <2>7. /\ q \in RepRecords /\ q.shmFd = f /\ q.fds = p.fds \cup {f}
        /\ q.pc = p.pc /\ q.results = p.results /\ q.fd = p.fd /\ q.desc = p.desc
        /\ q.stream = p.stream /\ q.told = p.told /\ q.mapped = p.mapped
    BY <1>1, <2>5, <2>6 DEF RepRecords
  <2>8. f # NoFd
    BY <2>4 DEF NoFd
  <2>9. q.fds \subseteq 0 .. 2 + k + 1
    BY <2>2, <2>3, <2>4, <2>7
  <2>10. RepOK(q, size, k)
    BY <2>4, <2>7, <2>8, <2>9 DEF RepOK
  <2>. QED
    BY <1>3, <2>1, <2>7, <2>8, <2>10
<1>. QED
  BY <1>2, <1>3

LEMMA RefreshedOK ==
  ASSUME NEW p, NEW size \in Nat, NEW k \in Nat, RepOK(p, size, k), k <= MaxOpens,
         NEW q, q = Refreshed(p, size)
  PROVE  /\ RepOK(q, size, k) /\ q.shmFd # NoFd
         /\ q.pc = p.pc /\ q.results = p.results /\ q.fd = p.fd /\ q.desc = p.desc
         /\ q.stream = p.stream /\ q.told = p.told /\ q.mapped >= size
         /\ q.shmFd = WithShmFd(p).shmFd /\ q.fds = WithShmFd(p).fds
<1>1. PICK r : r = WithShmFd(p)
  OBVIOUS
<1>2. /\ RepOK(r, size, k) /\ r.shmFd # NoFd
      /\ r.pc = p.pc /\ r.results = p.results /\ r.fd = p.fd /\ r.desc = p.desc
      /\ r.stream = p.stream /\ r.told = p.told /\ r.mapped = p.mapped
      /\ r.shmFd = WithShmFd(p).shmFd /\ r.fds = WithShmFd(p).fds
  BY <1>1, WithShmFdOK
<1>3. r \in RepRecords /\ r.mapped \in Nat /\ r.mapped <= size
  BY <1>2, RepFields DEF RepOK
<1>4. PICK m : m = IF r.mapped < size THEN size ELSE r.mapped
  OBVIOUS
<1>5. m \in Nat /\ m >= size /\ m <= size
  BY <1>3, <1>4
<1>6. q = [r EXCEPT !.mapped = m]
  BY <1>1, <1>4 DEF Refreshed
<1>7. /\ q \in RepRecords /\ q.mapped = m /\ q.shmFd = r.shmFd /\ q.fds = r.fds
      /\ q.pc = r.pc /\ q.results = r.results /\ q.fd = r.fd /\ q.desc = r.desc
      /\ q.stream = r.stream /\ q.told = r.told
  BY <1>3, <1>5, <1>6 DEF RepRecords
<1>8. RepOK(q, size, k)
  BY <1>2, <1>5, <1>7 DEF RepOK
<1>. QED
  BY <1>2, <1>5, <1>7, <1>8

\* The descriptors once the lowest free one is taken.
WithLowest(fds) == fds \cup {LowestFree(fds)}

LEMMA WithFileOK ==
  ASSUME NEW p, NEW size \in Nat, NEW k \in Nat, RepOK(p, size, k), k < MaxOpens,
         NEW desc \in Descs, NEW stream \in Streams, NEW q, q = WithFile(p, desc, stream)
  PROVE  /\ RepOK(q, size, k + 1)
         /\ q.pc = p.pc /\ q.results = p.results /\ q.desc = desc /\ q.stream = stream
         /\ q.told = p.told /\ q.mapped = p.mapped /\ q.shmFd = p.shmFd
         /\ q.fd = LowestFree(p.fds) /\ q.fds = WithLowest(p.fds)
<1>1. p \in RepRecords
  BY DEF RepOK
<1>2. PICK f : f = LowestFree(p.fds)
  OBVIOUS
<1>3. PICK m \in Nat : m = 2 + k + (IF p.shmFd = NoFd THEN 0 ELSE 1)
  OBVIOUS
<1>4. p.fds \subseteq 0 .. m /\ m < 7
  BY <1>3 DEF RepOK, MaxOpens
<1>5. f \in 0 .. m + 1 /\ f \notin p.fds
  BY <1>2, <1>4, LowestFreeIs
<1>6. q = [p EXCEPT !.fd = f, !.fds = p.fds \cup {f}, !.desc = desc, !.stream = stream]
  BY <1>2 DEF WithFile
<1>7. f \in Int /\ f # NoFd /\ p.fds \cup {f} \in SUBSET Nat
  BY <1>1, <1>3, <1>5, RepFields DEF NoFd
<1>8. q \in RepRecords
  BY <1>1, <1>6, <1>7 DEF RepRecords
<1>9. /\ q.pc = p.pc /\ q.results = p.results /\ q.desc = desc /\ q.stream = stream
      /\ q.told = p.told /\ q.mapped = p.mapped /\ q.shmFd = p.shmFd
      /\ q.fd = f /\ q.fds = p.fds \cup {f}
  BY <1>1, <1>6 DEF RepRecords
<1>10. q.fds \subseteq 0 .. 2 + (k + 1) + (IF q.shmFd = NoFd THEN 0 ELSE 1)
  BY <1>3, <1>4, <1>5, <1>9
<1>11. q.shmFd # NoFd => q.shmFd \in q.fds /\ q.fd # q.shmFd
  BY <1>5, <1>9 DEF RepOK
<1>12. q.desc # NoDesc
  BY <1>9 DEF NoDesc, Descs, Replicas, Voters
<1>13. p.mapped <= size
  BY DEF RepOK
<1>14. f \in q.fds
  BY <1>9
<1>15. RepOK(q, size, k + 1)
  BY <1>7, <1>8, <1>9, <1>10, <1>11, <1>12, <1>13, <1>14 DEF RepOK
<1>16. q.fds = WithLowest(p.fds) /\ q.fd = LowestFree(p.fds)
  BY <1>2, <1>9 DEF WithLowest
<1>. QED
  BY <1>9, <1>15, <1>16

\* Append, for what only counts on the name.
Longer(s, x) == Append(s, x)

LEMMA ReturnedOK ==
  ASSUME NEW p, NEW size \in Nat, NEW k \in Nat, RepOK(p, size, k), NEW x \in Results,
         NEW q, q = Returned(p, x.ret, x.data)
  PROVE  /\ RepOK(q, size, k) /\ q.results = Longer(p.results, x)
         /\ Len(q.results) = Len(p.results) + 1
         /\ q.pc = p.pc /\ q.fds = p.fds /\ q.shmFd = p.shmFd /\ q.mapped = p.mapped
         /\ q.fd = p.fd /\ q.desc = p.desc /\ q.stream = p.stream /\ q.told = p.told
<1>1. p \in RepRecords /\ p.results \in Seq(Results)
  BY RepFields DEF RepOK
<1>2. x = [ret |-> x.ret, data |-> x.data]
  BY DEF Results
<1>3. PICK s : s = Append(p.results, x)
  OBVIOUS
<1>4. s \in Seq(Results) /\ Len(s) = Len(p.results) + 1
  BY <1>1, <1>3
<1>5. q = [p EXCEPT !.results = s]
  BY <1>2, <1>3 DEF Returned
<1>6. /\ q \in RepRecords /\ q.results = s
      /\ q.pc = p.pc /\ q.fds = p.fds /\ q.shmFd = p.shmFd /\ q.mapped = p.mapped
      /\ q.fd = p.fd /\ q.desc = p.desc /\ q.stream = p.stream /\ q.told = p.told
  BY <1>1, <1>4, <1>5 DEF RepRecords
<1>7. RepOK(q, size, k)
  BY <1>6 DEF RepOK
<1>. QED
  BY <1>3, <1>4, <1>6, <1>7 DEF Longer

\* Going on to another place, and another stream, changes nothing else.
At(p, pc, stream) == [p EXCEPT !.pc = pc, !.stream = stream]

LEMMA MovedOK ==
  ASSUME NEW p, NEW size \in Nat, NEW k \in Nat, RepOK(p, size, k),
         NEW pc \in PCs, NEW stream \in Streams, NEW q, q = At(p, pc, stream)
  PROVE  /\ RepOK(q, size, k) /\ q.pc = pc /\ q.stream = stream
         /\ q.results = p.results /\ q.fds = p.fds /\ q.shmFd = p.shmFd
         /\ q.mapped = p.mapped /\ q.fd = p.fd /\ q.desc = p.desc /\ q.told = p.told
<1>1. p \in RepRecords
  BY DEF RepOK
<1>2. q \in RepRecords
  BY <1>1 DEF RepRecords, At
<1>3. /\ q.pc = pc /\ q.stream = stream
      /\ q.results = p.results /\ q.fds = p.fds /\ q.shmFd = p.shmFd
      /\ q.mapped = p.mapped /\ q.fd = p.fd /\ q.desc = p.desc /\ q.told = p.told
  BY <1>1 DEF RepRecords, At
<1>4. RepOK(q, size, k)
  BY <1>2, <1>3 DEF RepOK
<1>. QED
  BY <1>3, <1>4

\* The ways the actions say that.
LEMMA AtIs ==
  ASSUME NEW p \in RepRecords, NEW pc, NEW stream
  PROVE  /\ [p EXCEPT !.pc = pc] = At(p, pc, p.stream)
         /\ [p EXCEPT !.stream = stream] = At(p, p.pc, stream)
         /\ [p EXCEPT !.stream = stream, !.pc = pc] = At(p, pc, stream)
         /\ [p EXCEPT !.pc = pc, !.stream = stream] = At(p, pc, stream)
BY DEF At, RepRecords

\* There is a description that no other replica has.
LEMMA FreshDescIs ==
  ASSUME NEW r, NEW i \in Replicas
  PROVE  FreshDesc(r, i) \in Descs /\ \A j \in Replicas \ {i} : r[j].desc # FreshDesc(r, i)
<1>1. \E d \in Descs : \A j \in Replicas \ {i} : r[j].desc # d
  <2>1. PICK a, b : \A j \in Replicas \ {i} : r[j].desc = a \/ r[j].desc = b
    <3>1. CASE i = 0
      <4>1. \A j \in Replicas \ {i} : r[j].desc = r[1].desc \/ r[j].desc = r[2].desc
        BY <3>1 DEF Replicas, Voters
      <4>. QED
        BY <4>1
    <3>2. CASE i = 1
      <4>1. \A j \in Replicas \ {i} : r[j].desc = r[0].desc \/ r[j].desc = r[2].desc
        BY <3>2 DEF Replicas, Voters
      <4>. QED
        BY <4>1
    <3>3. CASE i = 2
      <4>1. \A j \in Replicas \ {i} : r[j].desc = r[0].desc \/ r[j].desc = r[1].desc
        BY <3>3 DEF Replicas, Voters
      <4>. QED
        BY <4>1
    <3>. QED
      BY <3>1, <3>2, <3>3 DEF Replicas, Voters
  <2>2. \E d \in 0 .. 2 : d # a /\ d # b
    OBVIOUS
  <2>. QED
    BY <2>1, <2>2 DEF Descs, Replicas, Voters
<1>. QED
  BY <1>1 DEF FreshDesc

\* A view of the file by a replica of any group.
LEMMA ViewIs ==
  ASSUME file \in Files, pos \in [Descs -> Nat], NEW r, NEW i,
         r[i].desc \in Descs \cup {NoDesc}, r[i].stream \in Streams, NEW w, w = View(r, i)
  PROVE  /\ w \in Views /\ w.file = file /\ w.st = r[i].stream
         /\ w.pos = IF r[i].desc = NoDesc THEN 0 ELSE pos[r[i].desc]
<1>1. PICK n : n = IF r[i].desc = NoDesc THEN 0 ELSE pos[r[i].desc]
  OBVIOUS
<1>2. n \in Nat
  BY <1>1
<1>3. w = [file |-> file, st |-> r[i].stream, pos |-> n]
  BY <1>1 DEF View
<1>. QED
  BY <1>1, <1>2, <1>3 DEF Views

-----------------------------------------------------------------------------
(* The type invariant, inductive.                                          *)

ShmOK(s) ==
  /\ s.ret \in Int /\ s.sent \in Seq(Nat) /\ s.len \in Nat
  /\ s.offs \in Int /\ s.offs >= -1 /\ s.eof \in BOOLEAN
  /\ s.follow \in {"none", "lseek", "fseek", "open"}
  /\ s.compare = (s.follow = "fseek")

\* Where a replica is fits the call it is making: it has one, which the replicas
\* make for themselves or the master makes; what the slaves do is of its kind, and
\* its result is in the extra shared memory.
PlaceOK(pr, p, s, size) ==
  /\ Len(p.results) <= Len(pr.calls)
  /\ p.pc \in {"copy", "own"} => Len(p.results) < Len(pr.calls)
  /\ p.pc = "own" => pr.calls[Len(p.results) + 1].op \in Locals
  /\ p.pc = "copy" =>
       /\ pr.calls[Len(p.results) + 1].op \notin Locals
       /\ s.follow = FollowOf(pr.calls[Len(p.results) + 1].op)
       /\ size >= 1 + Len(s.sent)
  /\ p.pc \in {"fill", "probe", "tell", "exit"} => s.follow = "fseek"
  /\ p.pc = "fill" => s.offs >= 0

ReplicaOK(pr, p, s, size) ==
  RepOK(p, size, OpensBefore(pr, Len(p.results))) /\ PlaceOK(pr, p, s, size)

TypeInv ==
  /\ prog \in Programs /\ file \in Files /\ pos \in [Descs -> Nat]
  /\ extraShmSize \in Nat /\ deaths \in 0 .. prog.deaths /\ ShmOK(shm)
  /\ rep \in [Replicas -> RepRecords]
  /\ \A i \in Replicas : ReplicaOK(prog, rep[i], shm, extraShmSize)

LEMMA ProgramType ==
  ASSUME NEW pr \in Programs
  PROVE  /\ pr.file \in Files /\ pr.std \in {"in", "out", "none"} /\ pr.calls \in Seq(Calls)
         /\ pr.deaths \in Nat /\ Len(pr.calls) \in Nat /\ DOMAIN pr.calls = 1 .. Len(pr.calls)
         /\ \A k \in 1 .. Len(pr.calls) : pr.calls[k] \in Calls
         /\ Cardinality({k \in DOMAIN pr.calls : pr.calls[k].op \in OpenOps}) <= MaxOpens
<1>1. pr \in [file : Files, std : {"in", "out", "none"}, calls : Seq(Calls), deaths : Nat]
  BY ProgramsAssumption
<1>2. pr.calls \in Seq(Calls)
  BY <1>1
<1>. QED
  BY <1>1, <1>2, LenProperties, ElementOfSeq, ProgramsAssumption

\* One more call is at most one more that opens the file.
LEMMA OpensGrow ==
  ASSUME NEW pr \in Programs, NEW k \in Nat
  PROVE  /\ OpensBefore(pr, k) \in Nat /\ OpensBefore(pr, k) <= MaxOpens
         /\ OpensBefore(pr, k) <= OpensBefore(pr, k + 1)
         /\ k + 1 <= Len(pr.calls) /\ pr.calls[k + 1].op \in OpenOps
              => OpensBefore(pr, k + 1) = OpensBefore(pr, k) + 1
<1> DEFINE opens == {m \in DOMAIN pr.calls : pr.calls[m].op \in OpenOps}
           O(n) == {m \in DOMAIN pr.calls : m <= n /\ pr.calls[m].op \in OpenOps}
<1>1. DOMAIN pr.calls = 1 .. Len(pr.calls) /\ Len(pr.calls) \in Nat
      /\ Cardinality(opens) <= MaxOpens
  BY ProgramType
<1>2. IsFiniteSet(1 .. Len(pr.calls))
  <2>1. 1 \in Int /\ Len(pr.calls) \in Int
    BY <1>1
  <2>. QED
    BY <2>1, FS_Interval, Zenon
<1>3. opens \subseteq 1 .. Len(pr.calls)
  BY <1>1
<1>4. IsFiniteSet(opens)
  BY <1>2, <1>3, FS_Subset
<1>5. O(k) \subseteq opens /\ O(k + 1) \subseteq opens /\ O(k) \subseteq O(k + 1)
  BY <1>1
<1>6. IsFiniteSet(O(k)) /\ IsFiniteSet(O(k + 1))
  BY <1>4, <1>5, FS_Subset
<1>7. /\ Cardinality(O(k)) \in Nat /\ Cardinality(opens) \in Nat
      /\ Cardinality(O(k + 1)) \in Nat
  BY <1>4, <1>6, FS_CardinalityType
<1>8. Cardinality(O(k)) <= Cardinality(opens) /\ Cardinality(O(k)) <= Cardinality(O(k + 1))
  BY <1>4, <1>5, <1>6, FS_Subset
<1>9. ASSUME k + 1 <= Len(pr.calls), pr.calls[k + 1].op \in OpenOps
      PROVE  Cardinality(O(k + 1)) = Cardinality(O(k)) + 1
  <2>1. O(k + 1) = O(k) \cup {k + 1} /\ k + 1 \notin O(k)
    BY <1>1, <1>9
  <2> HIDE DEF O
  <2>. QED
    BY <1>6, <2>1, FS_AddElement
<1>10. OpensBefore(pr, k) = Cardinality(O(k)) /\ OpensBefore(pr, k + 1) = Cardinality(O(k + 1))
  BY DEF OpensBefore
<1> HIDE DEF opens, O
<1>. QED
  BY <1>1, <1>7, <1>8, <1>9, <1>10 DEF MaxOpens

LEMMA RepOKMonotone ==
  ASSUME NEW p, NEW size0 \in Nat, NEW size \in Nat, size0 <= size,
         NEW k0 \in Nat, NEW k \in Nat, k0 <= k, RepOK(p, size0, k0)
  PROVE  RepOK(p, size, k)
<1>1. p \in RepRecords /\ p.mapped \in Nat
  BY RepFields DEF RepOK
<1>2. PICK e \in {0, 1} : e = IF p.shmFd = NoFd THEN 0 ELSE 1
  OBVIOUS
<1>3. p.fds \subseteq 0 .. 2 + k0 + e
  BY <1>2 DEF RepOK
<1>4. p.fds \subseteq 0 .. 2 + k + e
  BY <1>3
<1>. QED
  BY <1>1, <1>2, <1>4 DEF RepOK

LEMMA CopyOfOK ==
  ASSUME NEW p, NEW size \in Nat, NEW k \in Nat, RepOK(p, size, k), NEW q, q = CopyOf(p)
  PROVE  /\ RepOK(q, size, k)
         /\ q.pc = p.pc /\ q.results = p.results /\ q.fds = p.fds /\ q.shmFd = p.shmFd
         /\ q.fd = p.fd /\ q.desc = p.desc /\ q.stream = p.stream /\ q.told = p.told
<1>1. p \in RepRecords
  BY DEF RepOK
<1>2. q = [p EXCEPT !.mapped = 0]
  BY DEF CopyOf
<1>3. /\ q \in RepRecords /\ q.mapped = 0
      /\ q.pc = p.pc /\ q.results = p.results /\ q.fds = p.fds /\ q.shmFd = p.shmFd
      /\ q.fd = p.fd /\ q.desc = p.desc /\ q.stream = p.stream /\ q.told = p.told
  BY <1>1, <1>2 DEF RepRecords
<1>. QED
  BY <1>3 DEF RepOK

\* Once what was gone is replaced, everybody is where the barrier is.
LEMMA RestoredOK ==
  ASSUME TypeInv, NEW src, NEW pc, Arrived(src, pc), NEW r, r = Restored(src)
  PROVE  /\ src \in Replicas /\ src \in Alive /\ rep[src].pc = pc /\ pc \notin Gone
         /\ \A i \in Replicas :
              /\ r[i].pc = pc /\ ReplicaOK(prog, r[i], shm, extraShmSize)
              /\ \E j \in Alive :
                   /\ rep[j].pc = pc /\ r[i].results = rep[j].results
                   /\ r[i].fds = rep[j].fds /\ r[i].shmFd = rep[j].shmFd
                   /\ r[i].fd = rep[j].fd /\ r[i].desc = rep[j].desc
                   /\ r[i].stream = rep[j].stream /\ r[i].told = rep[j].told
<1>1. src \in Alive /\ src \in Replicas /\ rep[src].pc = pc /\ pc \notin Gone
  BY DEF Arrived, Alive
<1>2. ASSUME NEW i \in Replicas
      PROVE  /\ r[i].pc = pc /\ ReplicaOK(prog, r[i], shm, extraShmSize)
             /\ \E j \in Alive :
                  /\ rep[j].pc = pc /\ r[i].results = rep[j].results
                  /\ r[i].fds = rep[j].fds /\ r[i].shmFd = rep[j].shmFd
                  /\ r[i].fd = rep[j].fd /\ r[i].desc = rep[j].desc
                  /\ r[i].stream = rep[j].stream /\ r[i].told = rep[j].told
  <2>1. CASE i \in Alive
    <3>1. r[i] = rep[i] /\ rep[i].pc = pc
      BY <1>2, <2>1 DEF Restored, Arrived
    <3>. QED
      BY <2>1, <3>1 DEF TypeInv
  <2>2. CASE i \notin Alive
    <3>1. r[i] = CopyOf(rep[src])
      BY <1>2, <2>2 DEF Restored
    <3>2. ReplicaOK(prog, rep[src], shm, extraShmSize) /\ prog \in Programs
          /\ extraShmSize \in Nat
      BY <1>1 DEF TypeInv
    <3>3. PICK k \in Nat : k = OpensBefore(prog, Len(rep[src].results))
      <4>1. Len(rep[src].results) \in Nat
        BY <3>2, RepFields DEF ReplicaOK, RepOK
      <4>. QED
        BY <3>2, <4>1, OpensGrow
    <3>4. RepOK(rep[src], extraShmSize, k)
      BY <3>2, <3>3 DEF ReplicaOK
    <3>5. /\ RepOK(r[i], extraShmSize, k)
          /\ r[i].pc = rep[src].pc /\ r[i].results = rep[src].results
          /\ r[i].fds = rep[src].fds /\ r[i].shmFd = rep[src].shmFd
          /\ r[i].fd = rep[src].fd /\ r[i].desc = rep[src].desc
          /\ r[i].stream = rep[src].stream /\ r[i].told = rep[src].told
      BY <3>1, <3>2, <3>4, CopyOfOK
    <3>6. PlaceOK(prog, r[i], shm, extraShmSize)
      <4>1. PlaceOK(prog, rep[src], shm, extraShmSize)
        BY <3>2 DEF ReplicaOK
      <4>. QED
        BY <3>5, <4>1 DEF PlaceOK
    <3>. QED
      BY <1>1, <3>3, <3>5, <3>6 DEF ReplicaOK
  <2>. QED
    BY <2>1, <2>2
<1>. QED
  BY <1>1, <1>2

\* What the invariant says of one replica.
LEMMA ReplicaFacts ==
  ASSUME TypeInv, NEW i \in Replicas, NEW p, p = rep[i]
  PROVE  /\ p \in RepRecords /\ PlaceOK(prog, p, shm, extraShmSize) /\ extraShmSize \in Nat
         /\ prog \in Programs /\ Len(p.results) \in Nat /\ p.pc \in PCs
         /\ p.desc \in Descs \cup {NoDesc} /\ p.stream \in Streams
         /\ OpensBefore(prog, Len(p.results)) \in Nat
         /\ OpensBefore(prog, Len(p.results)) <= MaxOpens
         /\ RepOK(p, extraShmSize, OpensBefore(prog, Len(p.results)))
         /\ View(rep, i) \in Views /\ View(rep, i).file = file /\ View(rep, i).st = p.stream
         /\ View(rep, i).pos = IF p.desc = NoDesc THEN 0 ELSE pos[p.desc]
<1>1. /\ ReplicaOK(prog, p, shm, extraShmSize) /\ prog \in Programs /\ extraShmSize \in Nat
      /\ file \in Files /\ pos \in [Descs -> Nat] /\ p \in RepRecords
  BY DEF TypeInv
<1>2. Len(p.results) \in Nat /\ p.desc \in Descs \cup {NoDesc} /\ p.stream \in Streams
      /\ p.pc \in PCs
  BY <1>1, RepFields
<1>3. /\ OpensBefore(prog, Len(p.results)) \in Nat
      /\ OpensBefore(prog, Len(p.results)) <= MaxOpens
  BY <1>1, <1>2, OpensGrow
<1>4. PICK w : w = View(rep, i)
  OBVIOUS
<1>5. /\ w \in Views /\ w.file = file /\ w.st = p.stream
      /\ w.pos = IF p.desc = NoDesc THEN 0 ELSE pos[p.desc]
  BY <1>1, <1>2, <1>4, ViewIs
<1>. QED
  BY <1>1, <1>2, <1>3, <1>4, <1>5 DEF ReplicaOK

\* How many results a replica will have once the call it is making is over, and
\* that those that live are making the same one.
Due(p) == Len(p.results) + (IF p.pc \in {"own", "copy"} THEN 1 ELSE 0)
InStep(r) ==
  \A i, j \in Replicas :
    r[i].pc \notin Gone /\ r[j].pc \notin Gone => Due(r[i]) = Due(r[j])

LEMMA DueIs ==
  ASSUME NEW p, NEW q, p.pc \in {"own", "copy"}, q.pc \notin {"own", "copy"},
         Len(q.results) = Len(p.results) + 1, Len(p.results) \in Nat
  PROVE  Due(q) = Due(p)
BY DEF Due

\* A step of replica i only, which gets it no further than the call it is making;
\* when it has copied the call's result, its mapping is up to date.
StepOf(i) ==
  /\ \A j \in Replicas \ {i} : rep'[j] = rep[j]
  /\ rep'[i].pc \in Gone \/ (rep[i].pc \notin Gone /\ Due(rep'[i]) = Due(rep[i]))
  /\ rep[i].pc = "copy" => rep'[i].pc \in Gone \/ rep'[i].mapped >= extraShmSize

\* Such a step keeps the invariant when it leaves the replica well.
LEMMA OneReplica ==
  ASSUME TypeInv, NEW i \in Replicas, NEW q, ReplicaOK(prog, q, shm, extraShmSize),
         rep' = [rep EXCEPT ![i] = q], prog' = prog, shm' = shm,
         extraShmSize' = extraShmSize, deaths' \in 0 .. prog.deaths,
         file' \in Files, pos' \in [Descs -> Nat],
         q.pc \in Gone \/ (rep[i].pc \notin Gone /\ Due(q) = Due(rep[i])),
         rep[i].pc = "copy" => q.pc \in Gone \/ q.mapped >= extraShmSize
  PROVE  TypeInv' /\ StepOf(i)
<1>1. /\ rep \in [Replicas -> RepRecords] /\ prog \in Programs /\ extraShmSize \in Nat
      /\ ShmOK(shm) /\ \A j \in Replicas : ReplicaOK(prog, rep[j], shm, extraShmSize)
  BY DEF TypeInv
<1>2. q \in RepRecords
  BY DEF ReplicaOK, RepOK
<1>3. rep' \in [Replicas -> RepRecords]
  BY <1>1, <1>2
<1>4. \A j \in Replicas : rep'[j] = IF j = i THEN q ELSE rep[j]
  BY <1>1
<1>5. \A j \in Replicas : ReplicaOK(prog', rep'[j], shm', extraShmSize')
  BY <1>1, <1>4
<1>6. TypeInv'
  BY <1>1, <1>3, <1>5 DEF TypeInv
<1>7. StepOf(i)
  BY <1>4 DEF StepOf
<1>. QED
  BY <1>6, <1>7

\* A process brings its mapping up to date, and its call returns.
LEMMA RefreshedReturns ==
  ASSUME NEW p, NEW size \in Nat, NEW k \in Nat, RepOK(p, size, k), k <= MaxOpens,
         NEW x \in Results, NEW q, q = Returned(Refreshed(p, size), x.ret, x.data)
  PROVE  /\ RepOK(q, size, k) /\ q.results = Longer(p.results, x)
         /\ Len(q.results) = Len(p.results) + 1
         /\ q.fd = p.fd /\ q.desc = p.desc /\ q.stream = p.stream /\ q.told = p.told
         /\ q.mapped >= size /\ q.shmFd # NoFd /\ q.pc = p.pc
         /\ q.shmFd = WithShmFd(p).shmFd /\ q.fds = WithShmFd(p).fds
<1>1. PICK r : r = Refreshed(p, size)
  OBVIOUS
<1>2. /\ RepOK(r, size, k) /\ r.shmFd # NoFd
      /\ r.pc = p.pc /\ r.results = p.results /\ r.fd = p.fd /\ r.desc = p.desc
      /\ r.stream = p.stream /\ r.told = p.told /\ r.mapped >= size
      /\ r.shmFd = WithShmFd(p).shmFd /\ r.fds = WithShmFd(p).fds
  BY <1>1, RefreshedOK
<1>3. q = Returned(r, x.ret, x.data)
  BY <1>1
<1>4. /\ RepOK(q, size, k) /\ q.results = Longer(r.results, x)
      /\ Len(q.results) = Len(r.results) + 1
      /\ q.pc = r.pc /\ q.fds = r.fds /\ q.shmFd = r.shmFd /\ q.mapped = r.mapped
      /\ q.fd = r.fd /\ q.desc = r.desc /\ q.stream = r.stream /\ q.told = r.told
  <2>1. RepOK(r, size, k)
    BY <1>2
  <2>. QED
    BY <1>3, <2>1, ReturnedOK
<1>. QED
  BY <1>2, <1>4

\* What the slave of a call that is being copied gets.
LEMMA CopiedOK ==
  ASSUME TypeInv, NEW i \in Replicas, rep[i].pc = "copy", NEW p, p = rep[i],
         NEW q, q = Copied(p)
  PROVE  /\ RepOK(q, extraShmSize, OpensBefore(prog, Len(p.results)))
         /\ Len(q.results) = Len(p.results) + 1 /\ Len(q.results) <= Len(prog.calls)
         /\ q.results = Longer(p.results,
              [ret |-> shm.ret,
               data |-> [j \in 1 .. shm.len |->
                           IF j <= Len(shm.sent) THEN shm.sent[j] ELSE Stale]])
         /\ q.fd = p.fd /\ q.desc = p.desc /\ q.stream = p.stream /\ q.told = p.told
         /\ q.mapped >= extraShmSize /\ q.shmFd # NoFd /\ q.pc = "copy"
         /\ q.shmFd = WithShmFd(p).shmFd /\ q.fds = WithShmFd(p).fds
         /\ RepOK(q, extraShmSize, OpensBefore(prog, Len(q.results)))
<1>1. /\ p \in RepRecords /\ PlaceOK(prog, p, shm, extraShmSize) /\ prog \in Programs
      /\ Len(p.results) \in Nat
      /\ \E size \in Nat, k \in Nat :
           /\ size = extraShmSize /\ k = OpensBefore(prog, Len(p.results))
           /\ k <= MaxOpens /\ RepOK(p, size, k)
  BY ReplicaFacts
<1>2. PICK size \in Nat, k \in Nat :
             /\ size = extraShmSize /\ k = OpensBefore(prog, Len(p.results))
             /\ k <= MaxOpens /\ RepOK(p, size, k)
  BY <1>1
<1>3. PICK x : x = [ret |-> shm.ret,
                    data |-> [j \in 1 .. shm.len |->
                                IF j <= Len(shm.sent) THEN shm.sent[j] ELSE Stale]]
  OBVIOUS
<1>4. x \in Results
  <2>1. shm.sent \in Seq(Nat) /\ shm.len \in Nat /\ shm.ret \in Int
    BY DEF TypeInv, ShmOK
  <2>2. \A j \in 1 .. shm.len : j <= Len(shm.sent) => shm.sent[j] \in Int
    BY <2>1, LenProperties, ElementOfSeq
  <2>3. Stale \in Int
    BY DEF Stale
  <2>4. \A j \in 1 .. shm.len :
          (IF j <= Len(shm.sent) THEN shm.sent[j] ELSE Stale) \in Int
    BY <2>2, <2>3
  <2>5. x.data \in [1 .. shm.len -> Int]
    BY <1>3, <2>4
  <2>6. x.data \in Seq(Int)
    BY <2>1, <2>5, SMTT(30)
  <2>. QED
    BY <1>3, <2>1, <2>6 DEF Results
<1>5. q = Returned(Refreshed(p, size), x.ret, x.data)
  BY <1>2, <1>3 DEF Copied, CopiedWith
<1>6. /\ RepOK(q, size, k) /\ q.results = Longer(p.results, x)
      /\ Len(q.results) = Len(p.results) + 1
      /\ q.fd = p.fd /\ q.desc = p.desc /\ q.stream = p.stream /\ q.told = p.told
      /\ q.mapped >= size /\ q.shmFd # NoFd /\ q.pc = p.pc
      /\ q.shmFd = WithShmFd(p).shmFd /\ q.fds = WithShmFd(p).fds
  <2>1. RepOK(p, size, k) /\ k <= MaxOpens
    BY <1>2
  <2>. QED
    BY <1>4, <1>5, <2>1, RefreshedReturns
<1>7. Len(q.results) = Len(p.results) + 1 /\ Len(q.results) <= Len(prog.calls)
  <2>1. Len(p.results) < Len(prog.calls) /\ Len(prog.calls) \in Nat
    BY <1>1, ProgramType DEF PlaceOK
  <2>. QED
    BY <1>1, <1>6, <2>1
<1>8. RepOK(q, extraShmSize, OpensBefore(prog, Len(q.results)))
  <2>1. /\ OpensBefore(prog, Len(p.results) + 1) \in Nat
        /\ OpensBefore(prog, Len(p.results)) <= OpensBefore(prog, Len(p.results) + 1)
    <3>1. Len(p.results) \in Nat /\ Len(p.results) + 1 \in Nat /\ prog \in Programs
      BY <1>1
    <3>. QED
      BY <3>1, OpensGrow
  <2>. QED
    BY <1>1, <1>2, <1>6, <1>7, <2>1, RepOKMonotone
<1>. QED
  BY <1>1, <1>2, <1>3, <1>6, <1>7, <1>8

\* The state at the start.
LEMMA TypeInit == Init => TypeInv
<1>1. SUFFICES ASSUME Init
               PROVE  TypeInv
  OBVIOUS
<1>2. prog \in Programs /\ file = prog.file /\ extraShmSize = 0 /\ deaths = 0 /\ shm = Nothing
      /\ pos = [d \in Descs |-> 0]
  BY <1>1 DEF Init
<1>3. prog.file \in Files /\ prog.std \in {"in", "out", "none"} /\ prog.deaths \in Nat
      /\ Len(prog.calls) \in Nat
  BY <1>2, ProgramType
<1>4. pos \in [Descs -> Nat]
  BY <1>2
<1>5. ShmOK(shm)
  <2>1. << >> \in Seq(Nat)
    BY EmptySeq
  <2>2. /\ shm.ret = 0 /\ shm.sent = << >> /\ shm.len = 0 /\ shm.offs = 0
        /\ shm.eof = FALSE /\ shm.follow = "none" /\ shm.compare = FALSE
    BY <1>2 DEF Nothing
  <2>3. shm.sent \in Seq(Nat)
    BY <2>1, <2>2
  <2>4. shm.eof \in BOOLEAN /\ shm.compare = (shm.follow = "fseek")
    BY <2>2
  <2>5. shm.ret \in Int /\ shm.len \in Nat /\ shm.offs \in Int /\ shm.offs >= -1
        /\ shm.follow \in {"none", "lseek", "fseek", "open"}
    BY <2>2
  <2>. QED
    BY <2>3, <2>4, <2>5 DEF ShmOK
<1>6. PICK fd : fd = CASE prog.std = "in" -> 0 [] prog.std = "out" -> 1
                       [] prog.std = "none" -> NoFd
  OBVIOUS
<1>7. PICK desc : desc = IF prog.std = "none" THEN NoDesc ELSE 0
  OBVIOUS
<1>8. PICK st : st = FreshStream(prog.std = "in")
  OBVIOUS
<1>9. st \in Streams
  BY <1>8, FreshType
<1>10. /\ fd \in Int /\ desc \in Descs \cup {NoDesc} /\ fd # NoFd <=> desc # NoDesc
       /\ fd # NoFd => fd \in 0 .. 2
  BY <1>3, <1>6, <1>7 DEF NoFd, NoDesc, Descs, Replicas, Voters
<1>11. PICK told : told = [offs |-> 0, eof |-> FALSE]
  OBVIOUS
<1>12. told \in Tolds
  BY <1>11 DEF Tolds
<1>13. PICK none \in Seq(Results) : none = << >> /\ Len(none) = 0
  <2>1. << >> \in Seq(Results) /\ Len(<< >>) = 0
    BY EmptySeq
  <2>. QED
    BY <2>1
<1>14. PICK p : p = [pc |-> "call", results |-> none, fds |-> 0 .. 2, shmFd |-> NoFd,
                     mapped |-> 0, fd |-> fd, desc |-> desc, stream |-> st, told |-> told]
  OBVIOUS
<1>15. rep = [i \in Replicas |-> p]
  BY <1>1, <1>6, <1>7, <1>8, <1>11, <1>13, <1>14 DEF Init
<1>16. p \in RepRecords
  BY <1>9, <1>10, <1>12, <1>14 DEF RepRecords, PCs, NoFd
<1>17. /\ p.pc = "call" /\ p.results = none /\ p.fds = 0 .. 2 /\ p.shmFd = NoFd
       /\ p.mapped = 0 /\ p.fd = fd /\ p.desc = desc
  BY <1>14
<1>18. OpensBefore(prog, 0) \in Nat
  BY <1>2, OpensGrow
<1>19. RepOK(p, 0, OpensBefore(prog, 0))
  <2>1. p.fds \subseteq 0 .. 2 + OpensBefore(prog, 0) + 0
    BY <1>17, <1>18
  <2>. QED
    BY <1>10, <1>16, <1>17, <2>1 DEF RepOK, NoFd
<1>20. PlaceOK(prog, p, shm, 0)
  BY <1>3, <1>13, <1>17 DEF PlaceOK
<1>21. ReplicaOK(prog, p, shm, 0)
  BY <1>13, <1>17, <1>19, <1>20 DEF ReplicaOK
<1>22. rep \in [Replicas -> RepRecords] /\ \A i \in Replicas : rep[i] = p
  BY <1>15, <1>16
<1>. QED
  BY <1>2, <1>3, <1>4, <1>5, <1>21, <1>22 DEF TypeInv

\* A replica that is nowhere in particular of a call is as the invariant wants it.
LEMMA Placed ==
  ASSUME NEW pr, NEW p, NEW s, NEW size,
         RepOK(p, size, OpensBefore(pr, Len(p.results))), Len(p.results) <= Len(pr.calls),
         p.pc \in {"call", "end", "dead", "failed"}
  PROVE  ReplicaOK(pr, p, s, size)
BY DEF ReplicaOK, PlaceOK

\* The slave that has copied, on its way.
LEMMA CopiedGoes ==
  ASSUME TypeInv, NEW i \in Replicas, rep[i].pc = "copy", NEW c, c = Copied(rep[i]),
         NEW pc \in PCs, NEW stream \in Streams, NEW q, q = At(c, pc, stream)
  PROVE  /\ RepOK(q, extraShmSize, OpensBefore(prog, Len(q.results)))
         /\ Len(q.results) <= Len(prog.calls) /\ q.pc = pc /\ q.stream = stream
         /\ q.mapped >= extraShmSize /\ q.results = c.results
         /\ q.fds = c.fds /\ q.shmFd = c.shmFd
         /\ q.fd = rep[i].fd /\ q.desc = rep[i].desc /\ q.told = rep[i].told
<1>1. PICK p : p = rep[i]
  OBVIOUS
<1>2. /\ RepOK(c, extraShmSize, OpensBefore(prog, Len(c.results)))
      /\ Len(c.results) <= Len(prog.calls) /\ c.mapped >= extraShmSize
      /\ c.fd = p.fd /\ c.desc = p.desc /\ c.told = p.told
  <2>1. c = Copied(p)
    BY <1>1
  <2>. QED
    BY <1>1, <2>1, CopiedOK, ZenonT(30)
<1>3. extraShmSize \in Nat /\ prog \in Programs /\ Len(c.results) \in Nat
  <2>1. extraShmSize \in Nat /\ prog \in Programs
    BY <1>1, ReplicaFacts
  <2>2. c \in RepRecords
    BY <1>2 DEF RepOK
  <2>. QED
    BY <2>1, <2>2, RepFields
<1>4. PICK size \in Nat, k \in Nat : /\ size = extraShmSize
                                     /\ k = OpensBefore(prog, Len(c.results))
  BY <1>3, OpensGrow
<1>5. RepOK(c, size, k)
  BY <1>2, <1>4
<1>6. /\ RepOK(q, size, k) /\ q.pc = pc /\ q.stream = stream
      /\ q.results = c.results /\ q.fds = c.fds /\ q.shmFd = c.shmFd
      /\ q.mapped = c.mapped /\ q.fd = c.fd /\ q.desc = c.desc /\ q.told = c.told
  BY <1>5, MovedOK
<1>. QED
  BY <1>1, <1>2, <1>4, <1>6

LEMMA CopiedMore ==
  ASSUME TypeInv, NEW i \in Replicas, rep[i].pc = "copy"
  PROVE  Len(Copied(rep[i]).results) = Len(rep[i].results) + 1
<1>1. PICK p : p = rep[i]
  OBVIOUS
<1>2. PICK c : c = Copied(p)
  OBVIOUS
<1>3. Len(c.results) = Len(p.results) + 1
  BY <1>1, <1>2, CopiedOK, ZenonT(30)
<1>. QED
  BY <1>1, <1>2, <1>3

\* ... to its next call.
LEMMA CopiedReturns ==
  ASSUME TypeInv, NEW i \in Replicas, rep[i].pc = "copy", NEW c, c = Copied(rep[i]),
         NEW q, q = At(c, "call", c.stream)
  PROVE  /\ ReplicaOK(prog, q, shm, extraShmSize) /\ Due(q) = Due(rep[i])
         /\ q.mapped >= extraShmSize /\ q.results = c.results /\ q.pc = "call"
         /\ q.fds = c.fds /\ q.shmFd = c.shmFd /\ q.fd = rep[i].fd /\ q.desc = rep[i].desc
<1>1. c.stream \in Streams
  <2>1. PICK p : p = rep[i]
    OBVIOUS
  <2>2. c = Copied(p)
    BY <2>1
  <2>3. c.stream = p.stream
    BY <2>1, <2>2, CopiedOK
  <2>4. p.stream \in Streams
    BY <2>1, ReplicaFacts
  <2>. QED
    BY <2>3, <2>4
<1>2. PICK stream \in Streams : stream = c.stream
  BY <1>1
<1>3. PICK pc \in PCs : pc = "call"
  BY DEF PCs
<1>4. q = At(c, pc, stream)
  BY <1>2, <1>3
<1>5. /\ RepOK(q, extraShmSize, OpensBefore(prog, Len(q.results)))
      /\ Len(q.results) <= Len(prog.calls) /\ q.pc = pc
      /\ q.mapped >= extraShmSize /\ q.results = c.results
      /\ q.fds = c.fds /\ q.shmFd = c.shmFd /\ q.fd = rep[i].fd /\ q.desc = rep[i].desc
  BY <1>4, CopiedGoes
<1>6. ReplicaOK(prog, q, shm, extraShmSize)
  BY <1>3, <1>5, Placed
<1>7. Due(q) = Due(rep[i])
  <2>1. PICK p : p = rep[i]
    OBVIOUS
  <2>2. Len(q.results) = Len(p.results) + 1 /\ Len(p.results) \in Nat
    BY <1>5, <2>1, CopiedMore, ReplicaFacts
  <2>3. p.pc \in {"own", "copy"} /\ q.pc \notin {"own", "copy"}
    BY <1>3, <1>5, <2>1
  <2>. QED
    BY <2>1, <2>2, <2>3, DueIs
<1>. QED
  BY <1>3, <1>5, <1>6, <1>7

\* A copied replica is a record of replicas.
LEMMA CopiedRecord ==
  ASSUME TypeInv, NEW i \in Replicas, rep[i].pc = "copy"
  PROVE  Copied(rep[i]) \in RepRecords
<1>1. PICK p : p = rep[i]
  OBVIOUS
<1>2. PICK c : c = Copied(p)
  OBVIOUS
<1>3. RepOK(c, extraShmSize, OpensBefore(prog, Len(c.results)))
  BY <1>1, <1>2, CopiedOK
<1>. QED
  BY <1>1, <1>2, <1>3 DEF RepOK

\* A slave takes the whole of the master's result, or has a pointer for it that
\* nobody assigned.
TakesWhole(i) == rep' = [rep EXCEPT ![i] = [Copied(rep[i]) EXCEPT !.pc = "call"]]
TakesNothing(i) ==
  rep' = [rep EXCEPT ![i] = [CopiedWith(rep[i], Unassigned) EXCEPT !.pc = "call"]]

LEMMA TakenIs ==
  ASSUME NEW i, TakeResult(i)
  PROVE  TakesWhole(i) \/ TakesNothing(i)
BY DEF TakeResult, Taken, TakesWhole, TakesNothing, Copied

LEMMA TakesNothingReturns ==
  ASSUME TypeInv, NEW i \in Replicas, rep[i].pc = "copy",
         NEW q, q = [CopiedWith(rep[i], Unassigned) EXCEPT !.pc = "call"]
  PROVE  /\ ReplicaOK(prog, q, shm, extraShmSize) /\ Due(q) = Due(rep[i])
         /\ q.mapped >= extraShmSize /\ q.pc = "call"
         /\ q.desc = rep[i].desc /\ q.stream = rep[i].stream
<1>1. PICK p : p = rep[i]
  OBVIOUS
<1>2. /\ p \in RepRecords /\ PlaceOK(prog, p, shm, extraShmSize) /\ prog \in Programs
      /\ Len(p.results) \in Nat
  BY <1>1, ReplicaFacts
<1>3. PICK size \in Nat, k \in Nat :
             /\ size = extraShmSize /\ k = OpensBefore(prog, Len(p.results))
             /\ k <= MaxOpens /\ RepOK(p, size, k)
  BY <1>1, ReplicaFacts
<1>4. PICK x : x = [ret |-> Unassigned,
                    data |-> [j \in 1 .. shm.len |->
                                IF j <= Len(shm.sent) THEN shm.sent[j] ELSE Stale]]
  OBVIOUS
<1>5. x \in Results
  <2>1. shm.sent \in Seq(Nat) /\ shm.len \in Nat
    BY DEF TypeInv, ShmOK
  <2>2. \A j \in 1 .. shm.len : j <= Len(shm.sent) => shm.sent[j] \in Int
    BY <2>1, LenProperties, ElementOfSeq
  <2>3. Stale \in Int /\ Unassigned \in Int
    BY DEF Stale, Unassigned
  <2>4. \A j \in 1 .. shm.len :
          (IF j <= Len(shm.sent) THEN shm.sent[j] ELSE Stale) \in Int
    BY <2>2, <2>3
  <2>5. x.data \in [1 .. shm.len -> Int]
    BY <1>4, <2>4
  <2>6. x.data \in Seq(Int)
    BY <2>1, <2>5, SMTT(30)
  <2>. QED
    BY <1>4, <2>3, <2>6 DEF Results
<1>6. PICK c : c = Returned(Refreshed(p, size), x.ret, x.data)
  OBVIOUS
<1>7. /\ RepOK(c, size, k) /\ Len(c.results) = Len(p.results) + 1
      /\ c.desc = p.desc /\ c.stream = p.stream /\ c.mapped >= size
  BY <1>3, <1>5, <1>6, RefreshedReturns
<1>8. q = [c EXCEPT !.pc = "call"]
  BY <1>1, <1>3, <1>4, <1>6 DEF CopiedWith
<1>9. c \in RepRecords /\ c.stream \in Streams
  BY <1>7, RepFields DEF RepOK
<1>10. PICK y : y = At(c, "call", c.stream)
  OBVIOUS
<1>11. q = y
  BY <1>8, <1>9, <1>10, AtIs
<1>12. PICK n \in Nat : n = OpensBefore(prog, Len(c.results)) /\ k <= n
  BY <1>2, <1>3, <1>7, OpensGrow
<1>13. RepOK(c, size, n)
  BY <1>7, <1>12, RepOKMonotone
<1>14. PICK pc \in PCs, stream \in Streams : pc = "call" /\ stream = c.stream
  BY <1>9 DEF PCs
<1>15. y = At(c, pc, stream)
  BY <1>10, <1>14
<1>16. /\ RepOK(y, size, n) /\ y.pc = pc /\ y.stream = stream
       /\ y.results = c.results /\ y.mapped = c.mapped /\ y.desc = c.desc
  BY <1>13, <1>15, MovedOK
<1>17. Len(p.results) < Len(prog.calls) /\ Len(prog.calls) \in Nat
  BY <1>1, <1>2, ProgramType DEF PlaceOK
<1>18. ReplicaOK(prog, y, shm, extraShmSize)
  <2>1. Len(y.results) <= Len(prog.calls)
    BY <1>2, <1>7, <1>16, <1>17
  <2>2. RepOK(y, extraShmSize, OpensBefore(prog, Len(y.results)))
    BY <1>3, <1>12, <1>16
  <2>3. y.pc \in {"call", "end", "dead", "failed"}
    BY <1>14, <1>16
  <2>. QED
    BY <2>1, <2>2, <2>3, Placed
<1>19. Due(y) = Due(p)
  <2>1. Len(y.results) = Len(p.results) + 1 /\ Len(p.results) \in Nat
    BY <1>2, <1>7, <1>16
  <2>2. p.pc \in {"own", "copy"} /\ y.pc \notin {"own", "copy"}
    BY <1>1, <1>14, <1>16
  <2>. QED
    BY <2>1, <2>2, DueIs
<1>20. /\ y.mapped >= extraShmSize /\ y.pc = "call"
       /\ y.desc = p.desc /\ y.stream = p.stream
  BY <1>3, <1>7, <1>14, <1>16
<1>. QED
  BY <1>1, <1>11, <1>18, <1>19, <1>20

LEMMA TakeResultType ==
  ASSUME TypeInv, NEW i \in Replicas, TakeResult(i)
  PROVE  TypeInv' /\ StepOf(i)
<1>1. /\ rep[i].pc = "copy"
      /\ prog' = prog /\ file' = file /\ pos' = pos /\ shm' = shm
      /\ extraShmSize' = extraShmSize /\ deaths' = deaths
  BY DEF TakeResult
<1>2. \E q : /\ rep' = [rep EXCEPT ![i] = q]
             /\ ReplicaOK(prog, q, shm, extraShmSize) /\ Due(q) = Due(rep[i])
             /\ q.mapped >= extraShmSize
  <2>1. CASE TakesWhole(i)
    <3>1. PICK c : c = Copied(rep[i])
      OBVIOUS
    <3>2. PICK q : q = At(c, "call", c.stream)
      OBVIOUS
    <3>3. rep' = [rep EXCEPT ![i] = [c EXCEPT !.pc = "call"]]
      BY <2>1, <3>1 DEF TakesWhole
    <3>4. rep' = [rep EXCEPT ![i] = q]
      BY <1>1, <3>1, <3>2, <3>3, CopiedRecord, AtIs, ZenonT(30)
    <3>. QED
      BY <1>1, <3>1, <3>2, <3>4, CopiedReturns
  <2>2. CASE TakesNothing(i)
    <3>1. PICK q : q = [CopiedWith(rep[i], Unassigned) EXCEPT !.pc = "call"]
      OBVIOUS
    <3>2. rep' = [rep EXCEPT ![i] = q]
      BY <2>2, <3>1 DEF TakesNothing
    <3>. QED
      BY <1>1, <3>1, <3>2, TakesNothingReturns
  <2>. QED
    BY <2>1, <2>2, TakenIs
<1>. QED
  BY <1>1, <1>2, OneReplica DEF TypeInv, Gone

LEMMA TakeOffsetType ==
  ASSUME TypeInv, NEW i \in Replicas, TakeOffset(i)
  PROVE  TypeInv' /\ StepOf(i)
<1>1. PICK c : c = Copied(rep[i])
  OBVIOUS
<1>2. PICK q : q = At(c, "call", c.stream)
  OBVIOUS
<1>3. /\ rep[i].pc = "copy" /\ rep' = [rep EXCEPT ![i] = [c EXCEPT !.pc = "call"]]
      /\ prog' = prog /\ file' = file /\ shm' = shm
      /\ extraShmSize' = extraShmSize /\ deaths' = deaths
      /\ pos' = [pos EXCEPT ![rep[i].desc] = IF shm.offs < 0 THEN pos[rep[i].desc]
                                             ELSE shm.offs]
  BY <1>1 DEF TakeOffset
<1>4. rep' = [rep EXCEPT ![i] = q]
  BY <1>1, <1>2, <1>3, CopiedRecord, AtIs, ZenonT(30)
<1>5. /\ ReplicaOK(prog, q, shm, extraShmSize) /\ Due(q) = Due(rep[i])
      /\ q.mapped >= extraShmSize /\ rep[i].pc \notin Gone
  BY <1>1, <1>2, <1>3, CopiedReturns DEF Gone
<1>6. pos' \in [Descs -> Nat]
  <2>1. pos \in [Descs -> Nat] /\ shm.offs \in Int
    BY DEF TypeInv, ShmOK
  <2>2. PICK d : d = rep[i].desc
    OBVIOUS
  <2>3. PICK n : n = IF shm.offs < 0 THEN pos[d] ELSE shm.offs
    OBVIOUS
  <2>4. d \in Descs => n \in Nat
    BY <2>1, <2>3
  <2>5. pos' = [pos EXCEPT ![d] = n]
    BY <1>3, <2>2, <2>3
  <2>. QED
    BY <2>1, <2>4, <2>5
<1>7. deaths' \in 0 .. prog.deaths /\ file' \in Files
  BY <1>3 DEF TypeInv
<1>. QED
  BY <1>3, <1>4, <1>5, <1>6, <1>7, OneReplica

\* A call that a replica makes for itself.
LEMMA ClosedOK ==
  ASSUME NEW p, NEW size \in Nat, NEW k \in Nat, RepOK(p, size, k), NEW q, q = Closed(p)
  PROVE  /\ RepOK(q, size, k) /\ q.pc = p.pc /\ q.results = p.results
         /\ q.shmFd = p.shmFd /\ q.fd = NoFd /\ q.desc = NoDesc
<1>1. p \in RepRecords /\ p.fds \in SUBSET Nat
  BY RepFields DEF RepOK
<1>2. PICK st : st = FreshStream(FALSE)
  OBVIOUS
<1>3. st \in Streams
  BY <1>2, FreshType
<1>4. PICK fds : fds = p.fds \ {p.fd}
  OBVIOUS
<1>5. fds \in SUBSET Nat
  BY <1>1, <1>4
<1>6. q = [p EXCEPT !.fds = fds, !.fd = NoFd, !.desc = NoDesc, !.stream = st]
  BY <1>2, <1>4 DEF Closed
<1>7. q \in RepRecords
  <2>1. p \in RepRecords /\ NoFd \in Int /\ NoDesc \in Descs \cup {NoDesc}
    BY <1>1 DEF NoFd
  <2>. QED
    BY <1>3, <1>5, <1>6, <2>1 DEF RepRecords
<1>8. /\ q.pc = p.pc /\ q.results = p.results /\ q.shmFd = p.shmFd /\ q.fd = NoFd
      /\ q.desc = NoDesc /\ q.fds = fds /\ q.mapped = p.mapped
  BY <1>1, <1>6 DEF RepRecords
<1>9. p.shmFd # NoFd => p.shmFd \in fds
  BY <1>4 DEF RepOK
<1>10. fds \subseteq 0 .. 2 + k + (IF p.shmFd = NoFd THEN 0 ELSE 1)
  BY <1>4 DEF RepOK
<1>11. p.mapped <= size
  BY DEF RepOK
<1>12. RepOK(q, size, k)
  BY <1>7, <1>8, <1>9, <1>10, <1>11 DEF RepOK
<1>. QED
  BY <1>8, <1>12

LEMMA ReturnedNext ==
  ASSUME TypeInv, NEW i \in Replicas, NEW p, p = rep[i],
         Len(p.results) < Len(prog.calls), NEW x \in Results,
         NEW r, r = Returned(p, x.ret, x.data), NEW q, q = At(r, "call", r.stream)
  PROVE  /\ RepOK(q, extraShmSize, OpensBefore(prog, Len(q.results)))
         /\ Len(q.results) <= Len(prog.calls) /\ q.pc = "call"
         /\ Len(q.results) = Len(p.results) + 1
         /\ q.results = Longer(p.results, x) /\ q.fds = p.fds /\ q.shmFd = p.shmFd
         /\ q.fd = p.fd /\ q.desc = p.desc /\ r \in RepRecords
<1>1. /\ prog \in Programs /\ Len(p.results) \in Nat /\ Len(prog.calls) \in Nat
      /\ \E size \in Nat, k \in Nat :
           /\ size = extraShmSize /\ k = OpensBefore(prog, Len(p.results))
           /\ k <= MaxOpens /\ RepOK(p, size, k)
  BY ReplicaFacts, ProgramType
<1>2. PICK size \in Nat, k \in Nat :
             /\ size = extraShmSize /\ k = OpensBefore(prog, Len(p.results))
             /\ k <= MaxOpens /\ RepOK(p, size, k)
  BY <1>1
<1>3. RepOK(p, size, k)
  BY <1>2
<1>4. /\ RepOK(r, size, k) /\ r.results = Longer(p.results, x)
      /\ Len(r.results) = Len(p.results) + 1 /\ r.fds = p.fds /\ r.shmFd = p.shmFd
      /\ r.fd = p.fd /\ r.desc = p.desc
  BY <1>3, ReturnedOK
<1>5. PICK stream \in Streams : stream = r.stream
  BY <1>4, RepFields DEF RepOK
<1>6. PICK pc \in PCs : pc = "call"
  BY DEF PCs
<1>7. q = At(r, pc, stream)
  BY <1>5, <1>6
<1>8. RepOK(r, size, k)
  BY <1>4
<1>9. /\ RepOK(q, size, k) /\ q.pc = pc
      /\ q.results = r.results /\ q.fds = r.fds /\ q.shmFd = r.shmFd
      /\ q.fd = r.fd /\ q.desc = r.desc
  BY <1>7, <1>8, MovedOK
<1>10. /\ OpensBefore(prog, Len(p.results) + 1) \in Nat
       /\ OpensBefore(prog, Len(p.results)) <= OpensBefore(prog, Len(p.results) + 1)
  <2>1. Len(p.results) \in Nat /\ prog \in Programs
    BY <1>1
  <2>. QED
    BY <2>1, OpensGrow
<1>11. PICK k1 \in Nat : k1 = OpensBefore(prog, Len(p.results) + 1) /\ k <= k1
  BY <1>2, <1>10
<1>12. RepOK(q, size, k)
  BY <1>9
<1>13. RepOK(q, size, k1)
  BY <1>11, <1>12, RepOKMonotone
<1>14. Len(q.results) = Len(p.results) + 1 /\ Len(q.results) <= Len(prog.calls)
  BY <1>1, <1>4, <1>9, SMTT(30)
<1>15. r \in RepRecords
  BY <1>8 DEF RepOK
<1>. QED
  BY <1>2, <1>4, <1>6, <1>9, <1>11, <1>13, <1>14, <1>15

LEMMA OwnCallType ==
  ASSUME TypeInv, NEW i \in Replicas, OwnCall(i)
  PROVE  TypeInv' /\ StepOf(i)
<1>1. PICK p : p = rep[i]
  OBVIOUS
<1>2. PICK x : x = [ret |-> 0, data |-> << >>]
  OBVIOUS
<1>3. x \in Results
  <2>1. << >> \in Seq(Int)
    BY EmptySeq
  <2>. QED
    BY <1>2, <2>1 DEF Results
<1>4. PICK r : r = Returned(p, x.ret, x.data)
  OBVIOUS
<1>5. PICK q : q = At(r, "call", r.stream)
  OBVIOUS
<1>6. p.pc = "own" /\ Len(p.results) < Len(prog.calls) /\ extraShmSize \in Nat
      /\ prog \in Programs
  BY <1>1, ReplicaFacts DEF OwnCall, PlaceOK
<1>7. /\ RepOK(q, extraShmSize, OpensBefore(prog, Len(q.results)))
      /\ Len(q.results) <= Len(prog.calls) /\ q.pc = "call" /\ r \in RepRecords
      /\ Len(q.results) = Len(p.results) + 1
  BY <1>1, <1>3, <1>4, <1>5, <1>6, ReturnedNext
<1>8. [r EXCEPT !.pc = "call"] = q
  BY <1>5, <1>7, AtIs, ZenonT(30)
<1>9. r = Returned(rep[i], 0, << >>)
  BY <1>1, <1>2, <1>4
<1>10. /\ rep' = [rep EXCEPT ![i] = IF CallOf(rep[i]).op = "getpid" THEN q ELSE Closed(q)]
       /\ prog' = prog /\ file' = file /\ pos' = pos /\ shm' = shm
       /\ extraShmSize' = extraShmSize /\ deaths' = deaths
  BY <1>8, <1>9 DEF OwnCall
<1>11. ReplicaOK(prog, q, shm, extraShmSize)
  BY <1>7, Placed
<1>12. PICK c : c = Closed(q)
  OBVIOUS
<1>13. ReplicaOK(prog, c, shm, extraShmSize) /\ c.pc = q.pc /\ c.results = q.results
  <2>1. Len(q.results) \in Nat
    BY <1>7, RepFields DEF RepOK
  <2>2. PICK size \in Nat, k \in Nat : size = extraShmSize /\ k = OpensBefore(prog, Len(q.results))
    BY <1>6, <2>1, OpensGrow
  <2>3. RepOK(q, size, k)
    BY <1>7, <2>2
  <2>4. RepOK(c, size, k) /\ c.pc = q.pc /\ c.results = q.results
    BY <1>12, <2>3, ClosedOK
  <2>. QED
    BY <1>7, <2>2, <2>4, Placed
<1>14. PICK n : n = IF CallOf(rep[i]).op = "getpid" THEN q ELSE c
  OBVIOUS
<1>15. rep' = [rep EXCEPT ![i] = n] /\ ReplicaOK(prog, n, shm, extraShmSize)
  BY <1>10, <1>11, <1>12, <1>13, <1>14
<1>16. rep[i].pc \notin Gone /\ rep[i].pc # "copy" /\ Due(n) = Due(rep[i])
  <2>1. n.pc = "call" /\ Len(n.results) = Len(p.results) + 1
    BY <1>7, <1>13, <1>14
  <2>2. p.pc \in {"own", "copy"} /\ n.pc \notin {"own", "copy"} /\ Len(p.results) \in Nat
    BY <1>1, <1>6, <2>1, ReplicaFacts
  <2>3. Due(n) = Due(p)
    BY <2>1, <2>2, DueIs
  <2>. QED
    BY <1>1, <1>6, <2>3 DEF Gone
<1>. QED
  BY <1>10, <1>15, <1>16, OneReplica DEF TypeInv

\* A replica that moves on within a call, or out of it, and keeps its results.
LEMMA MovedPlaced ==
  ASSUME TypeInv, NEW i \in Replicas, NEW p, p = rep[i], NEW pc \in PCs \ {"own", "copy"},
         pc \in {"fill", "probe", "tell", "exit"} => shm.follow = "fseek",
         pc # "fill", NEW stream \in Streams, NEW q, q = At(p, pc, stream)
  PROVE  /\ ReplicaOK(prog, q, shm, extraShmSize) /\ q.pc = pc /\ q.stream = stream
         /\ q.results = p.results /\ q.fds = p.fds /\ q.shmFd = p.shmFd
         /\ q.mapped = p.mapped /\ q.fd = p.fd /\ q.desc = p.desc /\ q.told = p.told
<1>1. /\ Len(p.results) <= Len(prog.calls)
      /\ \E size \in Nat, k \in Nat :
           /\ size = extraShmSize /\ k = OpensBefore(prog, Len(p.results))
           /\ RepOK(p, size, k)
  BY ReplicaFacts DEF PlaceOK
<1>2. PICK size \in Nat, k \in Nat :
             /\ size = extraShmSize /\ k = OpensBefore(prog, Len(p.results))
             /\ RepOK(p, size, k)
  BY <1>1
<1>3. RepOK(p, size, k) /\ pc \in PCs
  BY <1>2
<1>4. /\ RepOK(q, size, k) /\ q.pc = pc /\ q.stream = stream
      /\ q.results = p.results /\ q.fds = p.fds /\ q.shmFd = p.shmFd
      /\ q.mapped = p.mapped /\ q.fd = p.fd /\ q.desc = p.desc /\ q.told = p.told
  BY <1>3, MovedOK
<1>5. ReplicaOK(prog, q, shm, extraShmSize)
  BY <1>1, <1>2, <1>4 DEF ReplicaOK, PlaceOK
<1>. QED
  BY <1>4, <1>5

LEMMA TellType ==
  ASSUME TypeInv, NEW i \in Replicas, Tell(i)
  PROVE  TypeInv' /\ StepOf(i)
<1>1. PICK p : p = rep[i]
  OBVIOUS
<1>2. PICK t : t = [offs |-> Ftell(View(rep, i)), eof |-> rep[i].stream.eof]
  OBVIOUS
<1>3. PICK q : q = [p EXCEPT !.pc = "exit", !.told = t]
  OBVIOUS
<1>4. /\ p \in RepRecords /\ p.stream \in Streams /\ View(rep, i) \in Views
      /\ extraShmSize \in Nat /\ Len(p.results) \in Nat /\ prog \in Programs
      /\ PlaceOK(prog, p, shm, extraShmSize)
      /\ RepOK(p, extraShmSize, OpensBefore(prog, Len(p.results)))
  BY <1>1, ReplicaFacts
<1>5. t \in Tolds
  <2>1. Ftell(View(rep, i)) \in Int
    BY <1>4, FtellType
  <2>2. rep[i].stream.eof \in BOOLEAN
    BY <1>1, <1>4 DEF Streams, StreamRecords
  <2>. QED
    BY <1>2, <2>1, <2>2 DEF Tolds
<1>6. /\ p.pc = "tell" /\ rep' = [rep EXCEPT ![i].pc = "exit", ![i].told = t]
      /\ prog' = prog /\ file' = file /\ pos' = pos /\ shm' = shm
      /\ extraShmSize' = extraShmSize /\ deaths' = deaths
  BY <1>1, <1>2 DEF Tell
<1>7. rep' = [rep EXCEPT ![i] = q]
  BY <1>1, <1>3, <1>6
<1>8. q \in RepRecords
  BY <1>3, <1>4, <1>5 DEF RepRecords, PCs
<1>9. /\ q.pc = "exit" /\ q.results = p.results /\ q.fds = p.fds /\ q.shmFd = p.shmFd
      /\ q.mapped = p.mapped /\ q.fd = p.fd /\ q.desc = p.desc
  BY <1>3, <1>4 DEF RepRecords
<1>10. RepOK(q, extraShmSize, OpensBefore(prog, Len(q.results)))
  BY <1>4, <1>8, <1>9 DEF RepOK
<1>11. ReplicaOK(prog, q, shm, extraShmSize)
  BY <1>4, <1>6, <1>9, <1>10 DEF ReplicaOK, PlaceOK
<1>12. rep[i].pc \notin Gone /\ rep[i].pc # "copy" /\ Due(q) = Due(rep[i])
  BY <1>1, <1>6, <1>9 DEF Due, Gone
<1>. QED
  BY <1>6, <1>7, <1>11, <1>12, OneReplica DEF TypeInv

LEMMA FinishType ==
  ASSUME TypeInv, NEW i \in Replicas, Finish(i)
  PROVE  TypeInv' /\ StepOf(i)
<1>1. PICK p : p = rep[i]
  OBVIOUS
<1>2. PICK w : w = Fflush(View(rep, i))
  OBVIOUS
<1>3. p \in RepRecords /\ View(rep, i) \in Views
  BY <1>1, ReplicaFacts
<1>4. w \in Views
  BY <1>2, <1>3, FflushCases
<1>5. w.file \in Files /\ w.pos \in Nat /\ w.st \in Streams
  BY <1>4 DEF Views
<1>6. PICK q : q = At(p, "end", w.st)
  OBVIOUS
<1>7. /\ p.pc = "call" /\ rep' = [rep EXCEPT ![i].pc = "end", ![i].stream = w.st]
      /\ prog' = prog /\ file' = w.file /\ shm' = shm
      /\ extraShmSize' = extraShmSize /\ deaths' = deaths
      /\ pos' = IF rep[i].desc = NoDesc THEN pos ELSE [pos EXCEPT ![rep[i].desc] = w.pos]
  BY <1>1, <1>2 DEF Finish
<1>8. rep' = [rep EXCEPT ![i] = q]
  BY <1>1, <1>6, <1>7 DEF At
<1>9. ReplicaOK(prog, q, shm, extraShmSize) /\ q.pc = "end" /\ q.results = p.results
  <2>1. PICK pc \in PCs \ {"own", "copy"} : pc = "end"
    BY DEF PCs
  <2>2. PICK st \in Streams : st = w.st
    BY <1>5
  <2>3. q = At(p, pc, st) /\ pc # "fill" /\ pc \notin {"fill", "probe", "tell", "exit"}
    BY <1>6, <2>1, <2>2
  <2>. QED
    BY <1>1, <2>1, <2>3, MovedPlaced
<1>10. pos' \in [Descs -> Nat] /\ deaths' \in 0 .. prog.deaths
  BY <1>5, <1>7 DEF TypeInv
<1>11. file' \in Files
  BY <1>5, <1>7
<1>12. rep[i].pc \notin Gone /\ rep[i].pc # "copy" /\ Due(q) = Due(rep[i])
  BY <1>1, <1>7, <1>9 DEF Due, Gone
<1>. QED
  BY <1>7, <1>8, <1>9, <1>10, <1>11, <1>12, OneReplica

LEMMA DieType ==
  ASSUME TypeInv, NEW i \in Replicas, Die(i)
  PROVE  TypeInv' /\ StepOf(i)
<1>1. PICK p : p = rep[i]
  OBVIOUS
<1>2. PICK st : st = [p.stream EXCEPT !.out = << >>]
  OBVIOUS
<1>3. p \in RepRecords /\ p.stream \in Streams
  BY <1>1, ReplicaFacts
<1>4. st \in Streams
  <2>1. PICK e \in Seq(Nat) : e = << >>
    BY EmptySeq
  <2>2. st = [p.stream EXCEPT !.out = e]
    BY <1>2, <2>1
  <2>. QED
    BY <1>3, <2>2 DEF Streams, StreamRecords
<1>5. PICK q : q = At(p, "dead", st)
  OBVIOUS
<1>6. /\ rep' = [rep EXCEPT ![i].pc = "dead", ![i].stream.out = << >>]
      /\ prog' = prog /\ file' = file /\ pos' = pos /\ shm' = shm
      /\ extraShmSize' = extraShmSize /\ deaths' = deaths + 1 /\ deaths < prog.deaths
  BY DEF Die
<1>7. rep' = [rep EXCEPT ![i] = q]
  BY <1>1, <1>2, <1>5, <1>6 DEF At
<1>8. ReplicaOK(prog, q, shm, extraShmSize) /\ q.pc \in Gone
  <2>1. PICK pc \in PCs \ {"own", "copy"} : pc = "dead"
    BY DEF PCs
  <2>2. PICK s \in Streams : s = st
    BY <1>4
  <2>3. q = At(p, pc, s) /\ pc # "fill" /\ pc \notin {"fill", "probe", "tell", "exit"}
    BY <1>5, <2>1, <2>2
  <2>. QED
    BY <1>1, <2>1, <2>3, MovedPlaced DEF Gone
<1>9. deaths' \in 0 .. prog.deaths
  <2>1. deaths \in 0 .. prog.deaths /\ prog.deaths \in Nat
    BY ProgramType DEF TypeInv
  <2>. QED
    BY <1>6, <2>1
<1>. QED
  BY <1>6, <1>7, <1>8, <1>9, OneReplica DEF TypeInv

\* Where a slave goes from fseek, it may be.
LEMMA SeekedIs == Seeked \in {"probe", "tell"}
BY DEF Seeked

LEMMA FillStreamType ==
  ASSUME TypeInv, NEW i \in Replicas, FillStream(i)
  PROVE  TypeInv' /\ StepOf(i)
<1>1. PICK p : p = rep[i]
  OBVIOUS
<1>2. PICK offs : offs = shm.offs
  OBVIOUS
<1>3. PICK w : w = FseekFill(View(rep, i), offs)
  OBVIOUS
<1>4. p \in RepRecords /\ View(rep, i) \in Views /\ PlaceOK(prog, p, shm, extraShmSize)
  BY <1>1, ReplicaFacts
<1>5. p.pc = "fill" /\ shm.follow = "fseek" /\ offs \in Nat
  BY <1>1, <1>2, <1>4 DEF FillStream, PlaceOK, TypeInv, ShmOK
<1>6. w \in Views
  BY <1>3, <1>4, <1>5, FseekFillCases
<1>7. w.pos \in Nat /\ w.st \in Streams
  BY <1>6 DEF Views
<1>8. PICK q : q = At(p, Seeked, w.st)
  OBVIOUS
<1>9. /\ rep' = [rep EXCEPT ![i].stream = w.st, ![i].pc = Seeked]
      /\ prog' = prog /\ file' = file /\ shm' = shm
      /\ extraShmSize' = extraShmSize /\ deaths' = deaths
      /\ pos' = [pos EXCEPT ![rep[i].desc] = w.pos]
  BY <1>2, <1>3 DEF FillStream
<1>10. PICK n : n = [p EXCEPT !.stream = w.st, !.pc = Seeked]
  OBVIOUS
<1>11. rep' = [rep EXCEPT ![i] = q]
  <2>1. rep' = [rep EXCEPT ![i] = n]
    BY <1>1, <1>9, <1>10
  <2>2. n = q
    BY <1>4, <1>8, <1>10 DEF At, RepRecords
  <2>. QED
    BY <2>1, <2>2
<1>12. /\ ReplicaOK(prog, q, shm, extraShmSize) /\ q.results = p.results
       /\ q.pc = Seeked
  <2>1. PICK pc \in PCs \ {"own", "copy"} : pc = Seeked
    BY SeekedIs DEF PCs
  <2>2. PICK s \in Streams : s = w.st
    BY <1>7
  <2>3. q = At(p, pc, s) /\ pc # "fill"
    BY <1>8, <2>1, <2>2, SeekedIs
  <2>. QED
    BY <1>1, <1>5, <2>1, <2>3, MovedPlaced
<1>13. pos' \in [Descs -> Nat]
  BY <1>7, <1>9 DEF TypeInv
<1>14. rep[i].pc \notin Gone /\ rep[i].pc # "copy" /\ Due(q) = Due(rep[i])
  BY <1>1, <1>5, <1>12, SeekedIs DEF Due, Gone
<1>. QED
  BY <1>9, <1>11, <1>12, <1>13, <1>14, OneReplica DEF TypeInv

LEMMA ProbeEofType ==
  ASSUME TypeInv, NEW i \in Replicas, ProbeEof(i)
  PROVE  TypeInv' /\ StepOf(i)
<1>1. PICK p : p = rep[i]
  OBVIOUS
<1>2. PICK b : b = Getc(View(rep, i))
  OBVIOUS
<1>3. PICK to : to = IF b.c = EOF THEN "tell" ELSE "failed"
  OBVIOUS
<1>4. p \in RepRecords /\ View(rep, i) \in Views /\ PlaceOK(prog, p, shm, extraShmSize)
  BY <1>1, ReplicaFacts
<1>5. p.pc = "probe" /\ shm.follow = "fseek"
  BY <1>1, <1>4 DEF ProbeEof, PlaceOK
<1>6. b.w \in Views
  BY <1>2, <1>4, GetcType
<1>7. b.w.pos \in Nat /\ b.w.st \in Streams
  BY <1>6 DEF Views
<1>8. PICK q : q = At(p, to, b.w.st)
  OBVIOUS
<1>9. /\ rep' = [rep EXCEPT ![i].stream = b.w.st, ![i].pc = to]
      /\ prog' = prog /\ file' = file /\ shm' = shm
      /\ extraShmSize' = extraShmSize /\ deaths' = deaths
      /\ pos' = [pos EXCEPT ![rep[i].desc] = b.w.pos]
  BY <1>2, <1>3 DEF ProbeEof
<1>10. PICK n : n = [p EXCEPT !.stream = b.w.st, !.pc = to]
  OBVIOUS
<1>11. rep' = [rep EXCEPT ![i] = q]
  <2>1. rep' = [rep EXCEPT ![i] = n]
    BY <1>1, <1>9, <1>10
  <2>2. n = q
    BY <1>4, <1>8, <1>10 DEF At, RepRecords
  <2>. QED
    BY <2>1, <2>2
<1>12. /\ ReplicaOK(prog, q, shm, extraShmSize) /\ q.results = p.results
       /\ q.pc = to
  <2>1. PICK pc \in PCs \ {"own", "copy"} : pc = to
    BY <1>3 DEF PCs
  <2>2. PICK s \in Streams : s = b.w.st
    BY <1>7
  <2>3. q = At(p, pc, s) /\ pc # "fill"
    BY <1>3, <1>8, <2>1, <2>2
  <2>. QED
    BY <1>1, <1>5, <2>1, <2>3, MovedPlaced
<1>13. pos' \in [Descs -> Nat]
  BY <1>7, <1>9 DEF TypeInv
<1>14. rep[i].pc \notin Gone /\ rep[i].pc # "copy" /\ Due(q) = Due(rep[i])
  BY <1>1, <1>3, <1>5, <1>12 DEF Due, Gone
<1>. QED
  BY <1>9, <1>11, <1>12, <1>13, <1>14, OneReplica DEF TypeInv

LEMMA SeekStreamType ==
  ASSUME TypeInv, NEW i \in Replicas, SeekStream(i)
  PROVE  TypeInv' /\ StepOf(i)
<1>1. PICK c : c = Copied(rep[i])
  OBVIOUS
<1>2. /\ rep[i].pc = "copy" /\ shm.follow = "fseek"
      /\ prog' = prog /\ shm' = shm /\ extraShmSize' = extraShmSize /\ deaths' = deaths
  BY DEF SeekStream
<1>3. c \in RepRecords /\ c.stream \in Streams /\ View(rep, i) \in Views
      /\ extraShmSize \in Nat /\ shm.offs \in Int
  BY <1>1, <1>2, CopiedRecord, RepFields, ReplicaFacts DEF TypeInv, ShmOK
<1>4. ASSUME NEW pc \in {"fill", "probe", "tell"}, NEW stream \in Streams,
             NEW q, q = At(c, pc, stream), pc = "fill" => shm.offs >= 0
      PROVE  /\ ReplicaOK(prog, q, shm, extraShmSize) /\ q.mapped >= extraShmSize
             /\ rep[i].pc \notin Gone /\ Due(q) = Due(rep[i])
  <2>1. PICK to \in PCs : to = pc
    BY DEF PCs
  <2>2. q = At(c, to, stream)
    BY <1>4, <2>1
  <2>3. /\ RepOK(q, extraShmSize, OpensBefore(prog, Len(q.results)))
        /\ Len(q.results) <= Len(prog.calls) /\ q.pc = to
        /\ q.results = c.results /\ q.mapped >= extraShmSize
    BY <1>1, <1>2, <2>2, CopiedGoes
  <2>4. ReplicaOK(prog, q, shm, extraShmSize)
    BY <1>2, <1>4, <2>1, <2>3 DEF ReplicaOK, PlaceOK
  <2>5. Due(q) = Due(rep[i]) /\ rep[i].pc \notin Gone
    <3>1. PICK p : p = rep[i]
      OBVIOUS
    <3>2. Len(q.results) = Len(p.results) + 1 /\ Len(p.results) \in Nat
      BY <1>1, <1>2, <2>3, <3>1, CopiedMore, ReplicaFacts
    <3>3. p.pc \in {"own", "copy"} /\ q.pc \notin {"own", "copy"} /\ p.pc \notin Gone
      BY <1>2, <2>1, <2>3, <3>1 DEF Gone
    <3>. QED
      BY <3>1, <3>2, <3>3, DueIs
  <2>. QED
    BY <2>3, <2>4, <2>5
<1>5. CASE shm.offs < 0
  <2>1. rep' = [rep EXCEPT ![i] = [c EXCEPT !.pc = Seeked]] /\ file' = file /\ pos' = pos
    BY <1>1, <1>5 DEF SeekStream
  <2>2. PICK n : n = [c EXCEPT !.pc = Seeked]
    OBVIOUS
  <2>3. PICK q : q = At(c, Seeked, c.stream)
    OBVIOUS
  <2>4. n = q
    BY <1>3, <2>2, <2>3 DEF At, RepRecords
  <2>5. rep' = [rep EXCEPT ![i] = q]
    BY <2>1, <2>2, <2>4
  <2>6. PICK pc \in {"fill", "probe", "tell"} : pc = Seeked /\ pc # "fill"
    BY SeekedIs
  <2>7. PICK stream \in Streams : stream = c.stream
    BY <1>3
  <2>8. q = At(c, pc, stream)
    BY <2>3, <2>6, <2>7
  <2>9. /\ ReplicaOK(prog, q, shm, extraShmSize) /\ q.mapped >= extraShmSize
        /\ rep[i].pc \notin Gone /\ Due(q) = Due(rep[i])
    BY <1>4, <2>6, <2>8
  <2>. QED
    BY <1>2, <2>1, <2>5, <2>9, OneReplica DEF TypeInv
<1>6. CASE ~(shm.offs < 0)
  <2>1. PICK offs \in Nat : offs = shm.offs
    BY <1>3, <1>6
  <2>2. PICK w : w = FseekStart(View(rep, i), offs)
    OBVIOUS
  <2>3. w \in Views
    BY <1>3, <2>1, <2>2, FseekStartCases DEF Sought
  <2>4. w.file \in Files /\ w.pos \in Nat /\ w.st \in Streams
    BY <2>3 DEF Views
  <2>5. PICK to : to = IF NeedsFill(Fflush(View(rep, i)).st, offs) THEN "fill" ELSE Seeked
    OBVIOUS
  <2>6. PICK n : n = [c EXCEPT !.stream = w.st, !.pc = to]
    OBVIOUS
  <2>7. /\ rep' = [rep EXCEPT ![i] = n] /\ file' = w.file
        /\ pos' = [pos EXCEPT ![rep[i].desc] = w.pos]
    BY <1>1, <1>6, <2>1, <2>2, <2>5, <2>6 DEF SeekStream
  <2>8. PICK q : q = At(c, to, w.st)
    OBVIOUS
  <2>9. n = q
    BY <1>3, <2>6, <2>8 DEF At, RepRecords
  <2>10. rep' = [rep EXCEPT ![i] = q]
    BY <2>7, <2>9
  <2>11. PICK pc \in {"fill", "probe", "tell"} : pc = to
    BY <2>5, SeekedIs
  <2>12. PICK stream \in Streams : stream = w.st
    BY <2>4
  <2>13. q = At(c, pc, stream) /\ shm.offs >= 0
    BY <2>1, <2>8, <2>11, <2>12
  <2>14. /\ ReplicaOK(prog, q, shm, extraShmSize) /\ q.mapped >= extraShmSize
         /\ rep[i].pc \notin Gone /\ Due(q) = Due(rep[i])
    BY <1>4, <2>13
  <2>15. pos' \in [Descs -> Nat]
    BY <2>4, <2>7 DEF TypeInv
  <2>16. deaths' \in 0 .. prog.deaths /\ file' \in Files
    BY <1>2, <2>4, <2>7 DEF TypeInv
  <2>. QED
    BY <1>2, <2>10, <2>14, <2>15, <2>16, OneReplica
<1>. QED
  BY <1>5, <1>6

\* A call that opens the file is one of those that the program may make.
LEMMA OpeningCall ==
  ASSUME TypeInv, NEW i \in Replicas, NEW p, p = rep[i], Len(p.results) < Len(prog.calls),
         CallOf(p).op \in OpenOps
  PROVE  /\ OpensBefore(prog, Len(p.results)) \in Nat
         /\ OpensBefore(prog, Len(p.results)) < MaxOpens
         /\ OpensBefore(prog, Len(p.results) + 1) = OpensBefore(prog, Len(p.results)) + 1
<1>1. PICK n \in Nat : n = Len(p.results)
  BY ReplicaFacts
<1>2. prog \in Programs /\ Len(prog.calls) \in Nat
  BY ReplicaFacts, ProgramType
<1>3. n + 1 <= Len(prog.calls) /\ prog.calls[n + 1].op \in OpenOps
  BY <1>1, <1>2 DEF CallOf
<1>4. /\ OpensBefore(prog, n) \in Nat /\ OpensBefore(prog, n + 1) \in Nat
      /\ OpensBefore(prog, n + 1) <= MaxOpens
      /\ OpensBefore(prog, n + 1) = OpensBefore(prog, n) + 1
  <2>1. PICK m \in Nat : m = n + 1
    OBVIOUS
  <2>2. OpensBefore(prog, m) \in Nat /\ OpensBefore(prog, m) <= MaxOpens
    BY <1>2, OpensGrow
  <2>3. /\ OpensBefore(prog, n) \in Nat
        /\ OpensBefore(prog, n + 1) = OpensBefore(prog, n) + 1
    BY <1>2, <1>3, OpensGrow
  <2>. QED
    BY <2>1, <2>2, <2>3
<1>. QED
  BY <1>1, <1>4 DEF MaxOpens

LEMMA OpenTooType ==
  ASSUME TypeInv, NEW i \in Replicas, OpenToo(i)
  PROVE  TypeInv' /\ StepOf(i)
<1>1. PICK p : p = rep[i]
  OBVIOUS
<1>2. PICK cp : cp = Copied(p)
  OBVIOUS
<1>3. /\ p.pc = "copy" /\ shm.follow = "open" /\ shm.ret = 0
      /\ prog' = prog /\ shm' = shm /\ extraShmSize' = extraShmSize /\ deaths' = deaths
  BY <1>1 DEF OpenToo
<1>4. PICK desc \in Descs : desc = FreshDesc(rep, i)
  BY FreshDescIs
<1>5. PICK flags : flags = IF CallOf(p).op = "open" THEN CallOf(p).flags \ {"excl"}
                           ELSE CallOf(p).flags
  OBVIOUS
<1>6. PICK st \in Streams : st = FreshStream(CallOf(p).op = "fopen" /\ "read" \in flags)
  BY FreshType
<1>7. PICK n : n = IF CanOpen(file, flags) THEN WithFile(cp, desc, st)
                   ELSE Returned(Refreshed(p, extraShmSize), -1, << >>)
  OBVIOUS
<1>8. /\ rep' = [rep EXCEPT ![i] = [n EXCEPT !.pc = "call"]]
      /\ file' = IF CanOpen(file, flags) THEN Opened(file, flags) ELSE file
      /\ pos' = [pos EXCEPT ![desc] = IF CanOpen(file, flags) THEN 0 ELSE pos[desc]]
  BY <1>1, <1>2, <1>4, <1>5, <1>6, <1>7 DEF OpenToo
<1>9. /\ PlaceOK(prog, p, shm, extraShmSize) /\ extraShmSize \in Nat /\ prog \in Programs
      /\ Len(p.results) \in Nat /\ Len(prog.calls) \in Nat
      /\ RepOK(p, extraShmSize, OpensBefore(prog, Len(p.results)))
  BY <1>1, ReplicaFacts, ProgramType
<1>10. CallOf(p).op \in OpenOps /\ Len(p.results) < Len(prog.calls)
  BY <1>3, <1>9 DEF PlaceOK, FollowOf, CallOf
<1>11. PICK k \in Nat, size \in Nat :
              /\ k = OpensBefore(prog, Len(p.results)) /\ k < MaxOpens /\ k <= MaxOpens
              /\ k + 1 = OpensBefore(prog, Len(p.results) + 1) /\ size = extraShmSize
              /\ RepOK(p, size, k)
  <2>1. /\ OpensBefore(prog, Len(p.results)) \in Nat
        /\ OpensBefore(prog, Len(p.results)) < MaxOpens
        /\ OpensBefore(prog, Len(p.results) + 1) = OpensBefore(prog, Len(p.results)) + 1
    BY <1>1, <1>10, OpeningCall
  <2>2. PICK k \in Nat : k = OpensBefore(prog, Len(p.results))
    BY <2>1
  <2>3. PICK size \in Nat : size = extraShmSize
    BY <1>9
  <2>4. k < MaxOpens /\ k <= MaxOpens /\ k + 1 = OpensBefore(prog, Len(p.results) + 1)
    BY <2>1, <2>2 DEF MaxOpens
  <2>5. RepOK(p, size, k)
    BY <1>9, <2>2, <2>3
  <2>. QED
    BY <2>2, <2>3, <2>4, <2>5
<1>12. /\ RepOK(n, size, OpensBefore(prog, Len(n.results)))
       /\ Len(n.results) <= Len(prog.calls) /\ Len(n.results) = Len(p.results) + 1
       /\ n.mapped >= size
  <2>1. CASE CanOpen(file, flags)
    <3>1. RepOK(cp, extraShmSize, OpensBefore(prog, Len(p.results)))
          /\ Len(cp.results) = Len(p.results) + 1 /\ cp.mapped >= extraShmSize
      BY <1>1, <1>2, <1>3, CopiedOK, ZenonT(30)
    <3>2. RepOK(cp, size, k) /\ k < MaxOpens
      BY <1>11, <3>1
    <3>3. n = WithFile(cp, desc, st)
      BY <1>7, <2>1
    <3>4. RepOK(n, size, k + 1) /\ n.results = cp.results /\ n.mapped = cp.mapped
      BY <3>2, <3>3, WithFileOK
    <3>. QED
      BY <1>9, <1>10, <1>11, <3>1, <3>4, SMTT(30)
  <2>2. CASE ~CanOpen(file, flags)
    <3>1. PICK x : x = [ret |-> -1, data |-> << >>]
      OBVIOUS
    <3>2. x \in Results
      <4>1. << >> \in Seq(Int) /\ -1 \in Int
        BY EmptySeq
      <4>. QED
        BY <3>1, <4>1 DEF Results
    <3>3. n = Returned(Refreshed(p, size), x.ret, x.data)
      BY <1>7, <1>11, <2>2, <3>1
    <3>4. RepOK(p, size, k) /\ k <= MaxOpens
      BY <1>11
    <3>5. RepOK(n, size, k) /\ Len(n.results) = Len(p.results) + 1 /\ n.mapped >= size
      BY <3>2, <3>3, <3>4, RefreshedReturns
    <3>6. RepOK(n, size, k) /\ k + 1 \in Nat /\ k <= k + 1
      BY <3>5
    <3>7. RepOK(n, size, k + 1)
      BY <3>6, RepOKMonotone
    <3>. QED
      BY <1>9, <1>10, <1>11, <3>5, <3>7
  <2>. QED
    BY <2>1, <2>2
<1>13. n \in RepRecords /\ n.stream \in Streams /\ Len(n.results) \in Nat
  BY <1>12, RepFields DEF RepOK
<1>14. PICK q : q = At(n, "call", n.stream)
  OBVIOUS
<1>15. rep' = [rep EXCEPT ![i] = q]
  <2>1. PICK m : m = [n EXCEPT !.pc = "call"]
    OBVIOUS
  <2>2. m = q
    BY <1>13, <1>14, <2>1 DEF At, RepRecords
  <2>. QED
    BY <1>8, <2>1, <2>2
<1>16. /\ ReplicaOK(prog, q, shm, extraShmSize) /\ q.mapped = n.mapped
       /\ q.pc = "call" /\ q.results = n.results
  <2>1. PICK pc \in PCs : pc = "call"
    BY DEF PCs
  <2>2. PICK stream \in Streams : stream = n.stream
    BY <1>13
  <2>3. PICK j \in Nat : j = OpensBefore(prog, Len(n.results))
    BY <1>9, <1>13, OpensGrow
  <2>4. q = At(n, pc, stream) /\ RepOK(n, size, j)
    BY <1>12, <1>14, <2>1, <2>2, <2>3
  <2>5. RepOK(q, size, j) /\ q.pc = pc /\ q.results = n.results /\ q.mapped = n.mapped
    BY <2>4, MovedOK
  <2>. QED
    BY <1>11, <1>12, <2>1, <2>3, <2>5, Placed
<1>17. pos' \in [Descs -> Nat]
  <2>1. pos \in [Descs -> Nat] /\ pos[desc] \in Nat
    BY <1>4 DEF TypeInv
  <2>. QED
    BY <1>8, <2>1
<1>18. file' \in Files
  <2>1. file \in Files
    BY DEF TypeInv
  <2>. QED
    BY <1>8, <2>1, OpenedType
<1>19. rep[i].pc \notin Gone /\ q.mapped >= extraShmSize /\ Due(q) = Due(rep[i])
  BY <1>1, <1>3, <1>11, <1>12, <1>16 DEF Due, Gone
<1>. QED
  BY <1>3, <1>15, <1>16, <1>17, <1>18, <1>19, OneReplica DEF TypeInv

-----------------------------------------------------------------------------
(* The steps that every replica takes at once.                             *)

LEMMA AllReplicas ==
  ASSUME TypeInv, rep' = [i \in Replicas |-> rep'[i]], prog' = prog,
         \A i \in Replicas : ReplicaOK(prog, rep'[i], shm', extraShmSize'),
         ShmOK(shm'), extraShmSize' \in Nat, deaths' = deaths, file' \in Files,
         pos' \in [Descs -> Nat]
  PROVE  TypeInv'
<1>1. \A i \in Replicas : rep'[i] \in RepRecords
  BY DEF ReplicaOK, RepOK
<1>2. rep' \in [Replicas -> RepRecords]
  BY <1>1
<1>. QED
  BY <1>2 DEF TypeInv

\* They are making the same call.
LEMMA RestoredInStep ==
  ASSUME TypeInv, InStep(rep), NEW src, NEW pc \in {"call", "exit"}, Arrived(src, pc),
         NEW r, r = Restored(src)
  PROVE  /\ Len(rep[src].results) \in Nat
         /\ \A i \in Replicas : Len(r[i].results) = Len(rep[src].results)
<1>1. /\ src \in Replicas /\ src \in Alive /\ rep[src].pc = pc
      /\ \A i \in Replicas :
           \E j \in Alive : rep[j].pc = pc /\ r[i].results = rep[j].results
  BY RestoredOK
<1>2. ASSUME NEW j \in Alive, rep[j].pc = pc
      PROVE  Len(rep[j].results) = Len(rep[src].results) /\ Len(rep[src].results) \in Nat
  <2>1. Due(rep[j]) = Due(rep[src])
    BY <1>1, <1>2 DEF InStep, Alive
  <2>2. PICK p : p = rep[j]
    OBVIOUS
  <2>3. PICK q : q = rep[src]
    OBVIOUS
  <2>4. Len(p.results) \in Nat /\ Len(q.results) \in Nat
    BY <1>1, <1>2, <2>2, <2>3, ReplicaFacts DEF Alive
  <2>5. Due(p) = Due(q) /\ p.pc \notin {"own", "copy"} /\ q.pc \notin {"own", "copy"}
    BY <1>1, <1>2, <2>1, <2>2, <2>3
  <2>6. Len(p.results) = Len(q.results)
    BY <2>4, <2>5 DEF Due
  <2>. QED
    BY <2>2, <2>3, <2>4, <2>6
<1>3. Len(rep[src].results) \in Nat
  BY <1>1, <1>2
<1>4. ASSUME NEW i \in Replicas
      PROVE  Len(r[i].results) = Len(rep[src].results)
  <2>1. PICK j \in Alive : rep[j].pc = pc /\ r[i].results = rep[j].results
    BY <1>1, <1>4
  <2>. QED
    BY <1>2, <2>1
<1>. QED
  BY <1>3, <1>4

\* Everybody goes on to the same place, each with the results it had.
LEMMA AllInStep ==
  ASSUME NEW r, NEW n \in Nat, NEW to,
         \A i \in Replicas : Len(r[i].results) = n /\ r[i].pc = to
  PROVE  InStep(r)
BY DEF InStep, Due

LEMMA CheckOnlyType ==
  ASSUME TypeInv, InStep(rep), CheckOnly
  PROVE  TypeInv' /\ InStep(rep')
<1>1. PICK src \in Alive :
             /\ Arrived(src, "call") /\ HasCall(rep[src]) /\ CallOf(rep[src]).op \in Locals
             /\ rep' = [i \in Replicas |-> [Restored(src)[i] EXCEPT !.pc = "own"]]
  BY DEF CheckOnly
<1>2. prog' = prog /\ file' = file /\ pos' = pos /\ shm' = shm
      /\ extraShmSize' = extraShmSize /\ deaths' = deaths
  BY DEF CheckOnly
<1>3. PICK r : r = Restored(src)
  OBVIOUS
<1>4. \A i \in Replicas : r[i].pc = "call" /\ ReplicaOK(prog, r[i], shm, extraShmSize)
  BY <1>1, <1>3, RestoredOK
<1>5. PICK n \in Nat : n = Len(rep[src].results)
                       /\ \A i \in Replicas : Len(r[i].results) = n
  BY <1>1, <1>3, RestoredInStep
<1>6. n < Len(prog.calls) /\ prog.calls[n + 1].op \in Locals
  BY <1>1, <1>5 DEF HasCall, CallOf
<1>7. ASSUME NEW i \in Replicas
      PROVE  /\ ReplicaOK(prog, rep'[i], shm, extraShmSize)
             /\ Len(rep'[i].results) = n /\ rep'[i].pc = "own"
  <2>1. PICK p : p = r[i]
    OBVIOUS
  <2>2. PICK q : q = At(p, "own", p.stream)
    OBVIOUS
  <2>3. ReplicaOK(prog, p, shm, extraShmSize) /\ Len(p.results) = n
        /\ prog \in Programs /\ extraShmSize \in Nat
    BY <1>4, <1>5, <2>1 DEF TypeInv
  <2>4. p \in RepRecords
    BY <2>3 DEF ReplicaOK, RepOK
  <2>5. rep'[i] = [p EXCEPT !.pc = "own"]
    BY <1>1, <1>3, <2>1
  <2>6. rep'[i] = q
    BY <2>2, <2>4, <2>5 DEF At, RepRecords
  <2>7. PICK stream \in Streams : stream = p.stream
    BY <2>4, RepFields
  <2>8. PICK pc \in PCs : pc = "own"
    BY DEF PCs
  <2>9. PICK k \in Nat, size \in Nat : k = OpensBefore(prog, n) /\ size = extraShmSize
    BY <2>3, OpensGrow
  <2>10. RepOK(p, size, k) /\ q = At(p, pc, stream)
    BY <2>2, <2>3, <2>7, <2>8, <2>9 DEF ReplicaOK
  <2>11. RepOK(q, size, k) /\ q.pc = pc /\ q.results = p.results
    BY <2>10, MovedOK
  <2>12. PlaceOK(prog, q, shm, extraShmSize)
    BY <1>6, <2>3, <2>8, <2>11 DEF PlaceOK
  <2>. QED
    BY <2>3, <2>6, <2>8, <2>9, <2>11, <2>12 DEF ReplicaOK
<1>8. rep' = [i \in Replicas |-> rep'[i]]
  BY <1>1
<1>9. TypeInv'
  BY <1>2, <1>7, <1>8, AllReplicas DEF TypeInv
<1>10. InStep(rep')
  BY <1>7, AllInStep
<1>. QED
  BY <1>9, <1>10

\* The exit states are compared: everybody that is left makes the next call.
LEMMA CompareExitsType ==
  ASSUME TypeInv, InStep(rep), CompareExits
  PROVE  TypeInv' /\ InStep(rep')
<1>1. PICK src \in Alive :
             /\ Arrived(src, "exit")
             /\ LET r == Restored(src)
                    bad == BadProc([i \in Replicas |-> r[i].told])
                IN  \/ /\ bad \in Replicas
                       /\ \E voter \in Replicas \ {bad} :
                            rep' = [i \in Replicas |->
                                     [(IF i = bad THEN CopyOf(r[voter]) ELSE r[i]) EXCEPT
                                        !.pc = "call"]]
                    \/ /\ bad = AllAgree
                       /\ rep' = [i \in Replicas |-> [r[i] EXCEPT !.pc = "call"]]
                    \/ /\ bad = NoMajority
                       /\ rep' = [i \in Replicas |-> [r[i] EXCEPT !.pc = "failed"]]
  BY DEF CompareExits
<1>2. prog' = prog /\ file' = file /\ pos' = pos /\ shm' = shm
      /\ extraShmSize' = extraShmSize /\ deaths' = deaths
  BY DEF CompareExits
<1>3. PICK r : r = Restored(src)
  OBVIOUS
<1>4. \A i \in Replicas : r[i].pc = "exit" /\ ReplicaOK(prog, r[i], shm, extraShmSize)
  BY <1>1, <1>3, RestoredOK
<1>5. PICK n \in Nat : n = Len(rep[src].results)
                       /\ \A i \in Replicas : Len(r[i].results) = n
  BY <1>1, <1>3, RestoredInStep
<1> DEFINE Goes(to, g) ==
      /\ rep' = [i \in Replicas |-> [g[i] EXCEPT !.pc = to]]
      /\ \A i \in Replicas : \E j \in Replicas : g[i] = r[j] \/ g[i] = CopyOf(r[j])
<1>6. \E to, g : to \in {"call", "failed"} /\ Goes(to, g)
  <2>1. PICK bad : bad = BadProc([i \in Replicas |-> r[i].told])
    OBVIOUS
  <2>2. ASSUME NEW voter \in Replicas,
               rep' = [i \in Replicas |->
                        [(IF i = bad THEN CopyOf(r[voter]) ELSE r[i]) EXCEPT !.pc = "call"]]
        PROVE  \E to, g : to \in {"call", "failed"} /\ Goes(to, g)
    <3>1. PICK g : g = [i \in Replicas |-> IF i = bad THEN CopyOf(r[voter]) ELSE r[i]]
      OBVIOUS
    <3>2. \A i \in Replicas : \E j \in Replicas : g[i] = r[j] \/ g[i] = CopyOf(r[j])
      <4>1. ASSUME NEW i \in Replicas
            PROVE  \E j \in Replicas : g[i] = r[j] \/ g[i] = CopyOf(r[j])
        <5>1. g[i] = CopyOf(r[voter]) \/ g[i] = r[i]
          BY <3>1, <4>1
        <5>. QED
          BY <5>1
      <4>. QED
        BY <4>1
    <3>3. rep' = [i \in Replicas |-> [g[i] EXCEPT !.pc = "call"]]
      <4>1. \A i \in Replicas : g[i] = IF i = bad THEN CopyOf(r[voter]) ELSE r[i]
        BY <3>1
      <4>. QED
        BY <2>2, <4>1
    <3>4. Goes("call", g)
      BY <3>2, <3>3
    <3> HIDE DEF Goes
    <3>. QED
      BY <3>4
  <2> HIDE DEF Goes
  <2>3. ASSUME NEW to \in {"call", "failed"},
               rep' = [i \in Replicas |-> [r[i] EXCEPT !.pc = to]]
        PROVE  Goes(to, r)
    <3>1. \A i \in Replicas : \E j \in Replicas : r[i] = r[j] \/ r[i] = CopyOf(r[j])
      OBVIOUS
    <3>. QED
      BY <2>3, <3>1 DEF Goes
  <2>4. \/ \E voter \in Replicas :
             rep' = [i \in Replicas |->
                      [(IF i = bad THEN CopyOf(r[voter]) ELSE r[i]) EXCEPT !.pc = "call"]]
        \/ \E to \in {"call", "failed"} : rep' = [i \in Replicas |-> [r[i] EXCEPT !.pc = to]]
    BY <1>1, <1>3, <2>1
  <2>. QED
    BY <2>2, <2>3, <2>4
<1>7. PICK to, g : to \in {"call", "failed"} /\ Goes(to, g)
  BY <1>6
<1> HIDE DEF Goes
<1>8. ASSUME NEW i \in Replicas
      PROVE  /\ ReplicaOK(prog, rep'[i], shm, extraShmSize)
             /\ Len(rep'[i].results) = n /\ rep'[i].pc = to
  <2>1. PICK j \in Replicas : g[i] = r[j] \/ g[i] = CopyOf(r[j])
    BY <1>7, <1>8 DEF Goes
  <2>2. PICK p : p = g[i]
    OBVIOUS
  <2>3. PICK e : e = r[j]
    OBVIOUS
  <2>4. ReplicaOK(prog, e, shm, extraShmSize) /\ Len(e.results) = n
        /\ prog \in Programs /\ extraShmSize \in Nat
    BY <1>4, <1>5, <2>3 DEF TypeInv
  <2>5. PICK k \in Nat, size \in Nat : k = OpensBefore(prog, n) /\ size = extraShmSize
    BY <2>4, OpensGrow
  <2>6. RepOK(e, size, k) /\ n <= Len(prog.calls)
    BY <2>4, <2>5 DEF ReplicaOK, PlaceOK
  <2>7. RepOK(p, size, k) /\ Len(p.results) = n
    <3>1. CASE p = e
      BY <2>4, <2>6, <3>1
    <3>2. CASE p = CopyOf(e)
      <4>1. RepOK(p, size, k) /\ p.results = e.results
        BY <2>6, <3>2, CopyOfOK
      <4>. QED
        BY <2>4, <4>1
    <3>. QED
      BY <2>1, <2>2, <2>3, <3>1, <3>2
  <2>8. p \in RepRecords
    BY <2>7 DEF RepOK
  <2>9. PICK stream \in Streams : stream = p.stream
    BY <2>8, RepFields
  <2>10. PICK pc \in PCs : pc = to
    BY <1>7 DEF PCs
  <2>11. PICK q : q = At(p, pc, stream)
    OBVIOUS
  <2>12. rep'[i] = [p EXCEPT !.pc = to]
    BY <1>7, <2>2 DEF Goes
  <2>13. rep'[i] = q
    BY <2>8, <2>9, <2>10, <2>11, <2>12 DEF At, RepRecords
  <2>14. RepOK(p, size, k)
    BY <2>7
  <2>15. RepOK(q, size, k) /\ q.pc = pc /\ q.results = p.results
    BY <2>11, <2>14, MovedOK
  <2>16. ReplicaOK(prog, q, shm, extraShmSize)
    BY <1>7, <2>5, <2>6, <2>7, <2>10, <2>15, Placed
  <2>. QED
    BY <2>7, <2>10, <2>13, <2>15, <2>16
<1>9. rep' = [i \in Replicas |-> rep'[i]]
  BY <1>7 DEF Goes
<1>10. TypeInv'
  BY <1>2, <1>8, <1>9, AllReplicas DEF TypeInv
<1>11. InStep(rep')
  BY <1>8, AllInStep, SMTT(30)
<1>. QED
  BY <1>10, <1>11

\* Has the master opened the file?
Opening(o) == o.follow = "open" /\ o.ret = 0

\* What the master's call leaves it with, before its result.
Called(m, r, o, size) ==
  IF o.follow = "open" THEN MasterOpens(m, r, o, size)
  ELSE [Refreshed(m, size) EXCEPT !.stream = o.w.st]

LEMMA MasterGoes ==
  ASSUME NEW m, NEW size \in Nat, NEW k \in Nat, RepOK(m, size, k), k <= MaxOpens,
         NEW r, NEW o, IsOutcome(o), Opening(o) => k < MaxOpens,
         NEW p, p = Called(m, r, o, size)
  PROVE  /\ Opening(o) => RepOK(p, size, k + 1)
         /\ ~Opening(o) => RepOK(p, size, k)
         /\ p.results = m.results
         /\ p.shmFd = WithShmFd(m).shmFd
         /\ Opening(o) => /\ p.fd = LowestFree(WithShmFd(m).fds)
                          /\ p.fds = WithLowest(WithShmFd(m).fds)
         /\ ~Opening(o) => p.fd = m.fd /\ p.desc = m.desc /\ p.fds = WithShmFd(m).fds
<1>1. PICK f : f = Refreshed(m, size)
  OBVIOUS
<1>2. PICK st \in Streams : st = o.w.st
  BY DEF IsOutcome, Views
<1>3. /\ RepOK(f, size, k) /\ f.results = m.results /\ f.fd = m.fd /\ f.desc = m.desc
      /\ f.shmFd = WithShmFd(m).shmFd /\ f.fds = WithShmFd(m).fds
  BY <1>1, RefreshedOK
<1>4. RepOK(f, size, k) /\ f \in RepRecords
  BY <1>3 DEF RepOK
<1>5. CASE Opening(o)
  <2>1. PICK desc \in Descs : desc = FreshDesc(r, Master)
    BY FreshDescIs DEF Master, Replicas, Voters
  <2>2. p = WithFile(f, desc, st) /\ k < MaxOpens
    BY <1>1, <1>2, <1>5, <2>1 DEF Called, MasterOpens, Opening
  <2>3. /\ RepOK(p, size, k + 1) /\ p.results = f.results /\ p.shmFd = f.shmFd
        /\ p.fd = LowestFree(f.fds) /\ p.fds = WithLowest(f.fds)
    BY <1>4, <2>2, WithFileOK
  <2>. QED
    BY <1>2, <1>3, <1>5, <2>3
<1>6. CASE o.follow = "open" /\ o.ret # 0
  <2>1. p = f
    BY <1>1, <1>6 DEF Called, MasterOpens
  <2>. QED
    BY <1>3, <1>6, <2>1 DEF Opening
<1>7. CASE o.follow # "open"
  <2>1. p = [f EXCEPT !.stream = st]
    BY <1>1, <1>2, <1>7 DEF Called
  <2>2. PICK pc \in PCs : pc = f.pc
    BY <1>4, RepFields
  <2>3. p = At(f, pc, st)
    BY <1>4, <2>1, <2>2 DEF At, RepRecords
  <2>4. /\ RepOK(p, size, k) /\ p.results = f.results /\ p.fds = f.fds /\ p.shmFd = f.shmFd
        /\ p.fd = f.fd /\ p.desc = f.desc
    BY <1>4, <2>3, MovedOK
  <2>5. ~Opening(o)
    BY <1>7 DEF Opening
  <2>. QED
    BY <1>3, <2>4, <2>5
<1>. QED
  BY <1>5, <1>6, <1>7 DEF Opening

\* What a master's call leaves in shared memory.
Left(o) ==
  [ret |-> o.ret, sent |-> o.sent, len |-> Len(o.data), offs |-> o.offs, eof |-> o.eof,
   follow |-> o.follow, compare |-> o.compare]

\* Everybody is at call c, the one after n others, and the master has made it.
CallMade(src, r, n, c, o, size, p) ==
  /\ Arrived(src, "call") /\ src \in Alive /\ r = Restored(src)
  /\ n \in Nat /\ n = Len(rep[src].results) /\ n < Len(prog.calls)
  /\ \A i \in Replicas : Len(r[i].results) = n /\ r[i].pc = "call"
  /\ c \in Calls /\ c = prog.calls[n + 1] /\ c.op \notin Locals
  /\ View(r, Master) \in Views /\ View(r, Master).file = file
  /\ o = Served(View(r, Master), c)
  /\ IsOutcome(o) /\ o.follow = FollowOf(c.op) /\ o.w.file.seeks = file.seeks
  /\ c.op \in OpenOps /\ o.ret = 0 => o.w.file.exists
  /\ size \in Nat /\ size >= extraShmSize /\ size >= 1 + Len(o.sent)
  /\ p = Called(r[Master], r, o, size)
  /\ file' = o.w.file
  /\ pos' = IF p.desc = NoDesc THEN pos ELSE [pos EXCEPT ![p.desc] = o.w.pos]
  /\ extraShmSize' = size
  /\ shm' = Left(o)
  /\ rep' = [i \in Replicas |-> rep'[i]]
  /\ \A i \in Replicas \ {Master} : rep'[i] = [r[i] EXCEPT !.pc = "copy"]
  /\ rep'[Master] = [Returned(p, o.ret, o.data) EXCEPT
                        !.pc = IF o.compare THEN "tell" ELSE "call"]
  /\ prog' = prog /\ deaths' = deaths

LEMMA MasterCallIs ==
  ASSUME TypeInv, InStep(rep), MasterCall
  PROVE  \E src, r, n, c, o, size, p : CallMade(src, r, n, c, o, size, p)
<1>1. PICK src \in Alive :
    /\ Arrived(src, "call") /\ HasCall(rep[src])
    /\ CallOf(rep[src]).op \notin Locals
    /\ LET r == Restored(src)
           c == CallOf(rep[src])
           o == Served(View(r, Master), c)
           size == Resized(1 + Len(o.sent))
           p == IF o.follow = "open" THEN MasterOpens(r[Master], r, o, size)
                ELSE [Refreshed(r[Master], size) EXCEPT !.stream = o.w.st]
       IN  /\ file' = o.w.file
           /\ pos' = IF p.desc = NoDesc THEN pos ELSE [pos EXCEPT ![p.desc] = o.w.pos]
           /\ extraShmSize' = size
           /\ shm' = [ret |-> o.ret, sent |-> o.sent, len |-> Len(o.data),
                      offs |-> o.offs, eof |-> o.eof, follow |-> o.follow,
                      compare |-> o.compare]
           /\ rep' = [i \in Replicas |->
                IF i # Master THEN [r[i] EXCEPT !.pc = "copy"]
                ELSE [Returned(p, o.ret, o.data) EXCEPT
                        !.pc = IF o.compare THEN "tell" ELSE "call"]]
           /\ UNCHANGED <<prog, deaths>>
  BY ZenonT(30) DEF MasterCall
<1>2. PICK r : r = Restored(src)
  OBVIOUS
<1>3. PICK n \in Nat : n = Len(rep[src].results)
                       /\ \A i \in Replicas : Len(r[i].results) = n
  BY <1>1, <1>2, RestoredInStep
<1>4. \A i \in Replicas : r[i].pc = "call" /\ ReplicaOK(prog, r[i], shm, extraShmSize)
  BY <1>1, <1>2, RestoredOK
<1>5. PICK c : c = CallOf(rep[src])
  OBVIOUS
<1>6. n < Len(prog.calls) /\ c = prog.calls[n + 1] /\ c.op \notin Locals
  BY <1>1, <1>3, <1>5, ZenonT(30) DEF HasCall, CallOf
<1>7. c \in Calls
  <2>1. prog \in Programs
    BY DEF TypeInv
  <2>2. /\ Len(prog.calls) \in Nat
        /\ \A k \in 1 .. Len(prog.calls) : prog.calls[k] \in Calls
    BY <2>1, ProgramType
  <2>. QED
    BY <1>6, <2>2
<1>8. PICK w : w = View(r, Master)
  OBVIOUS
<1>9. w \in Views /\ w.file = file
  <2>1. Master \in Replicas
    BY DEF Master, Replicas, Voters
  <2>2. r[Master] \in RepRecords
    BY <1>4, <2>1 DEF ReplicaOK, RepOK
  <2>3. r[Master].stream \in Streams /\ r[Master].desc \in Descs \cup {NoDesc}
    BY <2>2, RepFields
  <2>4. file \in Files /\ pos \in [Descs -> Nat]
    BY DEF TypeInv
  <2>. QED
    BY <1>8, <2>3, <2>4, ViewIs
<1>10. PICK o : o = Served(w, c)
  OBVIOUS
<1>11. /\ IsOutcome(o) /\ o.follow = FollowOf(c.op) /\ o.w.file.seeks = w.file.seeks
       /\ c.op \in OpenOps /\ o.ret = 0 => o.w.file.exists
  BY <1>6, <1>7, <1>9, <1>10, ServedType
<1>12. PICK size : size = Resized(1 + Len(o.sent))
  OBVIOUS
<1>13. size \in Nat /\ size >= extraShmSize /\ size >= 1 + Len(o.sent)
  <2>1. extraShmSize \in Nat
    BY DEF TypeInv
  <2>2. Len(o.sent) \in Nat
    BY <1>11 DEF IsOutcome
  <2>. QED
    BY <1>12, <2>1, <2>2 DEF Resized
<1>14. PICK p : p = Called(r[Master], r, o, size)
  OBVIOUS
<1>15. /\ file' = o.w.file
       /\ pos' = IF p.desc = NoDesc THEN pos ELSE [pos EXCEPT ![p.desc] = o.w.pos]
       /\ extraShmSize' = size /\ shm' = Left(o) /\ prog' = prog /\ deaths' = deaths
  BY <1>1, <1>2, <1>5, <1>8, <1>10, <1>12, <1>14 DEF Called, Left
<1>16. rep' = [i \in Replicas |->
            IF i # Master THEN [r[i] EXCEPT !.pc = "copy"]
            ELSE [Returned(p, o.ret, o.data) EXCEPT
                    !.pc = IF o.compare THEN "tell" ELSE "call"]]
  BY <1>1, <1>2, <1>5, <1>8, <1>10, <1>12, <1>14, SMTT(30) DEF Called
<1>17. /\ rep' = [i \in Replicas |-> rep'[i]]
       /\ \A i \in Replicas \ {Master} : rep'[i] = [r[i] EXCEPT !.pc = "copy"]
       /\ rep'[Master] = [Returned(p, o.ret, o.data) EXCEPT
                            !.pc = IF o.compare THEN "tell" ELSE "call"]
  BY <1>16 DEF Master, Replicas, Voters
<1>18. CallMade(src, r, n, c, o, size, p)
  <2>1. /\ \A i \in Replicas : Len(r[i].results) = n /\ r[i].pc = "call"
        /\ View(r, Master) \in Views /\ View(r, Master).file = file
        /\ o = Served(View(r, Master), c)
        /\ o.w.file.seeks = file.seeks
    BY <1>3, <1>4, <1>8, <1>9, <1>10, <1>11
  <2>. QED
    BY <1>1, <1>2, <1>3, <1>6, <1>7, <1>11, <1>13, <1>14, <1>15, <1>17, <2>1, ZenonT(30) DEF CallMade
<1>. QED
  BY <1>18

\* A slave past plr_masterAction is as it was, and has the result to copy.
LEMMA SlaveCalled ==
  ASSUME TypeInv, NEW src, NEW r, NEW n, NEW c, NEW o, NEW size, NEW p,
         CallMade(src, r, n, c, o, size, p), NEW i \in Replicas, i # Master,
         NEW e, e = r[i], NEW q, q = rep'[i]
  PROVE  /\ ReplicaOK(prog, q, shm', size) /\ q.pc = "copy"
         /\ Len(q.results) = n /\ Due(q) = n + 1
         /\ q.results = e.results /\ q.fds = e.fds /\ q.shmFd = e.shmFd /\ q.fd = e.fd
         /\ q.desc = e.desc /\ q.mapped = e.mapped
<1>1. /\ Arrived(src, "call") /\ r = Restored(src) /\ n \in Nat /\ n < Len(prog.calls)
      /\ Len(r[i].results) = n /\ r[i].pc = "call"
      /\ c = prog.calls[n + 1] /\ c.op \notin Locals
      /\ o.follow = FollowOf(c.op) /\ size \in Nat /\ size >= extraShmSize
      /\ size >= 1 + Len(o.sent) /\ shm' = Left(o)
  BY ZenonT(30) DEF CallMade
<1>2. ReplicaOK(prog, e, shm, extraShmSize) /\ e.pc = "call" /\ Len(e.results) = n
  <2>1. \A j \in Replicas : ReplicaOK(prog, r[j], shm, extraShmSize)
    BY <1>1, RestoredOK
  <2>. QED
    BY <1>1, <2>1
<1>3. prog \in Programs /\ extraShmSize \in Nat
  BY DEF TypeInv
<1>4. PICK k \in Nat, size0 \in Nat : k = OpensBefore(prog, n) /\ size0 = extraShmSize
  BY <1>1, <1>3, OpensGrow
<1>5. RepOK(e, size0, k) /\ size0 <= size /\ size \in Nat
  BY <1>1, <1>2, <1>4 DEF ReplicaOK
<1>6. e \in RepRecords
  BY <1>5 DEF RepOK
<1>7. PICK stream \in Streams : stream = e.stream
  BY <1>6, RepFields
<1>8. PICK pc \in PCs : pc = "copy"
  BY DEF PCs
<1>9. q = At(e, pc, stream)
  <2>1. q = [e EXCEPT !.pc = "copy"]
    BY ZenonT(30) DEF CallMade
  <2>. QED
    BY <1>6, <1>7, <1>8, <2>1 DEF At, RepRecords
<1>10. RepOK(e, size, k)
  BY <1>5, RepOKMonotone
<1>11. /\ RepOK(q, size, k) /\ q.pc = pc /\ q.results = e.results /\ q.fds = e.fds
       /\ q.shmFd = e.shmFd /\ q.fd = e.fd /\ q.desc = e.desc /\ q.mapped = e.mapped
  BY <1>5, <1>9, <1>10, MovedOK
<1>12. PlaceOK(prog, q, shm', size)
  <2>1. shm'.follow = o.follow /\ shm'.sent = o.sent
    BY <1>1 DEF Left
  <2>. QED
    BY <1>1, <1>2, <1>8, <1>11, <2>1 DEF PlaceOK
<1>13. Due(q) = n + 1
  BY <1>2, <1>8, <1>11 DEF Due
<1>. QED
  BY <1>2, <1>4, <1>8, <1>11, <1>12, <1>13 DEF ReplicaOK

\* The master has the call's result already.
LEMMA MasterCalled ==
  ASSUME TypeInv, NEW src, NEW r, NEW n, NEW c, NEW o, NEW size, NEW p,
         CallMade(src, r, n, c, o, size, p), NEW m, m = r[Master], NEW q, q = rep'[Master]
  PROVE  /\ ReplicaOK(prog, q, shm', size) /\ Len(q.results) = n + 1 /\ Due(q) = n + 1
         /\ q.pc = IF o.compare THEN "tell" ELSE "call"
         /\ \E x \in Results : /\ q.results = Longer(m.results, x)
                               /\ x.ret = o.ret /\ x.data = o.data
         /\ q.shmFd = WithShmFd(m).shmFd
         /\ Opening(o) => /\ q.fd = LowestFree(WithShmFd(m).fds)
                          /\ q.fds = WithLowest(WithShmFd(m).fds)
         /\ ~Opening(o) => q.fd = m.fd /\ q.fds = WithShmFd(m).fds
         /\ p.desc \in Descs \cup {NoDesc}
<1>1. /\ Arrived(src, "call") /\ r = Restored(src) /\ n \in Nat /\ n < Len(prog.calls)
      /\ Len(r[Master].results) = n /\ r[Master].pc = "call"
      /\ c \in Calls /\ c = prog.calls[n + 1] /\ c.op \notin Locals /\ IsOutcome(o)
      /\ o.follow = FollowOf(c.op) /\ size \in Nat /\ size >= extraShmSize
      /\ shm' = Left(o) /\ p = Called(r[Master], r, o, size)
  <2>1. Master \in Replicas
    BY DEF Master, Replicas, Voters
  <2>. QED
    BY <2>1, ZenonT(30) DEF CallMade
<1>2. ReplicaOK(prog, m, shm, extraShmSize) /\ m.pc = "call" /\ Len(m.results) = n
  <2>1. \A j \in Replicas : ReplicaOK(prog, r[j], shm, extraShmSize)
    BY <1>1, RestoredOK
  <2>. QED
    BY <1>1, <2>1 DEF Master, Replicas, Voters
<1>3. prog \in Programs /\ extraShmSize \in Nat
  BY DEF TypeInv
<1>4. PICK k \in Nat, size0 \in Nat : k = OpensBefore(prog, n) /\ size0 = extraShmSize
  BY <1>1, <1>3, OpensGrow
<1>5. RepOK(m, size0, k) /\ size0 <= size /\ size \in Nat /\ k <= MaxOpens
  BY <1>1, <1>2, <1>3, <1>4, OpensGrow DEF ReplicaOK
<1>6. RepOK(m, size, k)
  BY <1>5, RepOKMonotone
<1>7. PICK k2 \in Nat : k2 = OpensBefore(prog, n + 1)
  <2>1. n + 1 \in Nat
    BY <1>1
  <2>. QED
    BY <1>3, <2>1, OpensGrow
<1>8. k <= k2 /\ (Opening(o) => k2 = k + 1 /\ k < MaxOpens)
  <2>1. k <= k2
    BY <1>1, <1>3, <1>4, <1>7, OpensGrow
  <2>2. ASSUME Opening(o)
        PROVE  k2 = k + 1 /\ k < MaxOpens
    <3>1. c.op \in OpenOps
      BY <1>1, <2>2 DEF Opening, FollowOf
    <3>2. Len(prog.calls) \in Nat
      BY <1>3, ProgramType
    <3>3. n + 1 <= Len(prog.calls) /\ prog.calls[n + 1].op \in OpenOps
      BY <1>1, <3>1, <3>2
    <3>4. k2 = k + 1
      BY <1>1, <1>3, <1>4, <1>7, <3>3, OpensGrow
    <3>5. k2 <= MaxOpens
      <4>1. PICK n1 \in Nat : n1 = n + 1
        BY <1>1
      <4>2. OpensBefore(prog, n1) <= MaxOpens
        BY <1>3, <4>1, OpensGrow
      <4>. QED
        BY <1>7, <4>1, <4>2
    <3>. QED
      BY <3>4, <3>5 DEF MaxOpens
  <2>. QED
    BY <2>1, <2>2
<1>9. PICK k1 \in Nat : (Opening(o) => k1 = k + 1) /\ (~Opening(o) => k1 = k) /\ k1 <= k2
  BY <1>8
<1>10. PICK s \in Nat : s = size
  BY <1>1
<1>11. /\ RepOK(p, s, k1) /\ p.results = m.results /\ p.shmFd = WithShmFd(m).shmFd
       /\ Opening(o) => /\ p.fd = LowestFree(WithShmFd(m).fds)
                        /\ p.fds = WithLowest(WithShmFd(m).fds)
       /\ ~Opening(o) => p.fd = m.fd /\ p.fds = WithShmFd(m).fds
  <2>1. PICK e : e = m
    OBVIOUS
  <2>2. RepOK(e, s, k) /\ k <= MaxOpens /\ (Opening(o) => k < MaxOpens)
        /\ p = Called(e, r, o, s) /\ IsOutcome(o)
    BY <1>1, <1>5, <1>6, <1>8, <1>10, <2>1
  <2>3. /\ Opening(o) => RepOK(p, s, k + 1)
        /\ ~Opening(o) => RepOK(p, s, k)
        /\ p.results = e.results /\ p.shmFd = WithShmFd(e).shmFd
        /\ Opening(o) => /\ p.fd = LowestFree(WithShmFd(e).fds)
                         /\ p.fds = WithLowest(WithShmFd(e).fds)
        /\ ~Opening(o) => p.fd = e.fd /\ p.fds = WithShmFd(e).fds
    BY <2>2, MasterGoes
  <2>. QED
    BY <1>9, <2>1, <2>3
<1>12. PICK x \in Results : x.ret = o.ret /\ x.data = o.data
  <2>1. o.ret \in Int /\ o.data \in Seq(Int)
    <3>1. o.ret \in Int /\ o.data \in Seq(Nat)
      BY <1>1 DEF IsOutcome
    <3>. QED
      BY <3>1
  <2>2. PICK y : y = [ret |-> o.ret, data |-> o.data]
    OBVIOUS
  <2>3. y \in Results /\ y.ret = o.ret /\ y.data = o.data
    BY <2>1, <2>2 DEF Results
  <2>. QED
    BY <2>3
<1>13. RepOK(p, s, k1) /\ s \in Nat /\ k1 \in Nat
  BY <1>11
<1>14. PICK g : g = Returned(p, x.ret, x.data)
  OBVIOUS
<1>15. /\ RepOK(g, s, k1) /\ g.results = Longer(p.results, x)
       /\ Len(g.results) = Len(p.results) + 1
       /\ g.fds = p.fds /\ g.shmFd = p.shmFd /\ g.fd = p.fd
  BY <1>13, <1>14, ReturnedOK
<1>16. g \in RepRecords
  BY <1>15 DEF RepOK
<1>17. PICK stream \in Streams : stream = g.stream
  BY <1>16, RepFields
<1>18. PICK pc \in PCs : pc = IF o.compare THEN "tell" ELSE "call"
  BY DEF PCs
<1>19. q = At(g, pc, stream)
  <2>1. q = [g EXCEPT !.pc = pc]
    BY <1>12, <1>14, <1>18, ZenonT(30) DEF CallMade
  <2>. QED
    BY <1>16, <1>17, <2>1 DEF At, RepRecords
<1>20. /\ RepOK(q, s, k1) /\ q.pc = pc /\ q.results = g.results /\ q.fds = g.fds
       /\ q.shmFd = g.shmFd /\ q.fd = g.fd
  <2>1. RepOK(g, s, k1)
    BY <1>15
  <2>. QED
    BY <1>19, <2>1, MovedOK
<1>21. RepOK(q, s, k2)
  <2>1. RepOK(q, s, k1) /\ k1 <= k2 /\ s <= s
    BY <1>9, <1>20
  <2>. QED
    BY <2>1, RepOKMonotone
<1>22. Len(q.results) = n + 1
  BY <1>2, <1>11, <1>15, <1>20
<1>23. PlaceOK(prog, q, shm', size)
  <2>1. shm'.follow = o.follow /\ o.compare = (o.follow = "fseek")
    BY <1>1 DEF Left, IsOutcome
  <2>2. n + 1 <= Len(prog.calls)
    BY <1>1, <1>3, ProgramType
  <2>. QED
    BY <1>18, <1>20, <1>22, <2>1, <2>2 DEF PlaceOK
<1>24. Due(q) = n + 1
  BY <1>1, <1>18, <1>20, <1>22 DEF Due
<1>25. ReplicaOK(prog, q, shm', size)
  BY <1>7, <1>10, <1>21, <1>22, <1>23 DEF ReplicaOK
<1>26. q.results = Longer(m.results, x)
  BY <1>11, <1>15, <1>20
<1>27. p.desc \in Descs \cup {NoDesc}
  BY <1>11, RepFields DEF RepOK
<1>28. /\ q.shmFd = WithShmFd(m).shmFd
       /\ Opening(o) => /\ q.fd = LowestFree(WithShmFd(m).fds)
                        /\ q.fds = WithLowest(WithShmFd(m).fds)
       /\ ~Opening(o) => q.fd = m.fd /\ q.fds = WithShmFd(m).fds
  BY <1>11, <1>15, <1>20
<1>. QED
  BY <1>12, <1>18, <1>20, <1>22, <1>24, <1>25, <1>26, <1>27, <1>28

LEMMA MasterCallType ==
  ASSUME TypeInv, InStep(rep), MasterCall
  PROVE  TypeInv' /\ InStep(rep')
<1>1. PICK src, r, n, c, o, size, p : CallMade(src, r, n, c, o, size, p)
  BY MasterCallIs
<1>2. /\ IsOutcome(o) /\ file' = o.w.file /\ size \in Nat /\ extraShmSize' = size
      /\ pos' = IF p.desc = NoDesc THEN pos ELSE [pos EXCEPT ![p.desc] = o.w.pos]
      /\ shm' = Left(o) /\ rep' = [i \in Replicas |-> rep'[i]]
      /\ prog' = prog /\ deaths' = deaths
  BY <1>1, ZenonT(30) DEF CallMade
<1>3. ASSUME NEW i \in Replicas
      PROVE  ReplicaOK(prog, rep'[i], shm', size) /\ Due(rep'[i]) = n + 1
  <2>1. PICK q : q = rep'[i]
    OBVIOUS
  <2>2. CASE i = Master
    BY <1>1, <2>1, <2>2, MasterCalled
  <2>3. CASE i # Master
    BY <1>1, <2>1, <2>3, SlaveCalled
  <2>. QED
    BY <2>1, <2>2, <2>3
<1>4. ShmOK(shm')
  BY <1>2 DEF Left, ShmOK, IsOutcome
<1>5. file' \in Files /\ pos' \in [Descs -> Nat]
  <2>1. o.w.file \in Files /\ o.w.pos \in Nat
    BY <1>2 DEF IsOutcome, Views
  <2>2. pos \in [Descs -> Nat]
    BY DEF TypeInv
  <2>. QED
    BY <1>2, <2>1, <2>2
<1>6. TypeInv'
  BY <1>2, <1>3, <1>4, <1>5, AllReplicas
<1>7. InStep(rep')
  BY <1>3 DEF InStep
<1>. QED
  BY <1>6, <1>7

-----------------------------------------------------------------------------
(* The steps together.                                                     *)

\* A step of one replica.
StepsOf(i) ==
  OwnCall(i) \/ TakeResult(i) \/ TakeOffset(i) \/ OpenToo(i) \/ SeekStream(i)
  \/ FillStream(i) \/ ProbeEof(i) \/ Tell(i) \/ Finish(i) \/ Die(i)

LEMMA ReplicaStep ==
  ASSUME TypeInv, NEW i \in Replicas, StepsOf(i)
  PROVE  TypeInv' /\ StepOf(i)
<1>1. CASE OwnCall(i)
  BY <1>1, OwnCallType
<1>2. CASE TakeResult(i)
  BY <1>2, TakeResultType
<1>3. CASE TakeOffset(i)
  BY <1>3, TakeOffsetType
<1>4. CASE OpenToo(i)
  BY <1>4, OpenTooType
<1>5. CASE SeekStream(i)
  BY <1>5, SeekStreamType
<1>6. CASE FillStream(i)
  BY <1>6, FillStreamType
<1>7. CASE ProbeEof(i)
  BY <1>7, ProbeEofType
<1>8. CASE Tell(i)
  BY <1>8, TellType
<1>9. CASE Finish(i)
  BY <1>9, FinishType
<1>10. CASE Die(i)
  BY <1>10, DieType
<1>. QED
  BY <1>1, <1>2, <1>3, <1>4, <1>5, <1>6, <1>7, <1>8, <1>9, <1>10 DEF StepsOf

\* One replica gets no further than the call that everybody is making.
LEMMA StepInStep ==
  ASSUME InStep(rep), NEW i \in Replicas, StepOf(i)
  PROVE  InStep(rep')
<1>1. ASSUME NEW j \in Replicas, rep'[j].pc \notin Gone
      PROVE  rep[j].pc \notin Gone /\ Due(rep'[j]) = Due(rep[j])
  BY <1>1 DEF StepOf
<1>. QED
  BY <1>1 DEF InStep

Inv == TypeInv /\ InStep(rep)

LEMMA InvInit == Init => Inv
<1>1. SUFFICES ASSUME Init
               PROVE  Inv
  OBVIOUS
<1>2. TypeInv
  BY <1>1, TypeInit
<1>3. \A i, j \in Replicas : rep[i] = rep[j]
  BY <1>1 DEF Init
<1>4. InStep(rep)
  BY <1>3 DEF InStep
<1>. QED
  BY <1>2, <1>4 DEF Inv

LEMMA InvNext == Inv /\ [Next]_vars => Inv'
<1>1. SUFFICES ASSUME Inv, [Next]_vars
               PROVE  Inv'
  OBVIOUS
<1>2. TypeInv /\ InStep(rep)
  BY <1>1 DEF Inv
<1>3. CASE CheckOnly
  BY <1>2, <1>3, CheckOnlyType DEF Inv
<1>4. CASE MasterCall
  BY <1>2, <1>4, MasterCallType DEF Inv
<1>5. CASE CompareExits
  BY <1>2, <1>5, CompareExitsType DEF Inv
<1>6. CASE \E i \in Replicas : StepsOf(i)
  <2>1. PICK i \in Replicas : StepsOf(i)
    BY <1>6
  <2>2. TypeInv' /\ StepOf(i)
    BY <1>2, <2>1, ReplicaStep
  <2>3. InStep(rep')
    BY <1>2, <2>2, StepInStep
  <2>. QED
    BY <2>2, <2>3 DEF Inv
<1>7. CASE UNCHANGED vars
  <2>1. /\ prog' = prog /\ file' = file /\ pos' = pos /\ rep' = rep /\ shm' = shm
        /\ extraShmSize' = extraShmSize /\ deaths' = deaths
    BY <1>7 DEF vars
  <2>2. TypeInv'
    BY <1>2, <2>1 DEF TypeInv
  <2>3. InStep(rep')
    BY <1>2, <2>1
  <2>. QED
    BY <2>2, <2>3 DEF Inv
<1>. QED
  BY <1>1, <1>3, <1>4, <1>5, <1>6, <1>7 DEF Next, StepsOf

LEMMA InvAlways == Spec => []Inv
BY InvInit, InvNext, PTL DEF Spec

LEMMA InvTypes == Inv => TypeOK
<1>1. SUFFICES ASSUME Inv
               PROVE  TypeOK
  OBVIOUS
<1>2. /\ prog \in Programs /\ file \in Files /\ pos \in [Descs -> Nat]
      /\ deaths \in 0 .. prog.deaths /\ TypeInv
  BY <1>1 DEF Inv, TypeInv
<1>3. ASSUME NEW i \in Replicas
      PROVE  /\ rep[i].pc \in PCs
             /\ rep[i].desc \in Descs \cup {NoDesc}
             /\ rep[i].fds \subseteq 0 .. 7 /\ rep[i].fd \in rep[i].fds \cup {NoFd}
             /\ rep[i].shmFd \in rep[i].fds \cup {NoFd}
             /\ rep[i].fd # NoFd <=> rep[i].desc # NoDesc
             /\ rep[i].mapped \in 0 .. extraShmSize
  <2>1. PICK p : p = rep[i]
    OBVIOUS
  <2>2. PICK k \in Nat : k = OpensBefore(prog, Len(p.results)) /\ k <= MaxOpens
    BY <1>2, <2>1, ReplicaFacts
  <2>3. /\ p \in RepRecords /\ RepOK(p, extraShmSize, k) /\ p.pc \in PCs
        /\ p.desc \in Descs \cup {NoDesc} /\ extraShmSize \in Nat
    BY <1>2, <2>1, <2>2, ReplicaFacts
  <2>4. p.fds \subseteq 0 .. 7
    BY <2>2, <2>3, SMTT(30) DEF RepOK, MaxOpens
  <2>5. p.mapped \in 0 .. extraShmSize
    BY <2>3, RepFields DEF RepOK
  <2>6. /\ p.fd \in p.fds \cup {NoFd} /\ p.shmFd \in p.fds \cup {NoFd}
        /\ p.fd # NoFd <=> p.desc # NoDesc
    BY <2>3 DEF RepOK
  <2>. QED
    BY <2>1, <2>3, <2>4, <2>5, <2>6
<1>. QED
  BY <1>2, <1>3 DEF TypeOK

\* Whatever the programs do, and whoever dies when: no replica uses a descriptor
\* that it has not opened or has no room for, the descriptor of the shared memory
\* stays its own, and no mapping is longer than what is mapped.
THEOREM FilesTypeCorrect == Spec => []TypeOK
BY InvAlways, InvTypes, PTL

\* The step that the property is about.
Inside ==
  \A i \in Replicas :
    rep[i].pc = "copy" /\ rep'[i].pc \notin Gone \cup {"copy"}
    => rep'[i].mapped >= 1 + Len(shm.sent)

\* Nobody is copying while everybody waits for a barrier.
LEMMA NobodyCopies ==
  ASSUME NEW src, NEW pc, Arrived(src, pc), pc # "copy"
  PROVE  \A i \in Replicas : rep[i].pc # "copy"
BY DEF Arrived, Alive, Gone

LEMMA InsideStep == Inv /\ [Next]_vars => [Inside]_vars
<1>1. SUFFICES ASSUME Inv, Next
               PROVE  Inside
  OBVIOUS
<1>2. CASE CheckOnly \/ MasterCall \/ CompareExits
  <2>1. \E src \in Alive : Arrived(src, "call") \/ Arrived(src, "exit")
    BY <1>2, ZenonT(30) DEF CheckOnly, MasterCall, CompareExits
  <2>2. \A i \in Replicas : rep[i].pc # "copy"
    BY <2>1, NobodyCopies
  <2>. QED
    BY <2>2 DEF Inside
<1>3. CASE \E i \in Replicas : StepsOf(i)
  <2>1. PICK i \in Replicas : StepsOf(i)
    BY <1>3
  <2>2. StepOf(i) /\ TypeInv
    BY <1>1, <2>1, ReplicaStep DEF Inv
  <2>3. ASSUME NEW j \in Replicas, rep[j].pc = "copy", rep'[j].pc \notin Gone \cup {"copy"}
        PROVE  rep'[j].mapped >= 1 + Len(shm.sent)
    <3>1. j = i /\ rep'[j].mapped >= extraShmSize
      BY <2>2, <2>3 DEF StepOf
    <3>2. PICK p : p = rep[j]
      OBVIOUS
    <3>3. PICK q : q = rep'[j]
      OBVIOUS
    <3>4. PlaceOK(prog, p, shm, extraShmSize) /\ p.pc = "copy" /\ extraShmSize \in Nat
      BY <2>2, <2>3, <3>2, ReplicaFacts
    <3>5. extraShmSize >= 1 + Len(shm.sent)
      BY <3>4 DEF PlaceOK
    <3>6. Len(shm.sent) \in Nat
      BY <2>2 DEF TypeInv, ShmOK
    <3>7. q.mapped \in Nat
      <4>1. TypeInv'
        BY <1>1, InvNext DEF Inv
      <4>2. q \in RepRecords
        BY <3>3, <4>1 DEF TypeInv
      <4>. QED
        BY <4>2, RepFields
    <3>8. q.mapped >= extraShmSize
      BY <3>1, <3>3
    <3>9. q.mapped >= 1 + Len(shm.sent)
      BY <3>4, <3>5, <3>6, <3>7, <3>8
    <3>. QED
      BY <3>3, <3>9
  <2>. QED
    BY <2>3 DEF Inside
<1>. QED
  BY <1>1, <1>2, <1>3 DEF Next, StepsOf

\* A slave maps as much of the extra shared memory as the master's result takes
\* before it copies the result from there, a replacement that starts with nothing
\* mapped as well as a slave whose mapping is from before the area grew.
THEOREM MappingHoldsResult == Spec => CopiesInsideMapping
<1>1. [Inside]_vars <=>
        [\A i \in Replicas :
           rep[i].pc = "copy" /\ rep'[i].pc \notin Gone \cup {"copy"}
           => rep'[i].mapped >= 1 + Len(shm.sent)]_vars
  BY DEF Inside
<1>2. Spec => [][Inside]_vars
  BY InvAlways, InsideStep, PTL DEF Spec
<1>. QED
  BY <1>1, <1>2, PTL DEF CopiesInsideMapping

-----------------------------------------------------------------------------
(* Replicas agree. While a call is being made some have its result and     *)
(* others not yet; what is compared is what each has once the call is over.*)

\* The result that a slave copies, and that of a call which it makes for itself.
SharedResult(s) ==
  [ret |-> s.ret,
   data |-> [k \in 1 .. s.len |-> IF k <= Len(s.sent) THEN s.sent[k] ELSE Stale]]
OwnResult == [ret |-> 0, data |-> << >>]

Closing(pr, p) == p.pc = "own" /\ pr.calls[Len(p.results) + 1].op # "getpid"
Without(fds, fd) == fds \ {fd}

ResultsDue(p, s) ==
  IF p.pc = "copy" THEN Longer(p.results, SharedResult(s))
  ELSE IF p.pc = "own" THEN Longer(p.results, OwnResult) ELSE p.results
ShmFdDue(p) == IF p.pc = "copy" THEN WithShmFd(p).shmFd ELSE p.shmFd
FdsDue(pr, p, s) ==
  IF p.pc = "copy" /\ Opening(s) THEN WithLowest(WithShmFd(p).fds)
  ELSE IF p.pc = "copy" THEN WithShmFd(p).fds
  ELSE IF Closing(pr, p) THEN Without(p.fds, p.fd) ELSE p.fds
FdDue(pr, p, s) ==
  IF p.pc = "copy" /\ Opening(s) THEN LowestFree(WithShmFd(p).fds)
  ELSE IF Closing(pr, p) THEN NoFd ELSE p.fd

Alike(pr, s, p, q) ==
  /\ ResultsDue(p, s) = ResultsDue(q, s) /\ ShmFdDue(p) = ShmFdDue(q)
  /\ FdsDue(pr, p, s) = FdsDue(pr, q, s) /\ FdDue(pr, p, s) = FdDue(pr, q, s)
Agree(pr, s, r) ==
  \A i, j \in Replicas :
    r[i].pc \notin Gone /\ r[j].pc \notin Gone => Alike(pr, s, r[i], r[j])

\* What is not making a call has all that it will have.
LEMMA SettledIs ==
  ASSUME NEW p, p.pc \notin {"own", "copy"}, NEW pr, NEW s
  PROVE  /\ ResultsDue(p, s) = p.results /\ ShmFdDue(p) = p.shmFd
         /\ FdsDue(pr, p, s) = p.fds /\ FdDue(pr, p, s) = p.fd
BY DEF ResultsDue, ShmFdDue, FdsDue, FdDue, Closing

LEMMA CopyingIs ==
  ASSUME NEW p, p.pc = "copy", NEW pr, NEW s
  PROVE  /\ ResultsDue(p, s) = Longer(p.results, SharedResult(s))
         /\ ShmFdDue(p) = WithShmFd(p).shmFd
         /\ Opening(s) => /\ FdsDue(pr, p, s) = WithLowest(WithShmFd(p).fds)
                          /\ FdDue(pr, p, s) = LowestFree(WithShmFd(p).fds)
         /\ ~Opening(s) => FdsDue(pr, p, s) = WithShmFd(p).fds /\ FdDue(pr, p, s) = p.fd
BY DEF ResultsDue, ShmFdDue, FdsDue, FdDue, Closing

LEMMA SettledAlike ==
  ASSUME NEW p, NEW q, p.pc \notin {"own", "copy"}, q.pc \notin {"own", "copy"},
         q.results = p.results, q.fds = p.fds, q.shmFd = p.shmFd, q.fd = p.fd,
         NEW pr, NEW s
  PROVE  Alike(pr, s, q, p)
BY SettledIs DEF Alike

\* The descriptors that opening the shared memory leaves depend on those before.
LEMMA WithShmFdIs ==
  ASSUME NEW p \in RepRecords
  PROVE  /\ p.shmFd # NoFd => WithShmFd(p).shmFd = p.shmFd /\ WithShmFd(p).fds = p.fds
         /\ p.shmFd = NoFd => /\ WithShmFd(p).shmFd = LowestFree(p.fds)
                              /\ WithShmFd(p).fds = WithLowest(p.fds)
<1>1. CASE p.shmFd # NoFd
  BY <1>1 DEF WithShmFd
<1>2. CASE p.shmFd = NoFd
  <2>1. PICK f : f = LowestFree(p.fds)
    OBVIOUS
  <2>2. PICK fds : fds = p.fds \cup {f}
    OBVIOUS
  <2>3. WithShmFd(p) = [p EXCEPT !.shmFd = f, !.fds = fds]
    BY <1>2, <2>1, <2>2 DEF WithShmFd
  <2>4. WithShmFd(p).shmFd = f /\ WithShmFd(p).fds = fds
    BY <2>3 DEF RepRecords
  <2>5. fds = WithLowest(p.fds)
    BY <2>1, <2>2 DEF WithLowest
  <2>. QED
    BY <1>2, <2>1, <2>4, <2>5
<1>. QED
  BY <1>1, <1>2

LEMMA SameAlike ==
  ASSUME NEW p \in RepRecords, NEW q \in RepRecords, p.pc = q.pc, q.results = p.results,
         q.fds = p.fds, q.shmFd = p.shmFd, q.fd = p.fd, NEW pr, NEW s
  PROVE  Alike(pr, s, q, p)
<1>1. WithShmFd(q).shmFd = WithShmFd(p).shmFd /\ WithShmFd(q).fds = WithShmFd(p).fds
  BY WithShmFdIs
<1>2. Closing(pr, q) = Closing(pr, p)
  BY DEF Closing
<1>3. ResultsDue(q, s) = ResultsDue(p, s)
  BY DEF ResultsDue
<1>4. ShmFdDue(q) = ShmFdDue(p)
  BY <1>1 DEF ShmFdDue
<1>5. FdsDue(pr, q, s) = FdsDue(pr, p, s)
  BY <1>1, <1>2 DEF FdsDue
<1>6. FdDue(pr, q, s) = FdDue(pr, p, s)
  BY <1>1, <1>2 DEF FdDue
<1>. QED
  BY <1>3, <1>4, <1>5, <1>6 DEF Alike

\* A step of one replica that leaves it what it had, or was to have.
KeepsDue(i) ==
  rep'[i].pc \in Gone \/ (rep[i].pc \notin Gone /\ Alike(prog, shm, rep'[i], rep[i]))

LEMMA AgreeStep ==
  ASSUME Agree(prog, shm, rep), NEW i \in Replicas, StepOf(i), KeepsDue(i)
  PROVE  Agree(prog, shm, rep')
<1>1. ASSUME NEW j \in Replicas, rep'[j].pc \notin Gone
      PROVE  rep[j].pc \notin Gone /\ Alike(prog, shm, rep'[j], rep[j])
  <2>1. CASE j = i
    BY <1>1, <2>1 DEF KeepsDue
  <2>2. CASE j # i
    BY <1>1, <2>2 DEF StepOf, Alike
  <2>. QED
    BY <2>1, <2>2
<1>2. ASSUME NEW j \in Replicas, NEW k \in Replicas,
             rep'[j].pc \notin Gone, rep'[k].pc \notin Gone
      PROVE  Alike(prog, shm, rep'[j], rep'[k])
  <2>1. Alike(prog, shm, rep'[j], rep[j]) /\ Alike(prog, shm, rep'[k], rep[k])
        /\ Alike(prog, shm, rep[j], rep[k])
    BY <1>1, <1>2 DEF Agree
  <2>. QED
    BY <2>1 DEF Alike
<1>. QED
  BY <1>2 DEF Agree

\* A slave that has copied the result, and did not open the file.
LEMMA CopiedKeeps ==
  ASSUME TypeInv, NEW i \in Replicas, rep[i].pc = "copy", ~Opening(shm),
         NEW c, c = Copied(rep[i]), NEW q, q.pc \notin {"own", "copy"},
         q.results = c.results, q.fds = c.fds, q.shmFd = c.shmFd, q.fd = c.fd
  PROVE  Alike(prog, shm, q, rep[i])
<1>1. PICK p : p = rep[i]
  OBVIOUS
<1>2. PICK x : x = SharedResult(shm)
  OBVIOUS
<1>3. /\ c.results = Longer(p.results, x) /\ c.fd = p.fd
      /\ c.shmFd = WithShmFd(p).shmFd /\ c.fds = WithShmFd(p).fds
  <2>1. c = Copied(p)
    BY <1>1
  <2>. QED
    BY <1>1, <1>2, <2>1, CopiedOK DEF SharedResult
<1>4. /\ ResultsDue(p, shm) = Longer(p.results, x) /\ ShmFdDue(p) = WithShmFd(p).shmFd
      /\ FdsDue(prog, p, shm) = WithShmFd(p).fds /\ FdDue(prog, p, shm) = p.fd
  BY <1>1, <1>2, CopyingIs
<1>5. /\ ResultsDue(q, shm) = q.results /\ ShmFdDue(q) = q.shmFd
      /\ FdsDue(prog, q, shm) = q.fds /\ FdDue(prog, q, shm) = q.fd
  BY SettledIs
<1>6. Alike(prog, shm, q, p)
  BY <1>3, <1>4, <1>5 DEF Alike
<1>. QED
  BY <1>1, <1>6

\* The pointer of an fopen that fails in the master is set in no slave: no slave
\* has such a call to return from.
FopenWorks ==
  \A i \in Replicas :
    rep[i].pc = "copy" /\ CallOf(rep[i]).op = "fopen" => shm.ret = 0

\* Then everything that a slave takes for a result is the master's.
LEMMA FopenMade ==
  ASSUME TypeInv, FopenWorks, NEW i \in Replicas, TakeResult(i)
  PROVE  TakesWhole(i)
<1>1. PICK p : p = rep[i]
  OBVIOUS
<1>2. /\ p.pc = "copy" /\ (shm.follow = "none" \/ (shm.follow = "open" /\ shm.ret # 0))
  BY <1>1 DEF TakeResult
<1>3. PlaceOK(prog, p, shm, extraShmSize)
  BY <1>1, ReplicaFacts
<1>4. CallOf(p).op # "fopen"
  <2>1. ASSUME CallOf(p).op = "fopen"
        PROVE  FALSE
    <3>1. shm.ret = 0
      BY <1>1, <1>2, <2>1 DEF FopenWorks
    <3>2. shm.follow = "open"
      BY <1>2, <1>3, <2>1 DEF PlaceOK, FollowOf, CallOf, OpenOps, StreamReads, StreamWrites
    <3>. QED
      BY <1>2, <3>1, <3>2
  <2>. QED
    BY <2>1
<1>5. Taken(i) = {shm.ret}
  BY <1>1, <1>4 DEF Taken
<1>. QED
  BY <1>5 DEF TakeResult, TakesWhole, Copied

LEMMA TakesKeep ==
  ASSUME TypeInv, FopenWorks, NEW i \in Replicas, TakeResult(i) \/ TakeOffset(i)
  PROVE  KeepsDue(i)
<1>1. PICK c : c = Copied(rep[i])
  OBVIOUS
<1>2. rep[i].pc = "copy" /\ rep' = [rep EXCEPT ![i] = [c EXCEPT !.pc = "call"]]
      /\ ~Opening(shm)
  <2>1. CASE TakeResult(i)
    <3>1. TakesWhole(i)
      BY <2>1, FopenMade
    <3>. QED
      BY <1>1, <2>1, <3>1 DEF TakesWhole, TakeResult, Opening
  <2>2. CASE TakeOffset(i)
    BY <1>1, <2>2 DEF TakeOffset, Opening
  <2>. QED
    BY <2>1, <2>2
<1>3. PICK q : q = rep'[i]
  OBVIOUS
<1>4. c \in RepRecords
  BY <1>1, <1>2, CopiedRecord
<1>5. q = [c EXCEPT !.pc = "call"]
  BY <1>2, <1>3 DEF TypeInv
<1>6. /\ q.pc = "call" /\ q.results = c.results /\ q.fds = c.fds /\ q.shmFd = c.shmFd
      /\ q.fd = c.fd
  BY <1>4, <1>5 DEF RepRecords
<1>7. Alike(prog, shm, q, rep[i])
  BY <1>1, <1>2, <1>6, CopiedKeeps
<1>. QED
  BY <1>2, <1>3, <1>7 DEF KeepsDue, Gone

LEMMA SeekStreamKeeps ==
  ASSUME TypeInv, NEW i \in Replicas, SeekStream(i)
  PROVE  KeepsDue(i)
<1>1. PICK c : c = Copied(rep[i])
  OBVIOUS
<1>2. rep[i].pc = "copy" /\ ~Opening(shm)
  BY DEF SeekStream, Opening
<1>3. PICK q : q = rep'[i]
  OBVIOUS
<1>4. c \in RepRecords
  BY <1>1, <1>2, CopiedRecord
<1>5. PICK st, to : /\ to \in {"fill", "probe", "tell"}
                    /\ q = [c EXCEPT !.pc = to] \/ q = [c EXCEPT !.stream = st, !.pc = to]
  <2>1. PICK w : w = FseekStart(View(rep, i), shm.offs)
    OBVIOUS
  <2>2. PICK to : to = IF NeedsFill(Fflush(View(rep, i)).st, shm.offs) THEN "fill" ELSE Seeked
    OBVIOUS
  <2>3. \/ rep' = [rep EXCEPT ![i] = [c EXCEPT !.pc = Seeked]]
        \/ rep' = [rep EXCEPT ![i] = [c EXCEPT !.stream = w.st, !.pc = to]]
    BY <1>1, <2>1, <2>2 DEF SeekStream
  <2>4. q = [c EXCEPT !.pc = Seeked] \/ q = [c EXCEPT !.stream = w.st, !.pc = to]
    BY <1>3, <2>3 DEF TypeInv
  <2>5. to \in {"fill", "probe", "tell"} /\ Seeked \in {"fill", "probe", "tell"}
    BY <2>2, SeekedIs
  <2>. QED
    BY <2>4, <2>5, ZenonT(30)
<1>6. /\ q.pc = to /\ q.results = c.results /\ q.fds = c.fds /\ q.shmFd = c.shmFd
      /\ q.fd = c.fd
  BY <1>4, <1>5 DEF RepRecords
<1>7. Alike(prog, shm, q, rep[i])
  <2>1. q.pc \notin {"own", "copy"}
    BY <1>5, <1>6
  <2>. QED
    BY <1>1, <1>2, <1>6, <2>1, CopiedKeeps
<1>. QED
  BY <1>2, <1>3, <1>7 DEF KeepsDue, Gone

\* Within a call, or at the program's end, nothing is added.
LEMMA OthersKeep ==
  ASSUME TypeInv, NEW i \in Replicas,
         FillStream(i) \/ ProbeEof(i) \/ Tell(i) \/ Finish(i) \/ Die(i)
  PROVE  KeepsDue(i)
<1>1. PICK p : p = rep[i]
  OBVIOUS
<1>2. PICK q : q = rep'[i]
  OBVIOUS
<1>3. p \in RepRecords /\ rep \in [Replicas -> RepRecords]
  BY <1>1, ReplicaFacts DEF TypeInv
<1>4. CASE Die(i)
  <2>1. q.pc = "dead"
    BY <1>2, <1>3, <1>4 DEF Die, RepRecords
  <2>. QED
    BY <1>2, <2>1 DEF KeepsDue, Gone
<1>5. CASE FillStream(i) \/ ProbeEof(i) \/ Tell(i) \/ Finish(i)
  <2>1. p.pc \in {"fill", "probe", "tell", "call"}
    BY <1>1, <1>5 DEF FillStream, ProbeEof, Tell, Finish
  <2>2. PICK st, told, to : /\ to \in {"tell", "probe", "failed", "exit", "end"}
                            /\ q = [p EXCEPT !.stream = st, !.pc = to]
                                 \/ q = [p EXCEPT !.pc = to, !.told = told]
                                 \/ q = [p EXCEPT !.pc = to, !.stream = st]
    <3>1. CASE FillStream(i)
      <4>1. PICK st : st = FseekFill(View(rep, i), shm.offs).st
        OBVIOUS
      <4>2. rep' = [rep EXCEPT ![i].stream = st, ![i].pc = Seeked]
        BY <3>1, <4>1 DEF FillStream
      <4>3. q = [p EXCEPT !.stream = st, !.pc = Seeked]
        BY <1>1, <1>2, <1>3, <4>2
      <4>. QED
        BY <4>3, SeekedIs, ZenonT(30)
    <3>2. CASE ProbeEof(i)
      <4>1. PICK b : b = Getc(View(rep, i))
        OBVIOUS
      <4>2. PICK st, to : st = b.w.st /\ to = IF b.c = EOF THEN "tell" ELSE "failed"
        OBVIOUS
      <4>3. rep' = [rep EXCEPT ![i].stream = st, ![i].pc = to]
        BY <3>2, <4>1, <4>2 DEF ProbeEof
      <4>4. q = [p EXCEPT !.stream = st, !.pc = to]
        BY <1>1, <1>2, <1>3, <4>3
      <4>. QED
        BY <4>2, <4>4, ZenonT(30)
    <3>3. CASE Tell(i)
      <4>1. PICK told : told = [offs |-> Ftell(View(rep, i)), eof |-> rep[i].stream.eof]
        OBVIOUS
      <4>2. rep' = [rep EXCEPT ![i].pc = "exit", ![i].told = told]
        BY <3>3, <4>1 DEF Tell
      <4>3. q = [p EXCEPT !.pc = "exit", !.told = told]
        BY <1>1, <1>2, <1>3, <4>2
      <4>. QED
        BY <4>3, ZenonT(30)
    <3>4. CASE Finish(i)
      <4>1. PICK st : st = Fflush(View(rep, i)).st
        OBVIOUS
      <4>2. rep' = [rep EXCEPT ![i].pc = "end", ![i].stream = st]
        BY <3>4, <4>1 DEF Finish
      <4>3. q = [p EXCEPT !.pc = "end", !.stream = st]
        BY <1>1, <1>2, <1>3, <4>2
      <4>. QED
        BY <4>3, ZenonT(30)
    <3>. QED
      BY <1>5, <3>1, <3>2, <3>3, <3>4, ZenonT(30)
  <2>3. /\ q.pc = to /\ q.results = p.results /\ q.fds = p.fds /\ q.shmFd = p.shmFd
        /\ q.fd = p.fd
    BY <1>3, <2>2 DEF RepRecords
  <2>4. Alike(prog, shm, q, p)
    BY <2>1, <2>2, <2>3, SettledAlike
  <2>. QED
    BY <1>1, <1>2, <2>1, <2>4 DEF KeepsDue, Gone
<1>. QED
  BY <1>4, <1>5

LEMMA OwnCallKeeps ==
  ASSUME TypeInv, NEW i \in Replicas, OwnCall(i)
  PROVE  KeepsDue(i)
<1>1. PICK p : p = rep[i]
  OBVIOUS
<1>2. PICK q : q = rep'[i]
  OBVIOUS
<1>3. PICK x : x = OwnResult
  OBVIOUS
<1>4. p \in RepRecords /\ rep \in [Replicas -> RepRecords] /\ p.pc = "own"
  BY <1>1, ReplicaFacts DEF TypeInv, OwnCall
<1>5. PICK s : s = Longer(p.results, x)
  OBVIOUS
<1>6. PICK r : r = [p EXCEPT !.results = s, !.pc = "call"]
  OBVIOUS
<1>7. /\ r.results = s /\ r.pc = "call" /\ r.fds = p.fds /\ r.shmFd = p.shmFd
      /\ r.fd = p.fd
  BY <1>4, <1>6 DEF RepRecords
<1>8. PICK c : c = Closed(r)
  OBVIOUS
<1>9. /\ c.results = s /\ c.pc = "call" /\ c.fds = Without(p.fds, p.fd)
      /\ c.shmFd = p.shmFd /\ c.fd = NoFd
  <2>1. PICK fds : fds = Without(p.fds, p.fd)
    OBVIOUS
  <2>2. PICK st : st = FreshStream(FALSE)
    OBVIOUS
  <2>3. c = [r EXCEPT !.fds = fds, !.fd = NoFd, !.desc = NoDesc, !.stream = st]
    BY <1>7, <1>8, <2>1, <2>2 DEF Closed, Without
  <2>4. /\ c.results = r.results /\ c.pc = r.pc /\ c.fds = fds /\ c.shmFd = r.shmFd
        /\ c.fd = NoFd
    BY <1>4, <1>6, <2>3 DEF RepRecords
  <2>. QED
    BY <1>7, <2>1, <2>4
<1>10. q = IF CallOf(p).op = "getpid" THEN r ELSE c
  <2>1. PICK g : g = Returned(p, 0, << >>)
    OBVIOUS
  <2>2. g = [p EXCEPT !.results = s]
    BY <1>3, <1>5, <2>1 DEF Returned, Longer, OwnResult
  <2>3. [g EXCEPT !.pc = "call"] = r
    BY <1>4, <1>6, <2>2 DEF RepRecords
  <2>4. rep' = [rep EXCEPT ![i] = IF CallOf(p).op = "getpid" THEN r ELSE c]
    BY <1>1, <1>8, <2>1, <2>3 DEF OwnCall
  <2>. QED
    BY <1>2, <1>4, <2>4
<1>11. /\ ResultsDue(p, shm) = s /\ ShmFdDue(p) = p.shmFd
       /\ Closing(prog, p) =>
            FdsDue(prog, p, shm) = Without(p.fds, p.fd) /\ FdDue(prog, p, shm) = NoFd
       /\ ~Closing(prog, p) => FdsDue(prog, p, shm) = p.fds /\ FdDue(prog, p, shm) = p.fd
  BY <1>3, <1>4, <1>5 DEF ResultsDue, ShmFdDue, FdsDue, FdDue
<1>12. Alike(prog, shm, q, p)
  <2>1. CASE Closing(prog, p)
    <3>1. q = c
      BY <1>10, <2>1 DEF Closing, CallOf
    <3>2. /\ ResultsDue(q, shm) = q.results /\ ShmFdDue(q) = q.shmFd
          /\ FdsDue(prog, q, shm) = q.fds /\ FdDue(prog, q, shm) = q.fd
      BY <1>9, <3>1, SettledIs
    <3>. QED
      BY <1>9, <1>11, <2>1, <3>1, <3>2 DEF Alike
  <2>2. CASE ~Closing(prog, p)
    <3>1. q = r
      BY <1>4, <1>10, <2>2 DEF Closing, CallOf
    <3>2. /\ ResultsDue(q, shm) = q.results /\ ShmFdDue(q) = q.shmFd
          /\ FdsDue(prog, q, shm) = q.fds /\ FdDue(prog, q, shm) = q.fd
      BY <1>7, <3>1, SettledIs
    <3>. QED
      BY <1>7, <1>11, <2>2, <3>1, <3>2 DEF Alike
  <2>. QED
    BY <2>1, <2>2
<1>. QED
  BY <1>1, <1>2, <1>4, <1>12 DEF KeepsDue, Gone

\* The programs do not ask fopen for a file that must not be there ("x"): the
\* slaves pass the mode on as it is, and find the file that the master has made.
FopenPlain ==
  \A pr \in Programs : \A k \in DOMAIN pr.calls :
    pr.calls[k].op = "fopen" => ~({"creat", "excl"} \subseteq pr.calls[k].flags)

\* A file that the master has opened stays until the slaves have opened it.
OpenedExists == Opening(shm) => file.exists

LEMMA OpenTooKeeps ==
  ASSUME FopenPlain, TypeInv, OpenedExists, NEW i \in Replicas, OpenToo(i)
  PROVE  KeepsDue(i) /\ file'.exists
<1>1. PICK p : p = rep[i]
  OBVIOUS
<1>2. PICK q : q = rep'[i]
  OBVIOUS
<1>3. PICK cp : cp = Copied(p)
  OBVIOUS
<1>4. PICK c : c = CallOf(p)
  OBVIOUS
<1>5. p.pc = "copy" /\ shm.follow = "open" /\ shm.ret = 0 /\ Opening(shm)
  BY <1>1 DEF OpenToo, Opening
<1>6. PICK flags : flags = IF c.op = "open" THEN c.flags \ {"excl"} ELSE c.flags
  OBVIOUS
<1>7. CanOpen(file, flags)
  <2>1. /\ PlaceOK(prog, p, shm, extraShmSize) /\ prog \in Programs
        /\ Len(p.results) \in Nat /\ Len(prog.calls) \in Nat
        /\ DOMAIN prog.calls = 1 .. Len(prog.calls)
    BY <1>1, ReplicaFacts, ProgramType
  <2>2. PICK n \in Nat : n = Len(p.results)
    BY <2>1
  <2>3. n + 1 \in DOMAIN prog.calls /\ c = prog.calls[n + 1] /\ c.op \in OpenOps
    BY <1>4, <1>5, <2>1, <2>2 DEF PlaceOK, FollowOf, CallOf
  <2>4. ~("creat" \in flags /\ "excl" \in flags)
    <3>1. CASE c.op = "open"
      BY <1>6, <3>1
    <3>2. CASE c.op = "fopen"
      <4>1. ~({"creat", "excl"} \subseteq c.flags)
        BY <2>1, <2>3, <3>2 DEF FopenPlain
      <4>. QED
        BY <1>6, <3>2, <4>1
    <3>. QED
      BY <2>3, <3>1, <3>2 DEF OpenOps
  <2>5. file.exists
    BY <1>5 DEF OpenedExists
  <2>. QED
    BY <2>4, <2>5 DEF CanOpen
<1>8. PICK desc : desc = FreshDesc(rep, i)
  OBVIOUS
<1>9. PICK st : st = FreshStream(c.op = "fopen" /\ "read" \in flags)
  OBVIOUS
<1>10. PICK n : n = WithFile(cp, desc, st)
  OBVIOUS
<1>11. /\ rep' = [rep EXCEPT ![i] = [n EXCEPT !.pc = "call"]]
       /\ file' = Opened(file, flags)
  BY <1>1, <1>3, <1>4, <1>6, <1>7, <1>8, <1>9, <1>10 DEF OpenToo
<1>12. cp \in RepRecords
  BY <1>1, <1>3, <1>5, CopiedRecord
<1>13. /\ q.pc = "call" /\ q.results = cp.results /\ q.shmFd = cp.shmFd
       /\ q.fds = WithLowest(cp.fds) /\ q.fd = LowestFree(cp.fds)
  <2>1. PICK fds : fds = WithLowest(cp.fds)
    OBVIOUS
  <2>2. PICK fd : fd = LowestFree(cp.fds)
    OBVIOUS
  <2>3. n = [cp EXCEPT !.fd = fd, !.fds = fds, !.desc = desc, !.stream = st]
    BY <1>10, <2>1, <2>2 DEF WithFile, WithLowest
  <2>4. q = [n EXCEPT !.pc = "call"]
    BY <1>2, <1>11 DEF TypeInv
  <2>5. /\ q.pc = "call" /\ q.results = cp.results /\ q.shmFd = cp.shmFd
        /\ q.fds = fds /\ q.fd = fd
    BY <1>12, <2>3, <2>4 DEF RepRecords
  <2>. QED
    BY <2>1, <2>2, <2>5
<1>14. PICK x : x = SharedResult(shm)
  OBVIOUS
<1>15. /\ cp.results = Longer(p.results, x)
       /\ cp.shmFd = WithShmFd(p).shmFd /\ cp.fds = WithShmFd(p).fds
  BY <1>1, <1>3, <1>5, <1>14, CopiedOK DEF SharedResult
<1>16. /\ ResultsDue(p, shm) = Longer(p.results, x) /\ ShmFdDue(p) = WithShmFd(p).shmFd
       /\ FdsDue(prog, p, shm) = WithLowest(WithShmFd(p).fds)
       /\ FdDue(prog, p, shm) = LowestFree(WithShmFd(p).fds)
  BY <1>5, <1>14, CopyingIs
<1>17. /\ ResultsDue(q, shm) = q.results /\ ShmFdDue(q) = q.shmFd
       /\ FdsDue(prog, q, shm) = q.fds /\ FdDue(prog, q, shm) = q.fd
  BY <1>13, SettledIs
<1>18. Alike(prog, shm, q, p)
  BY <1>13, <1>15, <1>16, <1>17 DEF Alike
<1>19. KeepsDue(i)
  BY <1>1, <1>2, <1>5, <1>18 DEF KeepsDue, Gone
<1>20. file'.exists
  <2>1. file \in Files
    BY DEF TypeInv
  <2>. QED
    BY <1>11, <2>1 DEF Opened, Files
<1>. QED
  BY <1>19, <1>20

\* Everybody that has arrived has the same, and so has who replaces whoever is gone.
Equal(p, q) ==
  p.results = q.results /\ p.fds = q.fds /\ p.shmFd = q.shmFd /\ p.fd = q.fd

LEMMA RestoredEqual ==
  ASSUME TypeInv, Agree(prog, shm, rep), NEW src, NEW pc \in {"call", "exit"},
         Arrived(src, pc), NEW r, r = Restored(src)
  PROVE  /\ \A i, j \in Replicas : Equal(r[i], r[j])
         /\ \A i \in Replicas : r[i] \in RepRecords /\ r[i].pc = pc
<1>1. ASSUME NEW i \in Replicas
      PROVE  \E k \in Alive : rep[k].pc = pc /\ Equal(r[i], rep[k])
  BY <1>1, RestoredOK DEF Equal
<1>2. ASSUME NEW k \in Alive, NEW m \in Alive, rep[k].pc = pc, rep[m].pc = pc
      PROVE  Equal(rep[k], rep[m])
  <2>1. Alike(prog, shm, rep[k], rep[m])
    BY <1>2 DEF Agree, Alive
  <2>2. PICK p, q : p = rep[k] /\ q = rep[m]
    OBVIOUS
  <2>3. /\ ResultsDue(p, shm) = p.results /\ ShmFdDue(p) = p.shmFd
        /\ FdsDue(prog, p, shm) = p.fds /\ FdDue(prog, p, shm) = p.fd
    BY <1>2, <2>2, SettledIs
  <2>4. /\ ResultsDue(q, shm) = q.results /\ ShmFdDue(q) = q.shmFd
        /\ FdsDue(prog, q, shm) = q.fds /\ FdDue(prog, q, shm) = q.fd
    BY <1>2, <2>2, SettledIs
  <2>. QED
    BY <2>1, <2>2, <2>3, <2>4 DEF Alike, Equal
<1>3. ASSUME NEW i \in Replicas, NEW j \in Replicas
      PROVE  Equal(r[i], r[j])
  <2>1. PICK k \in Alive : rep[k].pc = pc /\ Equal(r[i], rep[k])
    BY <1>1, <1>3
  <2>2. PICK m \in Alive : rep[m].pc = pc /\ Equal(r[j], rep[m])
    BY <1>1, <1>3
  <2>3. Equal(rep[k], rep[m])
    BY <1>2, <2>1, <2>2
  <2>. QED
    BY <2>1, <2>2, <2>3 DEF Equal
<1>4. \A i \in Replicas : r[i].pc = pc /\ ReplicaOK(prog, r[i], shm, extraShmSize)
  BY RestoredOK
<1>. QED
  BY <1>3, <1>4 DEF ReplicaOK, RepOK

LEMMA CheckOnlyAgrees ==
  ASSUME TypeInv, Agree(prog, shm, rep), CheckOnly
  PROVE  Agree(prog, shm, rep')
<1>1. PICK src \in Alive :
             /\ Arrived(src, "call")
             /\ rep' = [i \in Replicas |-> [Restored(src)[i] EXCEPT !.pc = "own"]]
  BY DEF CheckOnly
<1>2. PICK r : r = Restored(src)
  OBVIOUS
<1>3. /\ \A i, j \in Replicas : Equal(r[i], r[j])
      /\ \A i \in Replicas : r[i] \in RepRecords
  BY <1>1, <1>2, RestoredEqual
<1>4. ASSUME NEW i \in Replicas
      PROVE  /\ rep'[i] \in RepRecords /\ rep'[i].pc = "own" /\ Equal(rep'[i], r[i])
  <2>1. PICK p, q : p = r[i] /\ q = rep'[i]
    OBVIOUS
  <2>2. q = [p EXCEPT !.pc = "own"] /\ p \in RepRecords
    BY <1>1, <1>2, <1>3, <2>1
  <2>3. /\ q \in RepRecords /\ q.pc = "own" /\ q.results = p.results /\ q.fds = p.fds
        /\ q.shmFd = p.shmFd /\ q.fd = p.fd
    BY <2>2 DEF RepRecords, PCs
  <2>. QED
    BY <2>1, <2>3 DEF Equal
<1>5. ASSUME NEW i \in Replicas, NEW j \in Replicas
      PROVE  Alike(prog, shm, rep'[i], rep'[j])
  <2>1. PICK p, q : p = rep'[i] /\ q = rep'[j]
    OBVIOUS
  <2>2. /\ p \in RepRecords /\ q \in RepRecords /\ p.pc = q.pc /\ q.results = p.results
        /\ q.fds = p.fds /\ q.shmFd = p.shmFd /\ q.fd = p.fd
    BY <1>3, <1>4, <2>1 DEF Equal
  <2>. QED
    BY <2>1, <2>2, SameAlike
<1>. QED
  BY <1>5 DEF Agree

LEMMA CompareExitsAgrees ==
  ASSUME TypeInv, Agree(prog, shm, rep), CompareExits
  PROVE  Agree(prog, shm, rep')
<1>1. PICK src \in Alive :
             /\ Arrived(src, "exit")
             /\ LET r == Restored(src)
                    bad == BadProc([i \in Replicas |-> r[i].told])
                IN  \/ /\ bad \in Replicas
                       /\ \E voter \in Replicas \ {bad} :
                            rep' = [i \in Replicas |->
                                     [(IF i = bad THEN CopyOf(r[voter]) ELSE r[i]) EXCEPT
                                        !.pc = "call"]]
                    \/ /\ bad = AllAgree
                       /\ rep' = [i \in Replicas |-> [r[i] EXCEPT !.pc = "call"]]
                    \/ /\ bad = NoMajority
                       /\ rep' = [i \in Replicas |-> [r[i] EXCEPT !.pc = "failed"]]
  BY DEF CompareExits
<1>2. PICK r : r = Restored(src)
  OBVIOUS
<1>3. /\ \A i, j \in Replicas : Equal(r[i], r[j])
      /\ \A i \in Replicas : r[i] \in RepRecords
  BY <1>1, <1>2, RestoredEqual
<1>4. PICK bad : bad = BadProc([i \in Replicas |-> r[i].told])
  OBVIOUS
<1>5. ASSUME NEW i \in Replicas
      PROVE  \E j \in Replicas, to \in {"call", "failed"} :
               rep'[i] = [r[j] EXCEPT !.pc = to] \/ rep'[i] = [CopyOf(r[j]) EXCEPT !.pc = to]
  <2>1. CASE \E voter \in Replicas :
               rep' = [k \in Replicas |->
                        [(IF k = bad THEN CopyOf(r[voter]) ELSE r[k]) EXCEPT !.pc = "call"]]
    <3>1. PICK voter \in Replicas :
                 rep' = [k \in Replicas |->
                          [(IF k = bad THEN CopyOf(r[voter]) ELSE r[k]) EXCEPT !.pc = "call"]]
      BY <2>1
    <3>2. CASE i = bad
      <4>1. rep'[i] = [CopyOf(r[voter]) EXCEPT !.pc = "call"]
        BY <1>5, <3>1, <3>2
      <4>. QED
        BY <4>1
    <3>3. CASE i # bad
      <4>1. rep'[i] = [r[i] EXCEPT !.pc = "call"]
        BY <1>5, <3>1, <3>3
      <4>. QED
        BY <1>5, <4>1
    <3>. QED
      BY <3>2, <3>3
  <2>2. CASE rep' = [k \in Replicas |-> [r[k] EXCEPT !.pc = "call"]]
    <3>1. rep'[i] = [r[i] EXCEPT !.pc = "call"]
      BY <1>5, <2>2
    <3>. QED
      BY <1>5, <3>1
  <2>3. CASE rep' = [k \in Replicas |-> [r[k] EXCEPT !.pc = "failed"]]
    <3>1. rep'[i] = [r[i] EXCEPT !.pc = "failed"]
      BY <1>5, <2>3
    <3>. QED
      BY <1>5, <3>1
  <2>4. \/ \E voter \in Replicas :
             rep' = [k \in Replicas |->
                      [(IF k = bad THEN CopyOf(r[voter]) ELSE r[k]) EXCEPT !.pc = "call"]]
        \/ rep' = [k \in Replicas |-> [r[k] EXCEPT !.pc = "call"]]
        \/ rep' = [k \in Replicas |-> [r[k] EXCEPT !.pc = "failed"]]
    BY <1>1, <1>2, <1>4
  <2>. QED
    BY <2>1, <2>2, <2>3, <2>4
<1>6. ASSUME NEW i \in Replicas
      PROVE  rep'[i].pc \in {"call", "failed"} /\ \E j \in Replicas : Equal(rep'[i], r[j])
  <2>1. PICK j \in Replicas, to \in {"call", "failed"} :
          rep'[i] = [r[j] EXCEPT !.pc = to] \/ rep'[i] = [CopyOf(r[j]) EXCEPT !.pc = to]
    BY <1>5, <1>6
  <2>2. PICK p, q : p = r[j] /\ q = rep'[i]
    OBVIOUS
  <2>3. p \in RepRecords
    BY <1>3, <2>1, <2>2
  <2>4. q = [p EXCEPT !.pc = to] \/ q = [[p EXCEPT !.mapped = 0] EXCEPT !.pc = to]
    BY <2>1, <2>2 DEF CopyOf
  <2>5. /\ q.pc = to /\ q.results = p.results /\ q.fds = p.fds /\ q.shmFd = p.shmFd
        /\ q.fd = p.fd
    BY <2>3, <2>4 DEF RepRecords
  <2>6. Equal(q, p)
    BY <2>5 DEF Equal
  <2>. QED
    BY <2>1, <2>2, <2>5, <2>6
<1>7. ASSUME NEW i \in Replicas, NEW j \in Replicas
      PROVE  Alike(prog, shm, rep'[i], rep'[j])
  <2>1. PICK a \in Replicas : Equal(rep'[i], r[a])
    BY <1>6, <1>7
  <2>2. PICK b \in Replicas : Equal(rep'[j], r[b])
    BY <1>6, <1>7
  <2>3. Equal(r[a], r[b])
    BY <1>3
  <2>4. PICK p, q : p = rep'[i] /\ q = rep'[j]
    OBVIOUS
  <2>5. /\ q.results = p.results /\ q.fds = p.fds /\ q.shmFd = p.shmFd /\ q.fd = p.fd
        /\ p.pc \notin {"own", "copy"} /\ q.pc \notin {"own", "copy"}
    BY <1>6, <1>7, <2>1, <2>2, <2>3, <2>4 DEF Equal
  <2>6. Alike(prog, shm, p, q)
    BY <2>5, SettledAlike
  <2>. QED
    BY <2>4, <2>6
<1>. QED
  BY <1>7 DEF Agree

\* What the master leaves in shared memory is all of what it got.
SentWhole == Len(shm.sent) = shm.len

LEMMA SharedIs ==
  ASSUME NEW o, IsOutcome(o), NEW s, s = Left(o), Len(s.sent) = s.len,
         NEW x \in Results, x.ret = o.ret, x.data = o.data
  PROVE  SharedResult(s) = x
<1>1. s.ret = o.ret /\ s.sent = o.sent /\ s.len = Len(o.data)
  BY DEF Left
<1>2. o.sent \in Seq(Nat) /\ o.data \in Seq(Nat) /\ Begins(o.sent, o.data)
  BY DEF IsOutcome
<1>3. PICK n \in Nat : n = Len(o.data) /\ n = Len(o.sent)
  BY <1>1, <1>2, LenProperties
<1>4. PICK f : f = [k \in 1 .. s.len |-> IF k <= Len(s.sent) THEN s.sent[k] ELSE Stale]
  OBVIOUS
<1>5. f = o.data
  <2>1. f = [k \in 1 .. n |-> IF k <= n THEN o.sent[k] ELSE Stale]
    BY <1>1, <1>3, <1>4
  <2>2. f = [k \in 1 .. n |-> o.data[k]]
    BY <1>2, <1>3, <2>1 DEF Begins
  <2>3. o.data = [k \in 1 .. n |-> o.data[k]]
    BY <1>2, <1>3, LenProperties
  <2>. QED
    BY <2>2, <2>3
<1>6. SharedResult(s) = [ret |-> s.ret, data |-> f]
  BY <1>4 DEF SharedResult
<1>7. x = [ret |-> x.ret, data |-> x.data]
  BY DEF Results
<1>. QED
  BY <1>1, <1>5, <1>6, <1>7

LEMMA MasterCallAgrees ==
  ASSUME TypeInv, InStep(rep), Agree(prog, shm, rep), SentWhole', MasterCall
  PROVE  Agree(prog', shm', rep') /\ OpenedExists'
<1>1. PICK src, r, n, c, o, size, p : CallMade(src, r, n, c, o, size, p)
  BY MasterCallIs
<1>2. /\ Arrived(src, "call") /\ r = Restored(src) /\ IsOutcome(o) /\ shm' = Left(o)
      /\ prog' = prog /\ file' = o.w.file /\ o.follow = FollowOf(c.op)
      /\ c.op \in OpenOps /\ o.ret = 0 => o.w.file.exists
  BY <1>1, ZenonT(30) DEF CallMade
<1>3. /\ \A i, j \in Replicas : Equal(r[i], r[j])
      /\ \A i \in Replicas : r[i] \in RepRecords
  BY <1>2, RestoredEqual
<1>4. Opening(shm') <=> Opening(o)
  BY <1>2 DEF Opening, Left
<1>5. OpenedExists'
  <2>1. Opening(shm') => file'.exists
    BY <1>2, <1>4 DEF Opening, FollowOf
  <2>. QED
    BY <2>1 DEF OpenedExists
<1>6. PICK m : m = r[Master]
  OBVIOUS
<1>7. PICK q : q = rep'[Master]
  OBVIOUS
<1>8. PICK s : s = shm'
  OBVIOUS
<1>9. m \in RepRecords /\ \A i \in Replicas : Equal(r[i], m)
  BY <1>3, <1>6 DEF Master, Replicas, Voters
<1>10. /\ q.pc = (IF o.compare THEN "tell" ELSE "call")
       /\ \E x \in Results : /\ q.results = Longer(m.results, x)
                             /\ x.ret = o.ret /\ x.data = o.data
       /\ q.shmFd = WithShmFd(m).shmFd
       /\ Opening(o) => /\ q.fd = LowestFree(WithShmFd(m).fds)
                        /\ q.fds = WithLowest(WithShmFd(m).fds)
       /\ ~Opening(o) => q.fd = m.fd /\ q.fds = WithShmFd(m).fds
  BY <1>1, <1>6, <1>7, MasterCalled
<1>11. PICK x \in Results : q.results = Longer(m.results, x) /\ x.ret = o.ret /\ x.data = o.data
  BY <1>10
<1>12. SharedResult(s) = x
  <2>1. Len(s.sent) = s.len /\ s = Left(o)
    BY <1>2, <1>8 DEF SentWhole
  <2>. QED
    BY <1>2, <1>11, <2>1, SharedIs
<1>13. q.pc \notin {"own", "copy"}
  BY <1>10
<1>14. /\ ResultsDue(q, s) = q.results /\ ShmFdDue(q) = q.shmFd
       /\ FdsDue(prog, q, s) = q.fds /\ FdDue(prog, q, s) = q.fd
  BY <1>13, SettledIs
<1>15. ASSUME NEW i \in Replicas
       PROVE  Alike(prog, s, rep'[i], q)
  <2>1. CASE i = Master
    BY <1>7, <2>1 DEF Alike
  <2>2. CASE i # Master
    <3>1. PICK e : e = r[i]
      OBVIOUS
    <3>2. PICK d : d = rep'[i]
      OBVIOUS
    <3>3. /\ d.pc = "copy" /\ d.results = e.results /\ d.fds = e.fds /\ d.shmFd = e.shmFd
          /\ d.fd = e.fd /\ ReplicaOK(prog, d, shm', size)
      BY <1>1, <1>15, <2>2, <3>1, <3>2, SlaveCalled
    <3>4. d \in RepRecords
      BY <3>3 DEF ReplicaOK, RepOK
    <3>5. d.results = m.results /\ d.fds = m.fds /\ d.shmFd = m.shmFd /\ d.fd = m.fd
      BY <1>9, <1>15, <3>1, <3>3 DEF Equal
    <3>6. WithShmFd(d).shmFd = WithShmFd(m).shmFd /\ WithShmFd(d).fds = WithShmFd(m).fds
      BY <1>9, <3>4, <3>5, WithShmFdIs
    <3>7. /\ ResultsDue(d, s) = Longer(d.results, x) /\ ShmFdDue(d) = WithShmFd(d).shmFd
          /\ Opening(s) => /\ FdsDue(prog, d, s) = WithLowest(WithShmFd(d).fds)
                           /\ FdDue(prog, d, s) = LowestFree(WithShmFd(d).fds)
          /\ ~Opening(s) => FdsDue(prog, d, s) = WithShmFd(d).fds /\ FdDue(prog, d, s) = d.fd
      BY <1>12, <3>3, CopyingIs
    <3>8. ResultsDue(d, s) = q.results /\ ShmFdDue(d) = q.shmFd
      BY <1>10, <1>11, <3>5, <3>6, <3>7
    <3>9. FdsDue(prog, d, s) = q.fds /\ FdDue(prog, d, s) = q.fd
      <4>1. CASE Opening(o)
        BY <1>4, <1>8, <1>10, <3>6, <3>7, <4>1
      <4>2. CASE ~Opening(o)
        BY <1>4, <1>8, <1>10, <3>5, <3>6, <3>7, <4>2
      <4>. QED
        BY <4>1, <4>2
    <3>10. Alike(prog, s, d, q)
      BY <1>14, <3>8, <3>9 DEF Alike
    <3>. QED
      BY <3>2, <3>10
  <2>. QED
    BY <2>1, <2>2
<1>16. \A i, j \in Replicas : Alike(prog, s, rep'[i], rep'[j])
  BY <1>15 DEF Alike
<1>. QED
  BY <1>2, <1>5, <1>8, <1>16 DEF Agree

AgreeInv == Agree(prog, shm, rep) /\ OpenedExists

LEMMA AgreeInit == Init => AgreeInv
<1>1. SUFFICES ASSUME Init
               PROVE  AgreeInv
  OBVIOUS
<1>2. \A i, j \in Replicas : rep[i] = rep[j]
  BY <1>1 DEF Init
<1>3. Agree(prog, shm, rep)
  BY <1>2 DEF Agree, Alike
<1>4. shm = Nothing
  BY <1>1 DEF Init
<1>5. ~Opening(shm)
  BY <1>4 DEF Nothing, Opening
<1>. QED
  BY <1>3, <1>5 DEF AgreeInv, OpenedExists

\* The file stays where the slaves are still to open it.
LEMMA ExistsStep ==
  ASSUME FopenPlain, TypeInv, OpenedExists, FopenWorks, NEW i \in Replicas, StepsOf(i)
  PROVE  OpenedExists' /\ KeepsDue(i) /\ prog' = prog /\ shm' = shm
<1>1. CASE OpenToo(i)
  <2>1. KeepsDue(i) /\ file'.exists
    BY <1>1, OpenTooKeeps
  <2>. QED
    BY <1>1, <2>1 DEF OpenToo, OpenedExists
<1>2. CASE SeekStream(i)
  <2>1. shm.follow = "fseek" /\ prog' = prog /\ shm' = shm
    BY <1>2 DEF SeekStream
  <2>2. KeepsDue(i)
    BY <1>2, SeekStreamKeeps
  <2>. QED
    BY <2>1, <2>2 DEF OpenedExists, Opening
<1>3. CASE Finish(i)
  <2>1. PICK w : w = Fflush(View(rep, i))
    OBVIOUS
  <2>2. file' = w.file /\ prog' = prog /\ shm' = shm
    BY <1>3, <2>1 DEF Finish
  <2>3. View(rep, i) \in Views /\ View(rep, i).file = file
    <3>1. PICK p : p = rep[i]
      OBVIOUS
    <3>. QED
      BY <3>1, ReplicaFacts
  <2>4. w.file.exists = file.exists
    BY <2>1, <2>3, FflushCases
  <2>5. KeepsDue(i)
    BY <1>3, OthersKeep
  <2>. QED
    BY <2>2, <2>4, <2>5 DEF OpenedExists
<1>4. CASE OwnCall(i)
  <2>1. KeepsDue(i)
    BY <1>4, OwnCallKeeps
  <2>. QED
    BY <1>4, <2>1 DEF OwnCall, OpenedExists
<1>5. CASE TakeResult(i) \/ TakeOffset(i)
  <2>1. KeepsDue(i)
    BY <1>5, TakesKeep
  <2>. QED
    BY <1>5, <2>1 DEF TakeResult, TakeOffset, OpenedExists
<1>6. CASE FillStream(i) \/ ProbeEof(i) \/ Tell(i) \/ Die(i)
  <2>1. KeepsDue(i)
    BY <1>6, OthersKeep
  <2>. QED
    BY <1>6, <2>1 DEF FillStream, ProbeEof, Tell, Die, OpenedExists
<1>. QED
  BY <1>1, <1>2, <1>3, <1>4, <1>5, <1>6 DEF StepsOf

LEMMA AgreeNext ==
  ASSUME FopenPlain
  PROVE  Inv /\ AgreeInv /\ FopenWorks /\ SentWhole' /\ [Next]_vars => AgreeInv'
<1>1. SUFFICES ASSUME Inv, AgreeInv, FopenWorks, SentWhole', [Next]_vars
               PROVE  AgreeInv'
  OBVIOUS
<1>2. TypeInv /\ InStep(rep) /\ Agree(prog, shm, rep) /\ OpenedExists
  BY <1>1 DEF Inv, AgreeInv
<1>3. CASE CheckOnly
  <2>1. Agree(prog, shm, rep')
    BY <1>2, <1>3, CheckOnlyAgrees
  <2>. QED
    BY <1>2, <1>3, <2>1 DEF CheckOnly, AgreeInv, OpenedExists
<1>4. CASE MasterCall
  <2>1. SentWhole'
    BY <1>1
  <2>. QED
    BY <1>2, <1>4, <2>1, MasterCallAgrees DEF AgreeInv
<1>5. CASE CompareExits
  <2>1. Agree(prog, shm, rep')
    BY <1>2, <1>5, CompareExitsAgrees
  <2>. QED
    BY <1>2, <1>5, <2>1 DEF CompareExits, AgreeInv, OpenedExists
<1>6. CASE \E i \in Replicas : StepsOf(i)
  <2>1. PICK i \in Replicas : StepsOf(i)
    BY <1>6
  <2>2. OpenedExists' /\ KeepsDue(i) /\ prog' = prog /\ shm' = shm
    BY <1>1, <1>2, <2>1, ExistsStep
  <2>3. StepOf(i)
    BY <1>2, <2>1, ReplicaStep
  <2>4. Agree(prog, shm, rep')
    BY <1>2, <2>2, <2>3, AgreeStep
  <2>. QED
    BY <2>2, <2>4 DEF AgreeInv
<1>7. CASE UNCHANGED vars
  BY <1>2, <1>7 DEF vars, AgreeInv, OpenedExists
<1>. QED
  BY <1>1, <1>3, <1>4, <1>5, <1>6, <1>7 DEF Next, StepsOf

LEMMA AgreeMeans == AgreeInv => RepliesAgree
<1>1. SUFFICES ASSUME AgreeInv, NEW i \in Alive, NEW j \in Alive,
                      rep[i].pc \in {"call", "end"}, rep[j].pc \in {"call", "end"}
               PROVE  rep[i].results = rep[j].results /\ rep[i].fd = rep[j].fd
  BY DEF RepliesAgree
<1>2. PICK p, q : p = rep[i] /\ q = rep[j]
  OBVIOUS
<1>3. Alike(prog, shm, p, q)
  BY <1>1, <1>2 DEF AgreeInv, Agree, Alive
<1>4. ResultsDue(p, shm) = p.results /\ FdDue(prog, p, shm) = p.fd
  BY <1>1, <1>2, SettledIs
<1>5. ResultsDue(q, shm) = q.results /\ FdDue(prog, q, shm) = q.fd
  BY <1>1, <1>2, SettledIs
<1>. QED
  BY <1>2, <1>3, <1>4, <1>5 DEF Alike

\* As long as what the master leaves in shared memory is all of what it got, and
\* its fopen does not fail, all replicas return the same results and have the file
\* under the same descriptor, through deaths, replacement, and calls that some have
\* made and others not.
THEOREM FilesRepliesAgree ==
  ASSUME FopenPlain
  PROVE  Spec /\ []SentWhole /\ []FopenWorks => []RepliesAgree
<1>1. Inv /\ AgreeInv /\ FopenWorks /\ SentWhole' /\ [Next]_vars => AgreeInv'
  BY AgreeNext
<1>. QED
  BY <1>1, InvAlways, AgreeInit, AgreeMeans, PTL DEF Spec

-----------------------------------------------------------------------------
(* Programs for which both conditions hold whatever they find.             *)

\* Does the file stay as long as the program runs?
Keeps(pr) == pr.file.exists /\ \A k \in DOMAIN pr.calls : pr.calls[k].op # "unlink"

\* The calls whose result reaches the slaves whole whatever it is: not those that
\* stop at the first NUL, fread only byte by byte, and fopen where it cannot fail.
Narrow ==
  \A pr \in Programs : \A k \in DOMAIN pr.calls :
    /\ pr.calls[k].op \notin {"fgets", "gets"}
    /\ pr.calls[k].op = "fread" => pr.calls[k].size = 1
    /\ pr.calls[k].op = "fopen" => "creat" \in pr.calls[k].flags \/ Keeps(pr)

\* Where a record of replicas was sent, it is.
LEMMA SentTo ==
  ASSUME NEW n, NEW to, NEW q \in RepRecords, q = [n EXCEPT !.pc = to]
  PROVE  q.pc = to
<1>1. DOMAIN q = DOMAIN n
  OBVIOUS
<1>2. "pc" \in DOMAIN q
  BY DEF RepRecords
<1>. QED
  BY <1>1, <1>2

\* A replica that does not die gets past the call's result.
LEMMA StepTarget ==
  ASSUME TypeInv, TypeInv', NEW i \in Replicas, StepsOf(i), ~Die(i), NEW q, q = rep'[i]
  PROVE  q.pc \notin {"own", "copy", "dead"}
<1>1. /\ rep \in [Replicas -> RepRecords] /\ rep' \in [Replicas -> RepRecords]
      /\ q \in RepRecords
  BY DEF TypeInv
<1>2. CASE OwnCall(i) \/ Tell(i) \/ Finish(i)
  <2>1. CASE OwnCall(i)
    <3>1. PICK n : n = Returned(rep[i], 0, << >>)
      OBVIOUS
    <3>2. PICK s : s = [n EXCEPT !.pc = "call"]
      OBVIOUS
    <3>3. rep' = [rep EXCEPT ![i] = IF CallOf(rep[i]).op = "getpid" THEN s ELSE Closed(s)]
      BY <2>1, <3>1, <3>2 DEF OwnCall
    <3>4. n.pc = rep[i].pc /\ s.pc = "call" /\ Closed(s).pc = "call"
      BY <1>1, <3>1, <3>2 DEF Returned, Closed, RepRecords
    <3>. QED
      BY <1>1, <3>3, <3>4
  <2>2. CASE Tell(i)
    <3>1. PICK t : t = [offs |-> Ftell(View(rep, i)), eof |-> rep[i].stream.eof]
      OBVIOUS
    <3>2. rep' = [rep EXCEPT ![i].pc = "exit", ![i].told = t]
      BY <2>2, <3>1 DEF Tell
    <3>. QED
      BY <1>1, <3>2 DEF RepRecords
  <2>3. CASE Finish(i)
    <3>1. PICK v : v = Fflush(View(rep, i)).st
      OBVIOUS
    <3>2. rep' = [rep EXCEPT ![i].pc = "end", ![i].stream = v]
      BY <2>3, <3>1 DEF Finish
    <3>. QED
      BY <1>1, <3>2 DEF RepRecords
  <2>. QED
    BY <1>2, <2>1, <2>2, <2>3
<1>3. CASE TakeResult(i) \/ TakeOffset(i) \/ OpenToo(i)
  <2>1. \E n : rep' = [rep EXCEPT ![i] = [n EXCEPT !.pc = "call"]]
    BY <1>3 DEF TakeResult, TakeOffset, OpenToo
  <2>2. PICK n : rep' = [rep EXCEPT ![i] = [n EXCEPT !.pc = "call"]]
    BY <2>1
  <2>3. q = [n EXCEPT !.pc = "call"]
    BY <1>1, <2>2
  <2>. QED
    BY <1>1, <2>3, SentTo
<1>4. CASE SeekStream(i)
  <2>1. PICK n, w, to : /\ n = Copied(rep[i]) /\ w = FseekStart(View(rep, i), shm.offs).st
                        /\ to = IF NeedsFill(Fflush(View(rep, i)).st, shm.offs) THEN "fill"
                                ELSE Seeked
    OBVIOUS
  <2>2. \/ rep' = [rep EXCEPT ![i] = [n EXCEPT !.pc = Seeked]]
        \/ rep' = [rep EXCEPT ![i] = [n EXCEPT !.stream = w, !.pc = to]]
    BY <1>4, <2>1 DEF SeekStream
  <2>3. n \in RepRecords
    BY <1>4, <2>1, CopiedRecord DEF SeekStream
  <2>4. q.pc = Seeked \/ q.pc = to
    BY <1>1, <2>2, <2>3 DEF RepRecords
  <2>. QED
    BY <2>1, <2>4, SeekedIs
<1>5. CASE FillStream(i)
  <2>1. PICK w : w = FseekFill(View(rep, i), shm.offs).st
    OBVIOUS
  <2>2. rep' = [rep EXCEPT ![i].stream = w, ![i].pc = Seeked]
    BY <1>5, <2>1 DEF FillStream
  <2>3. q.pc = Seeked
    BY <1>1, <2>2 DEF RepRecords
  <2>. QED
    BY <2>3, SeekedIs
<1>6. CASE ProbeEof(i)
  <2>1. PICK w, to : /\ w = Getc(View(rep, i)).w.st
                     /\ to = IF Getc(View(rep, i)).c = EOF THEN "tell" ELSE "failed"
    OBVIOUS
  <2>2. rep' = [rep EXCEPT ![i].stream = w, ![i].pc = to]
    BY <1>6, <2>1 DEF ProbeEof
  <2>3. q.pc = to
    BY <1>1, <2>2 DEF RepRecords
  <2>. QED
    BY <2>1, <2>3
<1>. QED
  BY <1>2, <1>3, <1>4, <1>5, <1>6 DEF StepsOf

LEMMA ServedWhole ==
  ASSUME NEW w \in Views, NEW c \in Calls, c.op \notin Locals \cup {"fgets", "gets"},
         c.op = "fread" => c.size = 1, NEW o, o = Served(w, c)
  PROVE  o.sent = o.data
<1>1. CASE c.op = "read"
  <2>1. PICK data : data = BytesAt(w.file.data, w.pos, c.n)
    OBVIOUS
  <2>2. PICK v : v = [w EXCEPT !.pos = w.pos + Len(data)]
    OBVIOUS
  <2>3. o = FdCall(v, Len(data), data)
    BY <1>1, <2>1, <2>2, ServedOps DEF Read
  <2>. QED
    BY <2>3 DEF FdCall
<1>2. CASE c.op = "write"
  <2>1. o = Write(w, c)
    BY <1>2, ServedOps
  <2>. QED
    BY <1>2, <2>1, WriteType
<1>3. CASE c.op = "fgetc"
  BY <1>3, ServedOps DEF Fgetc, StreamCall
<1>4. CASE c.op = "fread"
  <2>1. PICK t : t = Take(w, c.size * c.nmemb, {})
    OBVIOUS
  <2>2. PICK n : n = Len(t.data) \div c.size
    OBVIOUS
  <2>3. o = StreamCall(t.w, n, SubSeq(t.data, 1, n * c.size), SubSeq(t.data, 1, n))
    BY <1>4, <2>1, <2>2, ServedOps DEF Fread
  <2>4. t.data \in Seq(Nat)
    <3>1. c.size * c.nmemb \in Nat
      BY <1>4, CallFields
    <3>2. PICK m \in Nat : m = c.size * c.nmemb
      BY <3>1
    <3>. QED
      BY <2>1, <3>2, TakeType
  <2>5. n \in Int /\ n * c.size = n
    <3>1. Len(t.data) \in Nat
      BY <2>4, LenProperties
    <3>. QED
      BY <1>4, <2>2, <3>1
  <2>. QED
    BY <2>3, <2>5 DEF StreamCall
<1>5. CASE c.op \in StreamWrites
  BY <1>5, ServedOps DEF StreamWrites, Fwrite, Fputc, Fputs, Puts, StreamCall
<1>6. CASE c.op \in Prints
  BY <1>6, ServedOps DEF Prints, Printf, PrintfChk, ResultCall
<1>7. CASE c.op = "fseek"
  <2>1. o = FseekCall(w, c)
    BY <1>7, ServedOps
  <2>2. \E v, ret : \/ o = StreamCall(v, ret, << >>, << >>)
                    \/ o = [StreamCall(v, ret, << >>, << >>) EXCEPT !.eof = FALSE]
    BY <2>1 DEF FseekCall
  <2>. QED
    BY <2>2 DEF StreamCall
<1>8. CASE c.op \in OpenOps
  <2>1. o.sent = o.data
    BY <1>8, OpenType
  <2>. QED
    BY <2>1
<1>9. CASE c.op = "unlink"
  BY <1>9, UnlinkType
<1>10. c.op \in Ops \cup StreamReads \cup StreamWrites \cup Prints
  BY CallFields DEF Ops, StreamReads, StreamWrites, Prints
<1>. QED
  BY <1>1, <1>2, <1>3, <1>4, <1>5, <1>6, <1>7, <1>8, <1>9, <1>10
     DEF Ops, StreamReads, Locals, OpenOps

LEMMA NarrowWhole ==
  ASSUME Narrow
  PROVE  Inv /\ SentWhole /\ [Next]_vars => SentWhole'
<1>1. SUFFICES ASSUME Inv, SentWhole, [Next]_vars
               PROVE  SentWhole'
  OBVIOUS
<1>2. TypeInv /\ InStep(rep)
  BY <1>1 DEF Inv
<1>3. CASE MasterCall
  <2>1. PICK src, r, n, c, o, size, p : CallMade(src, r, n, c, o, size, p)
    BY <1>2, <1>3, MasterCallIs
  <2>2. /\ View(r, Master) \in Views /\ o = Served(View(r, Master), c)
        /\ n \in Nat /\ n < Len(prog.calls)
        /\ c \in Calls /\ c = prog.calls[n + 1] /\ c.op \notin Locals /\ shm' = Left(o)
    BY <2>1, ZenonT(30) DEF CallMade
  <2>3. c.op \notin {"fgets", "gets"} /\ (c.op = "fread" => c.size = 1)
    <3>1. prog \in Programs
      BY <1>2 DEF TypeInv
    <3>2. n + 1 \in DOMAIN prog.calls
      BY <2>2, <3>1, ProgramType
    <3>. QED
      BY <2>2, <3>1, <3>2 DEF Narrow
  <2>4. PICK w : w = View(r, Master)
    OBVIOUS
  <2>5. o.sent = o.data
    BY <2>2, <2>3, <2>4, ServedWhole
  <2>. QED
    BY <2>2, <2>5 DEF Left, SentWhole
<1>4. CASE shm' = shm
  BY <1>1, <1>4 DEF SentWhole
<1>. QED
  BY <1>1, <1>3, <1>4, ZenonT(30) DEF Next, vars, CheckOnly, CompareExits, OwnCall, TakeResult,
     TakeOffset, OpenToo, SeekStream, FillStream, ProbeEof, Tell, Finish, Die

\* A file that was there stays.
FileKept == Keeps(prog) => file.exists

LEMMA FileKeptStep ==
  ASSUME TypeInv, Keeps(prog), file.exists, NEW i \in Replicas, StepsOf(i)
  PROVE  file'.exists
<1>1. CASE OpenToo(i)
  <2>1. PICK flags : flags = IF CallOf(rep[i]).op = "open" THEN CallOf(rep[i]).flags \ {"excl"}
                             ELSE CallOf(rep[i]).flags
    OBVIOUS
  <2>2. file' = IF CanOpen(file, flags) THEN Opened(file, flags) ELSE file
    BY <1>1, <2>1 DEF OpenToo
  <2>3. PICK g : g = Opened(file, flags)
    OBVIOUS
  <2>4. g.exists
    BY <2>3, OpenedType DEF TypeInv
  <2>. QED
    BY <2>2, <2>3, <2>4
<1>2. CASE SeekStream(i) \/ Finish(i)
  <2>1. PICK v, w : v = View(rep, i) /\ w = Fflush(v)
    OBVIOUS
  <2>2. v \in Views /\ v.file = file
    <3>1. PICK p : p = rep[i]
      OBVIOUS
    <3>. QED
      BY <2>1, <3>1, ReplicaFacts
  <2>3. w.file.exists = file.exists
    BY <2>1, <2>2, FflushCases
  <2>4. file' = file \/ file' = w.file
    <3>1. CASE Finish(i)
      BY <2>1, <3>1 DEF Finish
    <3>2. CASE SeekStream(i)
      <4>1. file' = file \/ (shm.offs >= 0 /\ file' = FseekStart(v, shm.offs).file)
        BY <2>1, <3>2 DEF SeekStream, TypeInv, ShmOK
      <4>2. ASSUME shm.offs \in Nat
            PROVE  FseekStart(v, shm.offs).file = w.file
        <5>1. PICK offs \in Nat : offs = shm.offs
          BY <4>2
        <5>2. PICK u : u = FseekStart(v, offs)
          OBVIOUS
        <5>3. Sought(w, offs, u)
          BY <2>1, <2>2, <5>2, FseekStartCases
        <5>4. u.file = w.file
          BY <5>3 DEF Sought
        <5>. QED
          BY <5>1, <5>2, <5>4
      <4>3. shm.offs \in Int
        BY DEF TypeInv, ShmOK
      <4>. QED
        BY <4>1, <4>2, <4>3
    <3>. QED
      BY <1>2, <3>1, <3>2
  <2>. QED
    BY <2>3, <2>4
<1>3. CASE OwnCall(i) \/ TakeResult(i) \/ TakeOffset(i) \/ FillStream(i) \/ ProbeEof(i)
           \/ Tell(i) \/ Die(i)
  BY <1>3 DEF OwnCall, TakeResult, TakeOffset, FillStream, ProbeEof, Tell, Die
<1>. QED
  BY <1>1, <1>2, <1>3 DEF StepsOf

LEMMA FileKeptNext == Inv /\ FileKept /\ [Next]_vars => FileKept'
<1>1. SUFFICES ASSUME Inv, FileKept, [Next]_vars, Keeps(prog')
               PROVE  file'.exists
  BY DEF FileKept
<1>2. TypeInv /\ InStep(rep)
  BY <1>1 DEF Inv
<1>3. prog' = prog
  BY <1>1, ZenonT(30) DEF Next, vars, CheckOnly, MasterCall, CompareExits, OwnCall,
     TakeResult, TakeOffset, OpenToo, SeekStream, FillStream, ProbeEof, Tell, Finish, Die
<1>4. Keeps(prog) /\ file.exists
  BY <1>1, <1>3 DEF FileKept
<1>5. CASE MasterCall
  <2>1. PICK src, r, n, c, o, size, p : CallMade(src, r, n, c, o, size, p)
    BY <1>2, <1>5, MasterCallIs
  <2>2. /\ View(r, Master) \in Views /\ View(r, Master).file = file
        /\ o = Served(View(r, Master), c) /\ n \in Nat /\ n < Len(prog.calls)
        /\ c \in Calls /\ c = prog.calls[n + 1] /\ c.op \notin Locals /\ file' = o.w.file
    BY <2>1, ZenonT(30) DEF CallMade
  <2>3. c.op # "unlink"
    <3>1. prog \in Programs
      BY <1>2 DEF TypeInv
    <3>2. n + 1 \in DOMAIN prog.calls
      BY <2>2, <3>1, ProgramType
    <3>. QED
      BY <1>4, <2>2, <3>2 DEF Keeps
  <2>4. PICK w : w = View(r, Master)
    OBVIOUS
  <2>5. o.w.file.exists
    BY <1>4, <2>2, <2>3, <2>4, ServedType
  <2>. QED
    BY <2>2, <2>5
<1>6. CASE \E i \in Replicas : StepsOf(i)
  BY <1>2, <1>4, <1>6, FileKeptStep
<1>7. CASE CheckOnly \/ CompareExits \/ UNCHANGED vars
  BY <1>4, <1>7 DEF CheckOnly, CompareExits, vars
<1>. QED
  BY <1>1, <1>5, <1>6, <1>7 DEF Next, StepsOf

\* An fopen that the master makes succeeds.
LEMMA FopenSucceeds ==
  ASSUME FopenPlain, Narrow, Inv, FileKept, MasterCall
  PROVE  FopenWorks'
<1>1. TypeInv /\ TypeInv' /\ InStep(rep) /\ prog \in Programs
  BY InvNext DEF Inv, TypeInv, Next
<1>2. PICK src, r, n, c, o, size, p : CallMade(src, r, n, c, o, size, p)
  BY <1>1, MasterCallIs
<1>3. /\ View(r, Master) \in Views /\ View(r, Master).file = file
      /\ o = Served(View(r, Master), c) /\ n \in Nat /\ n < Len(prog.calls)
      /\ c \in Calls /\ c = prog.calls[n + 1] /\ c.op \notin Locals
      /\ shm' = Left(o) /\ prog' = prog
      /\ Arrived(src, "call") /\ src \in Alive /\ r = Restored(src)
  BY <1>2, ZenonT(30) DEF CallMade
<1>4. /\ \A i \in Replicas : Len(r[i].results) = n
      /\ \A i \in Replicas \ {Master} : rep'[i] = [r[i] EXCEPT !.pc = "copy"]
      /\ rep'[Master] = [Returned(p, o.ret, o.data) EXCEPT
                            !.pc = IF o.compare THEN "tell" ELSE "call"]
  BY <1>2, ZenonT(30) DEF CallMade
<1>5. SUFFICES ASSUME NEW i \in Replicas, rep'[i].pc = "copy",
                      prog'.calls[Len(rep'[i].results) + 1].op = "fopen"
               PROVE  shm'.ret = 0
  BY DEF FopenWorks, CallOf
<1>6. i # Master
  <2>1. rep'[Master] \in RepRecords
    BY <1>1 DEF TypeInv, Master, Replicas, Voters
  <2>2. PICK x, to : /\ x = Returned(p, o.ret, o.data)
                     /\ to = IF o.compare THEN "tell" ELSE "call"
    OBVIOUS
  <2>3. rep'[Master].pc = to
    BY <1>4, <2>1, <2>2, SentTo
  <2>. QED
    BY <1>5, <2>2, <2>3
<1>7. rep'[i].results = r[i].results
  <2>1. r[i] \in RepRecords
    BY <1>1, <1>3, RestoredOK DEF ReplicaOK, RepOK
  <2>2. rep'[i] = [r[i] EXCEPT !.pc = "copy"]
    BY <1>4, <1>6
  <2>. QED
    BY <2>1, <2>2 DEF RepRecords
<1>8. c.op = "fopen"
  BY <1>3, <1>4, <1>5, <1>7
<1>9. CanOpen(file, c.flags)
  <2>1. n + 1 \in DOMAIN prog.calls
    BY <1>1, <1>3, ProgramType
  <2>2. ~({"creat", "excl"} \subseteq c.flags)
    BY <1>1, <1>3, <1>8, <2>1 DEF FopenPlain
  <2>3. "creat" \in c.flags \/ file.exists
    BY <1>1, <1>3, <1>8, <2>1 DEF Narrow, FileKept
  <2>. QED
    BY <2>2, <2>3 DEF CanOpen
<1>10. o.ret = 0
  <2>1. PICK w : w = View(r, Master)
    OBVIOUS
  <2>. QED
    BY <1>3, <1>8, <1>9, <2>1, OpenType DEF OpenOps
<1>. QED
  BY <1>3, <1>10 DEF Left

LEMMA ExitsCompared ==
  ASSUME CompareExits
  PROVE  \E r, to : to # "copy" /\ rep' = [i \in Replicas |-> [r[i] EXCEPT !.pc = to]]
<1>1. PICK src \in Alive :
             LET r == Restored(src)
                 bad == BadProc([i \in Replicas |-> r[i].told])
             IN  \/ /\ bad \in Replicas
                    /\ \E voter \in Replicas \ {bad} :
                         rep' = [i \in Replicas |->
                                  [(IF i = bad THEN CopyOf(r[voter]) ELSE r[i]) EXCEPT
                                     !.pc = "call"]]
                 \/ /\ bad = AllAgree
                    /\ rep' = [i \in Replicas |-> [r[i] EXCEPT !.pc = "call"]]
                 \/ /\ bad = NoMajority
                    /\ rep' = [i \in Replicas |-> [r[i] EXCEPT !.pc = "failed"]]
  BY DEF CompareExits
<1>. DEFINE r == Restored(src)
            bad == BadProc([i \in Replicas |-> r[i].told])
<1>2. \/ \E voter \in Replicas \ {bad} :
            rep' = [i \in Replicas |->
                     [(IF i = bad THEN CopyOf(r[voter]) ELSE r[i]) EXCEPT !.pc = "call"]]
      \/ rep' = [i \in Replicas |-> [r[i] EXCEPT !.pc = "call"]]
      \/ rep' = [i \in Replicas |-> [r[i] EXCEPT !.pc = "failed"]]
  BY <1>1
<1>. HIDE DEF r, bad
<1>3. CASE rep' = [i \in Replicas |-> [r[i] EXCEPT !.pc = "call"]]
  BY <1>3
<1>4. CASE rep' = [i \in Replicas |-> [r[i] EXCEPT !.pc = "failed"]]
  BY <1>4
<1>5. ASSUME NEW voter \in Replicas \ {bad},
             rep' = [i \in Replicas |->
                      [(IF i = bad THEN CopyOf(r[voter]) ELSE r[i]) EXCEPT !.pc = "call"]]
      PROVE  \E x, to : to # "copy" /\ rep' = [i \in Replicas |-> [x[i] EXCEPT !.pc = to]]
  <2>1. PICK x : x = [i \in Replicas |-> IF i = bad THEN CopyOf(r[voter]) ELSE r[i]]
    OBVIOUS
  <2>2. rep' = [i \in Replicas |-> [x[i] EXCEPT !.pc = "call"]]
    BY <1>5, <2>1
  <2>. QED
    BY <2>2
<1>. QED
  BY <1>2, <1>3, <1>4, <1>5

LEMMA FopenNext ==
  ASSUME FopenPlain, Narrow
  PROVE  Inv /\ FileKept /\ FopenWorks /\ [Next]_vars => FopenWorks'
<1>1. SUFFICES ASSUME Inv, FileKept, FopenWorks, [Next]_vars
               PROVE  FopenWorks'
  OBVIOUS
<1>2. TypeInv /\ TypeInv'
  BY <1>1, InvNext DEF Inv
<1>3. CASE MasterCall
  BY <1>1, <1>3, FopenSucceeds
<1>4. CASE CheckOnly
  <2>1. PICK r : rep' = [i \in Replicas |-> [r[i] EXCEPT !.pc = "own"]]
    BY <1>4 DEF CheckOnly
  <2>2. \A i \in Replicas : rep'[i].pc = "own"
    BY <1>2, <2>1, SentTo DEF TypeInv
  <2>. QED
    BY <2>2 DEF FopenWorks
<1>5. CASE CompareExits
  <2>1. PICK r, to : to # "copy" /\ rep' = [i \in Replicas |-> [r[i] EXCEPT !.pc = to]]
    BY <1>5, ExitsCompared
  <2>2. \A i \in Replicas : rep'[i].pc = to
    BY <1>2, <2>1, SentTo DEF TypeInv
  <2>. QED
    BY <2>1, <2>2 DEF FopenWorks
<1>6. CASE \E i \in Replicas : StepsOf(i)
  <2>1. PICK i \in Replicas : StepsOf(i)
    BY <1>6
  <2>2. StepOf(i) /\ shm' = shm /\ prog' = prog
    BY <1>1, <1>2, <2>1, ReplicaStep DEF Inv, StepsOf, OwnCall, TakeResult, TakeOffset,
       OpenToo, SeekStream, FillStream, ProbeEof, Tell, Finish, Die
  <2>3. rep'[i].pc # "copy"
    <3>1. CASE Die(i)
      <4>1. PICK st : rep' = [rep EXCEPT ![i].pc = "dead", ![i].stream.out = st]
        BY <3>1 DEF Die
      <4>. QED
        BY <1>2, <4>1 DEF TypeInv, RepRecords
    <3>2. CASE ~Die(i)
      BY <1>2, <2>1, <3>2, StepTarget
    <3>. QED
      BY <3>1, <3>2
  <2>4. \A j \in Replicas \ {i} : rep'[j] = rep[j]
    BY <2>2 DEF StepOf
  <2>. QED
    BY <1>1, <2>2, <2>3, <2>4 DEF FopenWorks, CallOf
<1>7. CASE UNCHANGED vars
  BY <1>1, <1>7 DEF vars, FopenWorks, CallOf
<1>. QED
  BY <1>1, <1>3, <1>4, <1>5, <1>6, <1>7 DEF Next, StepsOf

LEMMA NarrowSends ==
  ASSUME FopenPlain, Narrow
  PROVE  Spec => []SentWhole /\ []FopenWorks
<1>1. Init => SentWhole /\ FileKept /\ FopenWorks
  <2>1. SUFFICES ASSUME Init
                 PROVE  SentWhole /\ FileKept /\ FopenWorks
    OBVIOUS
  <2>2. shm = Nothing /\ file = prog.file
    BY <2>1 DEF Init
  <2>. QED
    BY <2>2 DEF Nothing, SentWhole, FileKept, Keeps, FopenWorks
<1>2. Inv /\ SentWhole /\ [Next]_vars => SentWhole'
  BY NarrowWhole
<1>3. Inv /\ FileKept /\ [Next]_vars => FileKept'
  BY FileKeptNext
<1>4. Inv /\ FileKept /\ FopenWorks /\ [Next]_vars => FopenWorks'
  BY FopenNext
<1>. QED
  BY <1>1, <1>2, <1>3, <1>4, InvAlways, PTL DEF Spec

\* For these programs the conditions always hold, so that their replicas agree.
THEOREM NarrowRepliesAgree ==
  ASSUME FopenPlain, Narrow
  PROVE  Spec => []RepliesAgree
BY NarrowSends, FilesRepliesAgree, PTL
=============================================================================
