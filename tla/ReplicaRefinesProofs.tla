------------------------ MODULE ReplicaRefinesProofs ------------------------
(***************************************************************************)
(* The wrappers implement OneProcess: for the programs whose replicas stay *)
(* together, every step of the replicas is a step of one process that      *)
(* makes each call once, or none.                                          *)
(***************************************************************************)
EXTENDS ReplicaStreamsProofs

\* A program opens and removes its file while it does not have it open, and does
\* anything else with it while it has.
UsedInTurn ==
  \A i \in Alive :
    rep[i].pc = "call" /\ HasCall(rep[i])
    => /\ CallOf(rep[i]).op \in OpenOps \cup {"unlink"} => rep[i].desc = NoDesc
       /\ CallOf(rep[i]).op \notin OpenOps \cup {"unlink", "getpid"} => rep[i].desc # NoDesc

-----------------------------------------------------------------------------
(* The leader.                                                             *)

\* Leader, of any group.
LeaderOf(r) ==
  LET most == {i \in Replicas : \A j \in Replicas : Len(r[i].results) >= Len(r[j].results)}
  IN  IF Master \in most THEN Master ELSE Least(most)

\* The numbers of results of a group's replicas.
Counted(r) == \A i \in Replicas : Len(r[i].results) \in Nat
HasMost(r, i) == \A j \in Replicas : Len(r[i].results) >= Len(r[j].results)

LEMMA LeaderIs ==
  ASSUME NEW r, Counted(r), NEW l, l = LeaderOf(r)
  PROVE  /\ l \in Replicas /\ HasMost(r, l)
         /\ HasMost(r, Master) => l = Master
         /\ ~HasMost(r, Master) => \A i \in Replicas : HasMost(r, i) => l <= i
<1> DEFINE most == {i \in Replicas : HasMost(r, i)}
<1>1. l = IF Master \in most THEN Master ELSE Least(most)
  BY DEF LeaderOf, HasMost
<1>2. Replicas = {0, 1, 2} /\ Master = 0
  BY DEF Replicas, Voters, Master
<1>3. most \in SUBSET Nat /\ most \subseteq Replicas
  BY <1>2
<1>4. most # {}
  <2>1. PICK x, y, z : /\ x = Len(r[0].results) /\ y = Len(r[1].results)
                       /\ z = Len(r[2].results)
    OBVIOUS
  <2>2. x \in Nat /\ y \in Nat /\ z \in Nat
    BY <1>2, <2>1 DEF Counted
  <2>3. \/ x >= x /\ x >= y /\ x >= z
        \/ y >= x /\ y >= y /\ y >= z
        \/ z >= x /\ z >= y /\ z >= z
    BY <2>2
  <2>4. HasMost(r, 0) \/ HasMost(r, 1) \/ HasMost(r, 2)
    BY <1>2, <2>1, <2>3 DEF HasMost
  <2>. QED
    BY <1>2, <2>4
<1>5. Least(most) \in most /\ \A y \in most : Least(most) <= y
  BY <1>3, <1>4, LeastIsLeast
<1>6. \A i \in Replicas : i \in most <=> HasMost(r, i)
  OBVIOUS
<1>7. Master \in Replicas
  BY <1>2
<1> HIDE DEF most
<1>8. CASE Master \in most
  BY <1>1, <1>6, <1>7, <1>8
<1>9. CASE Master \notin most
  BY <1>1, <1>3, <1>5, <1>6, <1>7, <1>9
<1>. QED
  BY <1>8, <1>9

\* One replica gets further, but not beyond the leader.
LEMMA LeaderStays ==
  ASSUME NEW r, NEW s, Counted(r), Counted(s), NEW i \in Replicas,
         \A j \in Replicas \ {i} : s[j].results = r[j].results,
         Len(s[i].results) >= Len(r[i].results), NEW l, l = LeaderOf(r),
         Len(s[i].results) <= Len(r[l].results), NEW m, m = LeaderOf(s)
  PROVE  /\ m \in {i, l} /\ m \in Replicas /\ (l = Master => m = Master)
         /\ Len(s[m].results) = Len(r[l].results)
<1>1. /\ l \in Replicas /\ HasMost(r, l) /\ (HasMost(r, Master) => l = Master)
      /\ ~HasMost(r, Master) => \A j \in Replicas : HasMost(r, j) => l <= j
  BY LeaderIs
<1>2. /\ m \in Replicas /\ HasMost(s, m) /\ (HasMost(s, Master) => m = Master)
      /\ ~HasMost(s, Master) => \A j \in Replicas : HasMost(s, j) => m <= j
  BY LeaderIs
<1>3. Replicas = {0, 1, 2} /\ Master = 0
  BY DEF Replicas, Voters, Master
<1>4. \A j \in Replicas : Len(r[j].results) \in Nat /\ Len(s[j].results) \in Nat
  BY DEF Counted
<1>5. PICK top \in Nat : top = Len(r[l].results)
  BY <1>1, <1>4
<1>6. \A j \in Replicas : Len(r[j].results) <= top /\ Len(s[j].results) <= top
  BY <1>1, <1>4, <1>5 DEF HasMost
<1>7. Len(s[l].results) = top
  <2>1. CASE l = i
    BY <1>4, <1>5, <1>6, <2>1
  <2>2. CASE l # i
    BY <1>1, <1>5, <2>2
  <2>. QED
    BY <2>1, <2>2
<1>8. Len(s[m].results) = top
  BY <1>1, <1>2, <1>4, <1>6, <1>7 DEF HasMost
<1>9. HasMost(s, l)
  BY <1>4, <1>6, <1>7 DEF HasMost
<1>10. ASSUME m # i
       PROVE  HasMost(r, m)
  <2>1. Len(r[m].results) = top
    BY <1>2, <1>8, <1>10
  <2>. QED
    BY <1>2, <1>4, <1>6, <2>1 DEF HasMost
<1>11. ASSUME l # Master, m # i
       PROVE  m = l
  <2>1. m # Master
    BY <1>1, <1>10, <1>11
  <2>2. l <= m
    BY <1>1, <1>2, <1>10, <1>11
  <2>3. m <= l
    BY <1>1, <1>2, <1>9, <2>1
  <2>. QED
    BY <1>1, <1>2, <1>3, <2>2, <2>3
<1>12. l = Master => m = Master
  BY <1>2, <1>9
<1>. QED
  BY <1>2, <1>5, <1>8, <1>11, <1>12

\* When all have as many, it is the master.
LEMMA LeaderLevel ==
  ASSUME NEW r, NEW n \in Nat, \A i \in Replicas : Len(r[i].results) = n
  PROVE  LeaderOf(r) = Master
<1>1. Counted(r) /\ HasMost(r, Master)
  BY DEF Counted, HasMost, Master, Replicas, Voters
<1>. QED
  BY <1>1, LeaderIs

\* When one has more than all others, it is that.
LEMMA LeaderAlone ==
  ASSUME NEW r, Counted(r), NEW i \in Replicas,
         \A j \in Replicas \ {i} : Len(r[j].results) < Len(r[i].results)
  PROVE  LeaderOf(r) = i
<1>1. PICK l : l = LeaderOf(r)
  OBVIOUS
<1>2. l \in Replicas /\ HasMost(r, l)
  BY <1>1, LeaderIs
<1>3. Len(r[l].results) >= Len(r[i].results)
  BY <1>2 DEF HasMost
<1>4. Len(r[l].results) \in Nat /\ Len(r[i].results) \in Nat
  BY <1>2 DEF Counted
<1>. QED
  BY <1>1, <1>2, <1>3, <1>4

-----------------------------------------------------------------------------
(* The spot that the one process is at.                                    *)

\* A replica is at a spot, and has got these results.
Stands(p, w, o, a, e, x) == p.results = x /\ IsThere(p, w, o, a, e)
LeaderAt(f, ps, r, o, a, e, x) ==
  LET p == r[LeaderOf(r)] IN Stands(p, Sees(f, ps, p), o, a, e, x)

\* The file, and where the one process is, as OneProcess is told.
OneIs(f, o, a, e, x) ==
  /\ Fflush(LeaderView).file = f
  /\ (rep[Leader].desc # NoDesc) = o
  /\ (IF rep[Leader].desc = NoDesc THEN 0 ELSE TruePosition(LeaderView)) = a
  /\ rep[Leader].stream.eof = e
  /\ rep[Leader].results = x

\* The same, of any state.
SeenAs(f, ps, r, g, o, a, e, x) ==
  LET p == r[LeaderOf(r)]
      w == Sees(f, ps, p)
  IN  /\ Fflush(w).file = g
      /\ (p.desc # NoDesc) = o
      /\ (IF p.desc = NoDesc THEN 0 ELSE TruePosition(w)) = a
      /\ p.stream.eof = e
      /\ p.results = x

LEMMA OneSeen ==
  ASSUME NEW g, NEW o, NEW a, NEW e, NEW x, SeenAs(file, pos, rep, g, o, a, e, x)
  PROVE  OneIs(g, o, a, e, x)
<1>1. Leader = LeaderOf(rep)
  BY DEF Leader, LeaderOf
<1>. QED
  BY <1>1 DEF SeenAs, OneIs, LeaderView, View, Sees

LEMMA OneSeenNext ==
  ASSUME NEW g, NEW o, NEW a, NEW e, NEW x, SeenAs(file', pos', rep', g, o, a, e, x)
  PROVE  OneIs(g, o, a, e, x)'
<1>1. Leader' = LeaderOf(rep')
  BY DEF Leader, LeaderOf
<1>. QED
  BY <1>1 DEF SeenAs, OneIs, LeaderView, View, Sees

\* A replica that is there has nothing to flush, so that it sees the one process's file.
LEMMA SpotSeen ==
  ASSUME NEW f \in Files, NEW ps \in [Descs -> Nat], NEW r \in [Replicas -> RepRecords],
         NEW o \in BOOLEAN, NEW a, NEW e, NEW x, LeaderAt(f, ps, r, o, a, e, x)
  PROVE  SeenAs(f, ps, r, f, o, a, e, x)
<1>1. PICK l, p, w : l = LeaderOf(r) /\ p = r[l] /\ w = Sees(f, ps, p)
  OBVIOUS
<1>2. l \in Replicas
  <2>1. Counted(r)
    BY RepFields DEF Counted
  <2>. QED
    BY <1>1, <2>1, LeaderIs
<1>3. p \in RepRecords /\ p.desc \in Descs \cup {NoDesc} /\ p.stream \in Streams
  BY <1>1, <1>2, RepFields
<1>4. w \in Views /\ w.file = f /\ w.st = p.stream /\ (p.desc = NoDesc => w.pos = 0)
  BY <1>1, <1>3, SeesIs
<1>5. p.results = x /\ o = IsOpen(p) /\ Sound(w) /\ a = Where(w) /\ e = w.st.eof
  BY <1>1 DEF LeaderAt, Stands, IsThere
<1>6. Fflush(w).file = f
  BY <1>4, <1>5, NothingFlushed DEF Sound
<1>7. TruePosition(w) = a
  <2>1. w.pos \in Nat /\ Unread(w.st) \in Nat /\ Len(w.st.out) = 0
    BY <1>4, <1>5, ViewType DEF Sound
  <2>. QED
    BY <1>5, <2>1 DEF TruePosition, Where
<1>8. p.desc = NoDesc => a = 0
  <2>1. /\ w.pos \in Nat /\ Unread(w.st) = Len(w.st.buf) - w.st.ptr /\ Len(w.st.buf) \in Nat
        /\ w.st.ptr \in Nat /\ w.st.ptr <= Len(w.st.buf)
    BY <1>4, ViewType
  <2>2. Len(w.st.buf) <= w.pos
    BY <1>5 DEF Sound
  <2>. QED
    BY <1>4, <1>5, <2>1, <2>2 DEF Where
<1>9. (p.desc # NoDesc) = o
  BY <1>5 DEF IsOpen
<1>10. (IF p.desc = NoDesc THEN 0 ELSE TruePosition(w)) = a
  BY <1>7, <1>8
<1>11. p.stream.eof = e
  BY <1>4, <1>5
<1>. QED
  BY <1>1, <1>5, <1>6, <1>9, <1>10, <1>11 DEF SeenAs

-----------------------------------------------------------------------------
(* A step of one replica, in a call or between calls.                      *)

\* What the step leaves to see for the others: what they saw, if each has its own
\* offset or they are there.
LEMMA OthersSee ==
  ASSUME NEW o, NEW a, NEW e, Underway(o, a, e), NEW i \in Replicas, NEW q,
         Moves(i, q, o, a, e), NEW j \in Replicas \ {i}, NEW p, p = rep[j],
         NEW w, w = Sees(file, pos, p), Shares(prog) => IsThere(p, w, o, a, e)
  PROVE  rep'[j] = p /\ Sees(file', pos', p) = w
<1>1. /\ TypeInv /\ TypeInv' /\ KeptAt(prog, shm, file, pos, rep, deaths, o, a, e)
      /\ KeptAt(prog', shm', file', pos', rep', deaths', o, a, e)
  BY OneMoves DEF Underway
<1>2. /\ q = rep'[i] /\ rep'[j] = p /\ prog' = prog /\ shm' = shm /\ file' = file
      /\ \A d \in Descs : pos'[d] = pos[d] \/ (d = q.desc /\ (Shares(prog) => pos'[d] = a))
  BY DEF Moves
<1>3. Sharing(prog, shm, rep, deaths) /\ Sharing(prog, shm, rep', deaths')
  BY <1>1, <1>2 DEF KeptAt
<1>4. /\ file \in Files /\ pos \in [Descs -> Nat] /\ pos' \in [Descs -> Nat]
      /\ p.desc \in Descs \cup {NoDesc} /\ p.stream \in Streams
  BY <1>1, RepFields DEF TypeInv
<1>5. PICK v : v = Sees(file, pos', p)
  OBVIOUS
<1>6. /\ w \in Views /\ w.file = file /\ w.st = p.stream
      /\ p.desc = NoDesc => w.pos = 0
      /\ p.desc # NoDesc => p.desc \in Descs /\ w.pos = pos[p.desc]
  BY <1>4, SeesIs
<1>7. /\ v \in Views /\ v.file = file /\ v.st = p.stream
      /\ p.desc = NoDesc => v.pos = 0
      /\ p.desc # NoDesc => p.desc \in Descs /\ v.pos = pos'[p.desc]
  BY <1>4, <1>5, SeesIs
<1>8. ASSUME v.pos # w.pos
      PROVE  FALSE
  <2>1. p.desc # NoDesc /\ p.desc = q.desc /\ (Shares(prog) => v.pos = a)
    BY <1>2, <1>6, <1>7, <1>8
  <2>2. Shares(prog)
    BY <1>2, <1>3, <2>1 DEF Sharing, OwnDescs
  <2>3. Plain(prog, p)
    BY <1>3, <2>2 DEF Sharing
  <2>4. Where(w) = w.pos
    BY <1>6, <2>3, BlankWhere DEF Plain, Blank
  <2>. QED
    BY <1>8, <2>1, <2>2, <2>4 DEF IsThere
<1>9. v = w
  BY <1>6, <1>7, <1>8, ViewType
<1>. QED
  BY <1>2, <1>5, <1>9

\* A death of a replica that has nothing pending.
LEMMA DieStep ==
  ASSUME NEW o, NEW a, NEW e, Underway(o, a, e), Tame(prog), NEW i \in Replicas, Die(i),
         NEW p, p = rep[i], NEW q, q = rep'[i]
  PROVE  /\ p.pc \notin Gone \cup {"end"} /\ q.pc = "dead" /\ q.results = p.results
         /\ q.desc = p.desc /\ q.stream = p.stream /\ pos' = pos
<1>0. TypeInv /\ TypeInv' /\ rep \in [Replicas -> RepRecords] /\ p \in RepRecords
  BY ReplicaFacts DEF Underway, TypeInv
<1>1. /\ p.pc \notin Gone \cup {"end"} /\ pos' = pos
      /\ rep' = [rep EXCEPT ![i].pc = "dead", ![i].stream.out = << >>]
  BY DEF Die
<1>2. Shares(prog) => Plain(prog, p)
  BY <1>1, FitsNow
<1>3. Shares(prog)
  <2>1. deaths \in Nat
    BY <1>0, ProgramType DEF TypeInv
  <2>2. deaths < prog.deaths
    BY DEF Die
  <2>3. prog.deaths # 0
    BY <2>1, <2>2
  <2>. QED
    BY <2>3 DEF Tame, ByOwnStream, Shares
<1>4. p.stream.out = << >> /\ p.stream.buf = << >> /\ p.stream \in Streams
  BY <1>0, <1>2, <1>3, RepFields DEF Plain, Blank
<1>5. [p.stream EXCEPT !.out = << >>] = p.stream
  BY <1>4 DEF Streams, StreamRecords
<1>6. rep' = [rep EXCEPT ![i] = [p EXCEPT !.pc = "dead", !.stream = p.stream]]
  BY <1>1, <1>5, ZenonT(30)
<1>7. /\ q.pc = "dead" /\ q.results = p.results /\ q.desc = p.desc /\ q.stream = p.stream
  BY <1>0, <1>6 DEF RepRecords
<1>. QED
  BY <1>1, <1>7

\* The steps of a replica that has nothing of the master's to take over.
LEMMA EasyStep ==
  ASSUME NEW o, NEW a, NEW e, Underway(o, a, e), Tame(prog), NEW i \in Replicas, StepsOf(i),
         NEW p, p = rep[i], p.pc \notin {"copy", "fill", "probe"}, NEW q, q = rep'[i]
  PROVE  /\ p.pc \in {"own", "call", "tell", "exit"} /\ q.pc \in {"call", "exit", "end", "dead"}
         /\ p.pc \in {"own", "call"} => q.pc # "exit"
         /\ q.pc = "call" => p.pc = "own"
         /\ q.pc = "dead" => q.results = p.results /\ q.desc = p.desc /\ q.stream = p.stream
         /\ p.pc = "own" /\ q.pc # "dead" => q.pc = "call"
         /\ q.stream.buf = << >> \/ (q.stream = p.stream /\ q.desc = p.desc)
         /\ pos' = pos
<1>0. TypeInv /\ TypeInv' /\ rep \in [Replicas -> RepRecords] /\ p \in RepRecords
  BY ReplicaFacts DEF Underway, TypeInv
<1>1. CASE OwnCall(i)
  <2>1. PICK n : n = [Returned(p, 0, << >>) EXCEPT !.pc = "call"]
    OBVIOUS
  <2>2. /\ p.pc = "own" /\ pos' = pos
        /\ rep' = [rep EXCEPT ![i] = IF CallOf(p).op = "getpid" THEN n ELSE Closed(n)]
    BY <1>1, <2>1 DEF OwnCall
  <2>3. /\ n.pc = "call" /\ n.stream = p.stream /\ n.desc = p.desc
        /\ Closed(n).pc = "call" /\ Closed(n).stream = FreshStream(FALSE)
    BY <1>0, <2>1 DEF Returned, RepRecords, Closed
  <2>4. q = n \/ q = Closed(n)
    BY <1>0, <2>2
  <2>5. FreshStream(FALSE).buf = << >>
    BY DEF FreshStream
  <2>. QED
    BY <2>2, <2>3, <2>4, <2>5
<1>2. CASE Tell(i)
  <2>1. PICK t : t = [offs |-> Ftell(View(rep, i)), eof |-> rep[i].stream.eof]
    OBVIOUS
  <2>2. /\ p.pc = "tell" /\ pos' = pos /\ rep' = [rep EXCEPT ![i].pc = "exit", ![i].told = t]
    BY <1>2, <2>1 DEF Tell
  <2>3. q.pc = "exit" /\ q.stream = p.stream /\ q.desc = p.desc
    BY <1>0, <2>2 DEF RepRecords
  <2>. QED
    BY <2>2, <2>3
<1>3. CASE Finish(i)
  <2>1. PICK w, v : w = Sees(file, pos, p) /\ v = Fflush(View(rep, i))
    OBVIOUS
  <2>2. /\ p.pc = "call"
        /\ pos' = IF p.desc = NoDesc THEN pos ELSE [pos EXCEPT ![p.desc] = v.pos]
        /\ rep' = [rep EXCEPT ![i].pc = "end", ![i].stream = v.st]
    BY <1>3, <2>1 DEF Finish
  <2>3. /\ Fits(prog, shm, p, w, o, a, e) /\ w \in Views /\ w = View(rep, i)
        /\ w.st = p.stream /\ (p.desc # NoDesc => p.desc \in Descs /\ w.pos = pos[p.desc])
    <3>1. p.pc \notin Gone
      BY <2>2 DEF Gone
    <3>. QED
      BY <2>1, <3>1, FitsNow
  <2>4. v = w
    <3>1. Phase(prog, shm, p) = "rests"
      BY <2>2, PhaseIs
    <3>2. w.st.out = << >>
      BY <2>3, <3>1 DEF Fits, IsThere, Sound
    <3>. QED
      BY <2>1, <2>3, <3>2, NothingFlushed
  <2>5. pos' = pos
    BY <1>0, <2>2, <2>3, <2>4 DEF TypeInv
  <2>6. q.pc = "end" /\ q.stream = p.stream /\ q.desc = p.desc
    BY <1>0, <2>2, <2>3, <2>4 DEF RepRecords
  <2>. QED
    BY <2>2, <2>5, <2>6
<1>4. CASE Die(i)
  <2>1. /\ p.pc \notin Gone \cup {"end"} /\ q.pc = "dead" /\ q.results = p.results
        /\ q.desc = p.desc /\ q.stream = p.stream /\ pos' = pos
    BY <1>4, DieStep
  <2>2. p.pc \in {"own", "call", "tell", "exit"}
    BY <1>0, <2>1 DEF RepRecords, PCs, Gone
  <2>. QED
    BY <2>1, <2>2
<1>. QED
  BY <1>1, <1>2, <1>3, <1>4 DEF StepsOf, TakeResult, TakeOffset, OpenToo, SeekStream,
     FillStream, ProbeEof

\* What a step of one replica leaves it with.
LEMMA StepResults ==
  ASSUME FopenPlain, Inv, TypeInv', AgreeInv, FopenWorks, NEW o, NEW a, NEW e,
         Underway(o, a, e), Tame(prog), NEW i \in Replicas, StepsOf(i), NEW x,
         rep[i].pc \notin Gone => ResultsDue(rep[i], shm) = x, NEW q, q = rep'[i]
  PROVE  /\ Die(i) => q.results = rep[i].results /\ q.pc = "dead"
         /\ ~Die(i) => q.results = x /\ q.pc \notin {"own", "copy"} \cup Gone
         /\ q.pc \notin Gone => ResultsDue(q, shm) = x
<1>1. TypeInv /\ OpenedExists
  BY DEF Inv, AgreeInv
<1>2. CASE Die(i)
  BY <1>2, DieStep DEF Gone
<1>3. CASE ~Die(i)
  <2>1. q.pc \notin {"own", "copy", "dead"}
    BY <1>1, <1>3, StepTarget
  <2>2. q.pc # "failed"
    BY StepMoves DEF Moves
  <2>3. q.pc \notin Gone
    BY <2>1, <2>2 DEF Gone
  <2>4. KeepsDue(i)
    BY <1>1, ExistsStep
  <2>5. rep[i].pc \notin Gone /\ ResultsDue(q, shm) = ResultsDue(rep[i], shm)
    BY <2>3, <2>4 DEF KeepsDue, Alike
  <2>6. ResultsDue(q, shm) = q.results
    BY <2>1, SettledIs
  <2>. QED
    BY <1>3, <2>1, <2>3, <2>5, <2>6
<1>. QED
  BY <1>2, <1>3

\* All replicas make for a spot, the leader is there, and has the results that all
\* are to have.
Moving(o, a, e, x) ==
  /\ o \in BOOLEAN /\ a \in Nat /\ e \in BOOLEAN
  /\ KeptAt(prog, shm, file, pos, rep, deaths, o, a, e)
  /\ LeaderAt(file, pos, rep, o, a, e, x)
  /\ \A i \in Alive : ResultsDue(rep[i], shm) = x
  /\ rep[Master].pc \notin {"copy", "fill", "probe"}
  /\ LeaderOf(rep) # Master =>
       \A i \in Replicas : rep[i].pc \in {"own", "call", "end"} \cup Gone

LEMMA MovingStep ==
  ASSUME FopenPlain, Inv, TypeInv', AgreeInv, FopenWorks, Tame(prog),
         NEW o, NEW a, NEW e, NEW x, Moving(o, a, e, x), NEW i \in Replicas, StepsOf(i)
  PROVE  Moving(o, a, e, x)'
<1>1. PICK p, q, l, m : /\ p = rep[i] /\ q = rep'[i] /\ l = LeaderOf(rep)
                        /\ m = LeaderOf(rep')
  OBVIOUS
<1>2. Underway(o, a, e) /\ TypeInv
  BY DEF Underway, Moving, Inv
<1>3. Moves(i, q, o, a, e) /\ KeptAt(prog', shm', file', pos', rep', deaths', o, a, e)
  BY <1>1, <1>2, StepMoves, OneMoves
<1>4. /\ q = rep'[i] /\ \A j \in Replicas \ {i} : rep'[j] = rep[j]
      /\ prog' = prog /\ shm' = shm /\ file' = file
      /\ q.pc \notin Gone => Fits(prog, shm, q, Sees(file, pos', q), o, a, e)
  BY <1>3 DEF Moves
<1>5. \A j \in Replicas : rep[j].pc \notin Gone => ResultsDue(rep[j], shm) = x
  BY DEF Moving, Alive
<1>6. /\ Die(i) => q.results = p.results /\ q.pc = "dead"
      /\ ~Die(i) => q.results = x /\ q.pc \notin {"own", "copy"} \cup Gone
      /\ q.pc \notin Gone => ResultsDue(q, shm) = x
  BY <1>1, <1>2, <1>5, StepResults
<1>7. Counted(rep) /\ Counted(rep')
  BY <1>2, RepFields DEF Counted, TypeInv
<1>8. /\ l \in Replicas /\ HasMost(rep, l) /\ rep[l].results = x
      /\ IsThere(rep[l], Sees(file, pos, rep[l]), o, a, e)
  BY <1>1, <1>7, LeaderIs DEF Moving, LeaderAt, Stands
<1>9. Len(q.results) >= Len(p.results) /\ Len(q.results) <= Len(rep[l].results)
  <2>1. Len(p.results) \in Nat /\ Len(x) \in Nat /\ Len(p.results) <= Len(x)
    BY <1>1, <1>7, <1>8 DEF Counted, HasMost
  <2>. QED
    BY <1>6, <1>8, <2>1
<1>10. /\ m \in {i, l} /\ m \in Replicas /\ (l = Master => m = Master)
       /\ Len(rep'[m].results) = Len(x)
  BY <1>1, <1>4, <1>7, <1>8, <1>9, LeaderStays
<1>11. /\ rep[Master].pc \notin {"copy", "fill", "probe"}
       /\ l # Master => \A j \in Replicas : rep[j].pc \in {"own", "call", "end"} \cup Gone
  BY <1>1 DEF Moving
<1>12. ASSUME m = i \/ i = Master \/ m # Master
       PROVE  p.pc \notin {"copy", "fill", "probe"}
  BY <1>1, <1>10, <1>11, <1>12 DEF Gone
<1>13. ASSUME m = i \/ i = Master \/ m # Master
       PROVE  /\ p.pc \in {"own", "call", "tell", "exit"}
              /\ q.pc \in {"call", "exit", "end", "dead"}
              /\ p.pc \in {"own", "call"} => q.pc # "exit"
              /\ q.pc = "dead" => q.results = p.results /\ q.desc = p.desc
                                 /\ q.stream = p.stream
              /\ pos' = pos
  BY <1>1, <1>2, <1>12, <1>13, EasyStep
<1>14. Stands(rep'[m], Sees(file', pos', rep'[m]), o, a, e, x)
  <2>1. CASE m # i
    <3>1. m = l
      BY <1>10, <2>1
    <3>2. rep'[l] = rep[l] /\ Sees(file', pos', rep[l]) = Sees(file, pos, rep[l])
      BY <1>2, <1>3, <1>8, <2>1, <3>1, OthersSee
    <3>. QED
      BY <1>8, <3>1, <3>2 DEF Stands
  <2>2. CASE m = i /\ q.pc = "dead"
    <3>1. /\ p.pc \in {"own", "call", "tell", "exit"} /\ q.results = p.results
          /\ q.desc = p.desc /\ q.stream = p.stream /\ pos' = pos
      BY <1>13, <2>2
    <3>2. Len(p.results) = Len(x) /\ ResultsDue(p, shm) = x
      BY <1>1, <1>5, <1>10, <2>2, <3>1 DEF Gone
    <3>3. p.pc # "own"
      <4>1. CASE p.pc = "own"
        <5>1. x = Longer(p.results, OwnResult) /\ p.results \in Seq(Results)
          BY <1>1, <1>2, <3>2, <4>1, RepFields DEF ResultsDue, TypeInv
        <5>2. Len(x) = Len(p.results) + 1 /\ Len(p.results) \in Nat
          BY <5>1 DEF Longer
        <5>. QED
          BY <3>2, <5>2
      <4>. QED
        BY <4>1
    <3>4. p.results = x
      BY <3>1, <3>2, <3>3, SettledIs
    <3>5. Phase(prog, shm, p) = "rests"
      BY <3>1, <3>3, PhaseIs
    <3>6. Fits(prog, shm, p, Sees(file, pos, p), o, a, e)
      BY <1>1, <1>2, <3>1, FitsNow DEF Gone
    <3>7. IsThere(p, Sees(file, pos, p), o, a, e)
      BY <3>5, <3>6 DEF Fits
    <3>8. Sees(file, pos', q) = Sees(file, pos, p)
      BY <3>1 DEF Sees
    <3>9. IsThere(q, Sees(file, pos', q), o, a, e)
      BY <3>1, <3>7, <3>8 DEF IsThere, IsOpen
    <3>. QED
      BY <1>1, <1>4, <2>2, <3>1, <3>4, <3>9 DEF Stands
  <2>3. CASE m = i /\ q.pc # "dead"
    <3>1. q.pc \in {"call", "exit", "end"} /\ ~Die(i)
      BY <1>6, <1>13, <2>3
    <3>2. q.results = x /\ Fits(prog, shm, q, Sees(file, pos', q), o, a, e)
      BY <1>4, <1>6, <3>1 DEF Gone
    <3>3. Phase(prog, shm, q) = "rests"
      BY <3>1, PhaseIs
    <3>4. IsThere(q, Sees(file, pos', q), o, a, e)
      BY <3>2, <3>3 DEF Fits
    <3>. QED
      BY <1>1, <1>4, <2>3, <3>2, <3>4 DEF Stands
  <2>. QED
    BY <2>1, <2>2, <2>3
<1>15. LeaderAt(file', pos', rep', o, a, e, x)
  BY <1>1, <1>14 DEF LeaderAt
<1>16. \A j \in Replicas : rep'[j].pc \notin Gone => ResultsDue(rep'[j], shm') = x
  BY <1>4, <1>5, <1>6
<1>17. rep'[Master].pc \notin {"copy", "fill", "probe"}
  <2>1. CASE i = Master
    BY <1>4, <1>13, <2>1
  <2>2. CASE i # Master
    BY <1>4, <1>10, <1>11, <2>2 DEF Master, Replicas, Voters
  <2>. QED
    BY <2>1, <2>2
<1>18. ASSUME m # Master, NEW j \in Replicas
       PROVE  rep'[j].pc \in {"own", "call", "end"} \cup Gone
  <2>1. \A k \in Replicas : rep[k].pc \in {"own", "call", "end"} \cup Gone
    BY <1>10, <1>11, <1>18
  <2>2. CASE j # i
    BY <1>4, <1>18, <2>1, <2>2
  <2>3. CASE j = i
    <3>1. p.pc \in {"own", "call"}
      BY <1>1, <1>13, <1>18, <2>1 DEF Gone
    <3>2. q.pc \in {"call", "end", "dead"}
      BY <1>13, <1>18, <3>1
    <3>. QED
      BY <1>4, <2>3, <3>2 DEF Gone
  <2>. QED
    BY <2>2, <2>3
<1>19. o \in BOOLEAN /\ a \in Nat /\ e \in BOOLEAN
  BY DEF Moving
<1>. QED
  BY <1>1, <1>3, <1>15, <1>16, <1>17, <1>18, <1>19 DEF Moving, Alive

-----------------------------------------------------------------------------
(* Steps that every replica takes at once, to or from calls that each      *)
(* makes for itself.                                                       *)

\* When all are at a spot, so is the leader.
LEMMA LevelLeader ==
  ASSUME NEW f, NEW ps, NEW r, NEW o, NEW a, NEW e, NEW x, Len(x) \in Nat,
         \A i \in Replicas : Stands(r[i], Sees(f, ps, r[i]), o, a, e, x)
  PROVE  LeaderAt(f, ps, r, o, a, e, x) /\ LeaderOf(r) = Master
<1>1. \A i \in Replicas : Len(r[i].results) = Len(x)
  BY DEF Stands
<1>2. LeaderOf(r) = Master
  BY <1>1, LeaderLevel
<1>3. Master \in Replicas
  BY DEF Master, Replicas, Voters
<1>. QED
  BY <1>2, <1>3 DEF LeaderAt

\* Replicas that have arrived are at the spot, those that have replaced others as well.
LEMMA ArrivedStand ==
  ASSUME Inv, AgreeInv, NEW o, NEW a, NEW e, NEW x, Moving(o, a, e, x), TypeInv',
         NEW src, NEW pc \in {"call", "exit"}, Arrived(src, pc), NEW r, r = Restored(src)
  PROVE  /\ \A i \in Replicas : /\ r[i] \in RepRecords /\ r[i].pc = pc
                                /\ Stands(r[i], Sees(file, pos, r[i]), o, a, e, x)
         /\ src \in Alive /\ rep[src] = r[src] /\ x \in Seq(Results)
<1>1. TypeInv /\ Agree(prog, shm, rep) /\ Underway(o, a, e)
  BY DEF Inv, AgreeInv, Underway, Moving
<1>2. src \in Alive /\ src \in Replicas /\ rep[src].pc = pc
  BY DEF Arrived, Alive
<1>3. r[src] = rep[src]
  BY <1>2 DEF Restored
<1>4. rep[src].results = x
  BY <1>2, SettledIs DEF Moving
<1>5. Gathered(r, o, a, e)
  BY <1>1, RestoredKept
<1>6. /\ \A i, j \in Replicas : Equal(r[i], r[j])
      /\ \A i \in Replicas : r[i] \in RepRecords /\ r[i].pc = pc
  BY <1>1, RestoredEqual
<1>7. ASSUME NEW i \in Replicas
      PROVE  Stands(r[i], Sees(file, pos, r[i]), o, a, e, x)
  <2>1. r[i].results = x
    BY <1>2, <1>3, <1>4, <1>6 DEF Equal
  <2>2. IsThere(r[i], Sees(file, pos, r[i]), o, a, e)
    BY <1>5 DEF Gathered, Fits
  <2>. QED
    BY <2>1, <2>2 DEF Stands
<1>8. x \in Seq(Results)
  BY <1>1, <1>2, <1>4, RepFields DEF TypeInv
<1>. QED
  BY <1>2, <1>3, <1>6, <1>7, <1>8

\* The spot that a replica at rest is at is the one that all make for.
LEMMA RestSpot ==
  ASSUME NEW pr, NEW s, NEW p, NEW w, NEW o, NEW a, NEW e, Fits(pr, s, p, w, o, a, e),
         p.pc \in {"call", "tell"}, NEW o2, NEW a2, NEW e2, IsThere(p, w, o2, a2, e2)
  PROVE  o = o2 /\ a = a2 /\ e = e2
<1>1. Phase(pr, s, p) = "rests"
  BY PhaseIs
<1>2. IsThere(p, w, o, a, e)
  BY <1>1 DEF Fits
<1>. QED
  BY <1>2 DEF IsThere

\* Sending a replica on leaves it where it stands.
LEMMA SentStands ==
  ASSUME NEW p \in RepRecords, NEW to, NEW q, q = [p EXCEPT !.pc = to], NEW f, NEW ps,
         NEW o, NEW a, NEW e, NEW x, Stands(p, Sees(f, ps, p), o, a, e, x)
  PROVE  q.pc = to /\ Stands(q, Sees(f, ps, q), o, a, e, x)
<1>1. q.pc = to /\ q.results = p.results /\ q.desc = p.desc /\ q.stream = p.stream
  BY DEF RepRecords
<1>2. Sees(f, ps, q) = Sees(f, ps, p)
  BY <1>1 DEF Sees
<1>. QED
  BY <1>1, <1>2 DEF Stands, IsThere, IsOpen

\* All replicas that live are about to make a call for themselves, at a spot that
\* they all are at: the leader too, with these results.
Poised(o, a, e, x) ==
  /\ o \in BOOLEAN /\ a \in Nat /\ e \in BOOLEAN /\ Len(x) \in Nat
  /\ \A i \in Replicas :
       rep[i].pc \in {"own", "dead"} /\ Stands(rep[i], Sees(file, pos, rep[i]), o, a, e, x)
  /\ Len(x) < Len(prog.calls) /\ prog.calls[Len(x) + 1].op \in Locals
  /\ o \/ prog.calls[Len(x) + 1].op = "getpid"
  /\ Kept

LEMMA CheckOnlyPoises ==
  ASSUME Inv, AgreeInv, NEW o, NEW a, NEW e, NEW x, Moving(o, a, e, x), TypeInv',
         UsedInTurn, CheckOnly
  PROVE  Poised(o, a, e, x)'
<1>1. PICK src \in Alive :
             /\ Arrived(src, "call") /\ HasCall(rep[src]) /\ CallOf(rep[src]).op \in Locals
             /\ rep' = [i \in Replicas |-> [Restored(src)[i] EXCEPT !.pc = "own"]]
  BY DEF CheckOnly
<1>2. prog' = prog /\ file' = file /\ pos' = pos
  BY DEF CheckOnly
<1>3. PICK r : r = Restored(src)
  OBVIOUS
<1>4. /\ \A i \in Replicas : r[i] \in RepRecords /\ r[i].pc = "call"
                             /\ Stands(r[i], Sees(file, pos, r[i]), o, a, e, x)
      /\ rep[src] = r[src] /\ x \in Seq(Results)
  BY <1>1, <1>3, ArrivedStand
<1>5. rep' = [i \in Replicas |-> [r[i] EXCEPT !.pc = "own"]]
  BY <1>1, <1>3
<1>6. ASSUME NEW i \in Replicas
      PROVE  rep'[i].pc = "own" /\ Stands(rep'[i], Sees(file', pos', rep'[i]), o, a, e, x)
  <2>1. r[i] \in RepRecords /\ Stands(r[i], Sees(file, pos, r[i]), o, a, e, x)
    BY <1>4
  <2>2. rep'[i] = [r[i] EXCEPT !.pc = "own"]
    BY <1>5
  <2>3. rep'[i].pc = "own" /\ Stands(rep'[i], Sees(file, pos, rep'[i]), o, a, e, x)
    BY <2>1, <2>2, SentStands
  <2>. QED
    BY <1>2, <2>3
<1>7. src \in Replicas /\ rep[src].pc = "call"
  BY <1>1 DEF Arrived, Alive
<1>8. PICK p : p = rep[src]
  OBVIOUS
<1>9. p.results = x /\ o = IsOpen(p)
  BY <1>4, <1>7, <1>8 DEF Stands, IsThere
<1>10. Len(x) < Len(prog.calls) /\ prog.calls[Len(x) + 1].op \in Locals
  BY <1>1, <1>8, <1>9 DEF HasCall, CallOf
<1>11. o \/ prog.calls[Len(x) + 1].op = "getpid"
  <2>1. CallOf(p) = prog.calls[Len(x) + 1]
    BY <1>9 DEF CallOf
  <2>2. CallOf(p).op \notin OpenOps \cup {"unlink", "getpid"} => p.desc # NoDesc
    BY <1>1, <1>7, <1>8 DEF UsedInTurn
  <2>3. CallOf(p).op # "getpid" => CallOf(p).op \notin OpenOps \cup {"unlink", "getpid"}
    BY <1>1, <1>8 DEF Locals, OpenOps
  <2>. QED
    BY <1>9, <2>1, <2>2, <2>3 DEF IsOpen
<1>12. Kept'
  <2>1. Underway(o, a, e) /\ InStep(rep)
    BY DEF Inv, Underway, Moving
  <2>. QED
    BY <2>1, CheckOnlyKept
<1>13. o \in BOOLEAN /\ a \in Nat /\ e \in BOOLEAN /\ Len(x) \in Nat
  BY <1>4 DEF Moving
<1>. QED
  BY <1>2, <1>6, <1>10, <1>11, <1>12, <1>13 DEF Poised

LEMMA CompareExitsMoves ==
  ASSUME Inv, AgreeInv, NEW o, NEW a, NEW e, NEW x, Moving(o, a, e, x), TypeInv',
         CompareExits
  PROVE  Moving(o, a, e, x)'
<1>1. Underway(o, a, e)
  BY DEF Inv, Underway, Moving
<1>2. PICK src \in Alive :
             /\ Arrived(src, "exit")
             /\ rep' = [i \in Replicas |-> [Restored(src)[i] EXCEPT !.pc = "call"]]
  BY <1>1, ExitsAgree
<1>3. prog' = prog /\ file' = file /\ pos' = pos /\ shm' = shm /\ deaths' = deaths
  BY DEF CompareExits
<1>4. PICK r : r = Restored(src)
  OBVIOUS
<1>5. /\ \A i \in Replicas : r[i] \in RepRecords
                             /\ Stands(r[i], Sees(file, pos, r[i]), o, a, e, x)
      /\ x \in Seq(Results)
  BY <1>2, <1>4, ArrivedStand
<1>6. rep' = [i \in Replicas |-> [r[i] EXCEPT !.pc = "call"]]
  BY <1>2, <1>4
<1>7. ASSUME NEW i \in Replicas
      PROVE  rep'[i].pc = "call" /\ Stands(rep'[i], Sees(file', pos', rep'[i]), o, a, e, x)
  <2>1. r[i] \in RepRecords /\ Stands(r[i], Sees(file, pos, r[i]), o, a, e, x)
    BY <1>5
  <2>2. rep'[i] = [r[i] EXCEPT !.pc = "call"]
    BY <1>6
  <2>3. rep'[i].pc = "call" /\ Stands(rep'[i], Sees(file, pos, rep'[i]), o, a, e, x)
    BY <2>1, <2>2, SentStands
  <2>. QED
    BY <1>3, <2>3
<1>8. PICK o2 \in BOOLEAN, a2 \in Nat, e2 \in BOOLEAN :
        KeptAt(prog', shm', file', pos', rep', deaths', o2, a2, e2)
  <2>1. Kept'
    BY <1>1, CompareExitsKept
  <2>. QED
    BY <2>1 DEF Kept
<1>9. o2 = o /\ a2 = a /\ e2 = e
  <2>1. PICK q, v : q = rep'[Master] /\ v = Sees(file', pos', q)
    OBVIOUS
  <2>2. Master \in Replicas
    BY DEF Master, Replicas, Voters
  <2>3. q.pc = "call" /\ IsThere(q, v, o, a, e)
    BY <1>7, <2>1, <2>2 DEF Stands
  <2>4. Fits(prog', shm', q, v, o2, a2, e2)
    BY <1>8, <2>1, <2>2, <2>3 DEF KeptAt, AllFit, Gone
  <2>. QED
    BY <2>3, <2>4, RestSpot
<1>10. LeaderAt(file', pos', rep', o, a, e, x) /\ LeaderOf(rep') = Master
  BY <1>5, <1>7, LevelLeader
<1>11. \A i \in Replicas : ResultsDue(rep'[i], shm') = x
  BY <1>7, SettledIs DEF Stands
<1>12. o \in BOOLEAN /\ a \in Nat /\ e \in BOOLEAN
  BY DEF Moving
<1>13. Master \in Replicas
  BY DEF Master, Replicas, Voters
<1>. QED
  BY <1>7, <1>8, <1>9, <1>10, <1>11, <1>12, <1>13 DEF Moving, Alive

\* The spot after that call is for everybody to get to.
LEMMA PoisedMeans ==
  ASSUME Inv, TypeInv', NEW o, NEW a, NEW e, NEW x, Poised(o, a, e, x)
  PROVE  \E o2 \in BOOLEAN, a2 \in Nat, e2 \in BOOLEAN :
           /\ Underway(o2, a2, e2)
           /\ \A i \in Alive : ResultsDue(rep[i], shm) = Append(x, OwnResult)
           /\ Alive # {} /\ prog.calls[Len(x) + 1].op = "getpid" => o2 = o /\ a2 = a /\ e2 = e
           /\ Alive # {} /\ prog.calls[Len(x) + 1].op # "getpid" => ~o2 /\ a2 = 0 /\ ~e2
<1>1. PICK o2 \in BOOLEAN, a2 \in Nat, e2 \in BOOLEAN :
             KeptAt(prog, shm, file, pos, rep, deaths, o2, a2, e2)
  BY DEF Poised, Kept
<1>2. Underway(o2, a2, e2)
  BY <1>1 DEF Underway, Inv
<1>3. ASSUME NEW i \in Alive
      PROVE  /\ ResultsDue(rep[i], shm) = Append(x, OwnResult)
             /\ prog.calls[Len(x) + 1].op = "getpid" => o2 = o /\ a2 = a /\ e2 = e
             /\ prog.calls[Len(x) + 1].op # "getpid" => ~o2 /\ a2 = 0 /\ ~e2
  <2>1. PICK p, w : p = rep[i] /\ w = Sees(file, pos, p)
    OBVIOUS
  <2>2. i \in Replicas /\ p.pc \notin Gone
    BY <2>1 DEF Alive
  <2>3. p.pc = "own" /\ p.results = x /\ IsThere(p, w, o, a, e)
    BY <2>1, <2>2 DEF Poised, Stands, Gone
  <2>4. Fits(prog, shm, p, w, o2, a2, e2)
    BY <1>1, <2>1, <2>2 DEF KeptAt, AllFit
  <2>5. ResultsDue(p, shm) = Append(x, OwnResult)
    BY <2>3 DEF ResultsDue, Longer
  <2>6. ASSUME prog.calls[Len(x) + 1].op = "getpid"
        PROVE  o2 = o /\ a2 = a /\ e2 = e
    <3>1. Phase(prog, shm, p) = "rests"
      BY <2>3, <2>6 DEF Phase, Closing
    <3>2. IsThere(p, w, o2, a2, e2)
      BY <2>4, <3>1 DEF Fits
    <3>. QED
      BY <2>3, <3>2 DEF IsThere
  <2>7. ASSUME prog.calls[Len(x) + 1].op # "getpid"
        PROVE  ~o2 /\ a2 = 0 /\ ~e2
    <3>1. Phase(prog, shm, p) = "closes"
      BY <2>3, <2>7 DEF Phase, Closing
    <3>. QED
      BY <2>4, <3>1 DEF Fits, WillClose
  <2>. QED
    BY <2>1, <2>5, <2>6, <2>7
<1>4. \A i \in Alive : ResultsDue(rep[i], shm) = Append(x, OwnResult)
  BY <1>3
<1>5. /\ Alive # {} /\ prog.calls[Len(x) + 1].op = "getpid" => o2 = o /\ a2 = a /\ e2 = e
      /\ Alive # {} /\ prog.calls[Len(x) + 1].op # "getpid" => ~o2 /\ a2 = 0 /\ ~e2
  BY <1>3
<1>. QED
  BY <1>2, <1>4, <1>5

\* Whoever dies before the call leaves the rest where they are.
LEMMA PoisedDie ==
  ASSUME FopenPlain, Inv, TypeInv', Tame(prog),
         NEW o, NEW a, NEW e, NEW x, Poised(o, a, e, x), NEW i \in Replicas, Die(i)
  PROVE  Poised(o, a, e, x)'
<1>1. PICK o2 \in BOOLEAN, a2 \in Nat, e2 \in BOOLEAN : Underway(o2, a2, e2)
  BY PoisedMeans
<1>2. PICK p, q : p = rep[i] /\ q = rep'[i]
  OBVIOUS
<1>3. StepsOf(i)
  BY DEF StepsOf
<1>4. Moves(i, q, o2, a2, e2)
  BY <1>1, <1>2, <1>3, StepMoves
<1>5. /\ q.pc = "dead" /\ q.results = p.results /\ q.desc = p.desc
      /\ q.stream = p.stream /\ pos' = pos
  BY <1>1, <1>2, DieStep
<1>6. prog' = prog /\ file' = file /\ \A j \in Replicas \ {i} : rep'[j] = rep[j]
  BY <1>4 DEF Moves
<1>7. Kept'
  <2>1. KeptAt(prog', shm', file', pos', rep', deaths', o2, a2, e2)
    BY <1>1, <1>4, OneMoves
  <2>. QED
    BY <2>1 DEF Kept
<1>8. ASSUME NEW j \in Replicas
      PROVE  /\ rep'[j].pc \in {"own", "dead"}
             /\ Stands(rep'[j], Sees(file', pos', rep'[j]), o, a, e, x)
  <2>1. rep[j].pc \in {"own", "dead"} /\ Stands(rep[j], Sees(file, pos, rep[j]), o, a, e, x)
    BY DEF Poised
  <2>2. CASE j # i
    BY <1>5, <1>6, <2>1, <2>2
  <2>3. CASE j = i
    <3>1. Sees(file, pos, q) = Sees(file, pos, p)
      BY <1>5 DEF Sees
    <3>2. Stands(p, Sees(file, pos, p), o, a, e, x)
      BY <1>2, <2>1, <2>3
    <3>3. Stands(q, Sees(file, pos, q), o, a, e, x)
      BY <1>5, <3>1, <3>2 DEF Stands, IsThere, IsOpen
    <3>. QED
      BY <1>2, <1>5, <1>6, <2>3, <3>3
  <2>. QED
    BY <2>2, <2>3
<1>. QED
  BY <1>6, <1>7, <1>8 DEF Poised

\* Whoever makes the call first is then the leader, and the others make for where it is.
LEMMA PoisedOwn ==
  ASSUME FopenPlain, Inv, TypeInv', AgreeInv, FopenWorks, Tame(prog),
         NEW o, NEW a, NEW e, NEW x, Poised(o, a, e, x), NEW i \in Replicas, OwnCall(i)
  PROVE  \E o2, a2, e2 :
           /\ Moving(o2, a2, e2, Append(x, OwnResult))'
           /\ prog.calls[Len(x) + 1].op = "getpid" => o2 = o /\ a2 = a /\ e2 = e
           /\ prog.calls[Len(x) + 1].op # "getpid" => ~o2 /\ a2 = 0 /\ ~e2
<1>1. PICK p, q, y : p = rep[i] /\ q = rep'[i] /\ y = Append(x, OwnResult)
  OBVIOUS
<1>2. p.pc = "own" /\ i \in Alive
  BY <1>1 DEF OwnCall, Alive, Gone
<1>3. PICK o2 \in BOOLEAN, a2 \in Nat, e2 \in BOOLEAN :
             /\ Underway(o2, a2, e2)
             /\ \A j \in Alive : ResultsDue(rep[j], shm) = y
             /\ prog.calls[Len(x) + 1].op = "getpid" => o2 = o /\ a2 = a /\ e2 = e
             /\ prog.calls[Len(x) + 1].op # "getpid" => ~o2 /\ a2 = 0 /\ ~e2
  BY <1>1, <1>2, PoisedMeans
<1>4. StepsOf(i)
  BY DEF StepsOf
<1>5. Moves(i, q, o2, a2, e2)
  BY <1>1, <1>3, <1>4, StepMoves
<1>6. /\ prog' = prog /\ shm' = shm /\ file' = file
      /\ \A j \in Replicas \ {i} : rep'[j] = rep[j]
      /\ q.pc \notin Gone => Fits(prog, shm, q, Sees(file, pos', q), o2, a2, e2)
  BY <1>5 DEF Moves
<1>7. q.pc = "call"
  <2>1. PICK n : n = [Returned(p, 0, << >>) EXCEPT !.pc = "call"]
    OBVIOUS
  <2>2. rep' = [rep EXCEPT ![i] = IF CallOf(p).op = "getpid" THEN n ELSE Closed(n)]
    BY <1>1, <2>1 DEF OwnCall
  <2>3. q = (IF CallOf(p).op = "getpid" THEN n ELSE Closed(n)) /\ q \in RepRecords
    BY <1>1, <2>2 DEF TypeInv, Inv
  <2>4. p \in RepRecords
    BY <1>1 DEF TypeInv, Inv
  <2>5. n.pc = "call" /\ Closed(n).pc = "call"
    BY <2>1, <2>4 DEF RepRecords, Returned, Closed
  <2>. QED
    BY <2>3, <2>5
<1>8. KeptAt(prog', shm', file', pos', rep', deaths', o2, a2, e2)
  BY <1>1, <1>3, <1>5, OneMoves
<1>9. q.results = y
  <2>1. rep[i].pc \notin Gone => ResultsDue(rep[i], shm) = y
    BY <1>2, <1>3
  <2>2. Die(i) => q.pc = "dead"
    BY <1>1, <1>3, <1>4, <2>1, StepResults
  <2>3. ~Die(i) => q.results = y
    BY <1>1, <1>3, <1>4, <2>1, StepResults
  <2>. QED
    BY <1>7, <2>2, <2>3
<1>10. x = p.results /\ Len(x) \in Nat /\ x \in Seq(Results)
  <2>1. p.results = x
    BY <1>1 DEF Poised, Stands
  <2>2. p \in RepRecords
    BY <1>1 DEF TypeInv, Inv
  <2>. QED
    BY <2>1, <2>2, RepFields
<1>11. Len(y) = Len(x) + 1 /\ y \in Seq(Results)
  <2>1. q \in RepRecords
    BY <1>1 DEF TypeInv
  <2>2. y \in Seq(Results)
    BY <1>9, <2>1, RepFields
  <2>. QED
    BY <1>1, <1>10, <2>2, LenProperties, AppendProperties
<1>12. \A j \in Replicas \ {i} : rep'[j].results = x /\ rep'[j].pc \in {"own", "dead"}
  BY <1>6 DEF Poised, Stands
<1>13. LeaderOf(rep') = i
  <2>1. Counted(rep')
    BY <1>1, <1>9, <1>10, <1>11, <1>12 DEF Counted
  <2>2. \A j \in Replicas \ {i} : Len(rep'[j].results) < Len(rep'[i].results)
    BY <1>1, <1>9, <1>10, <1>11, <1>12
  <2>. QED
    BY <2>1, <2>2, LeaderAlone
<1>14. LeaderAt(file', pos', rep', o2, a2, e2, y)
  <2>1. Phase(prog, shm, q) = "rests" /\ q.pc \notin Gone
    BY <1>7, PhaseIs DEF Gone
  <2>2. IsThere(q, Sees(file, pos', q), o2, a2, e2)
    BY <1>6, <2>1 DEF Fits
  <2>3. Stands(rep'[i], Sees(file', pos', rep'[i]), o2, a2, e2, y)
    BY <1>1, <1>6, <1>9, <2>2 DEF Stands
  <2>. QED
    BY <1>13, <2>3 DEF LeaderAt
<1>15. ASSUME NEW j \in Replicas, rep'[j].pc \notin Gone
       PROVE  ResultsDue(rep'[j], shm') = y
  <2>1. CASE j = i
    BY <1>1, <1>7, <1>9, <2>1, SettledIs
  <2>2. CASE j # i
    <3>1. rep'[j] = rep[j] /\ j \in Alive
      BY <1>6, <1>15, <2>2 DEF Alive
    <3>. QED
      BY <1>3, <1>6, <3>1
  <2>. QED
    BY <2>1, <2>2
<1>16. \A j \in Replicas : rep'[j].pc \in {"own", "call", "end"} \cup Gone
  BY <1>1, <1>7, <1>12 DEF Gone
<1>17. rep'[Master].pc \notin {"copy", "fill", "probe"}
  BY <1>16 DEF Gone, Master, Replicas, Voters
<1>18. Moving(o2, a2, e2, y)'
  BY <1>8, <1>14, <1>15, <1>16, <1>17 DEF Moving, Alive
<1>. QED
  BY <1>1, <1>3, <1>18

LEMMA PoisedOnly ==
  ASSUME NEW o, NEW a, NEW e, NEW x, Poised(o, a, e, x), Next
  PROVE  \E i \in Replicas : Die(i) \/ OwnCall(i)
<1>1. \A i \in Replicas : rep[i].pc \in {"own", "dead"}
  BY DEF Poised
<1>2. \A src, pc : Arrived(src, pc) => pc = "own"
  BY <1>1 DEF Arrived, Alive, Gone
<1>3. ~CheckOnly /\ ~MasterCall /\ ~CompareExits
  BY <1>2 DEF CheckOnly, MasterCall, CompareExits
<1>4. ASSUME NEW i \in Replicas
      PROVE  /\ ~TakeResult(i) /\ ~TakeOffset(i) /\ ~OpenToo(i) /\ ~SeekStream(i)
             /\ ~FillStream(i) /\ ~ProbeEof(i) /\ ~Tell(i) /\ ~Finish(i)
  BY <1>1 DEF TakeResult, TakeOffset, OpenToo, SeekStream, FillStream, ProbeEof, Tell, Finish
<1>. QED
  BY <1>3, <1>4 DEF Next

-----------------------------------------------------------------------------
(* What the master has read ahead is what is in the file.                  *)

InHand(w) ==
  \A k \in 1 .. Len(w.st.buf) : w.st.buf[k] = w.file.data[w.pos - Len(w.st.buf) + k]
MasterInHand == InHand(Sees(file, pos, rep[Master]))

LEMMA NothingInHand ==
  ASSUME NEW w, w.st.buf = << >>
  PROVE  InHand(w)
<1>1. Len(w.st.buf) = 0
  OBVIOUS
<1>. QED
  BY <1>1 DEF InHand

LEMMA SameInHand ==
  ASSUME NEW f, NEW ps, NEW p, NEW q, q.desc = p.desc, q.stream = p.stream,
         InHand(Sees(f, ps, p))
  PROVE  InHand(Sees(f, ps, q))
<1>1. Sees(f, ps, q) = Sees(f, ps, p)
  BY DEF Sees
<1>. QED
  BY <1>1

LEMMA StepInHand ==
  ASSUME FopenPlain, NEW o, NEW a, NEW e, Underway(o, a, e), Tame(prog), MasterInHand,
         NEW i \in Replicas, StepsOf(i), rep[Master].pc \notin {"copy", "fill", "probe"}
  PROVE  MasterInHand'
<1>1. PICK m, q : m = rep[Master] /\ q = rep'[Master]
  OBVIOUS
<1>2. Master \in Replicas
  BY DEF Master, Replicas, Voters
<1>3. Moves(i, rep'[i], o, a, e)
  BY StepMoves
<1>4. file' = file
  BY <1>3 DEF Moves
<1>5. CASE i = Master
  <2>1. /\ q.stream.buf = << >> \/ (q.stream = m.stream /\ q.desc = m.desc)
        /\ pos' = pos
    BY <1>1, <1>5, EasyStep
  <2>2. Sees(file, pos, q).st = q.stream
    BY DEF Sees
  <2>3. InHand(Sees(file, pos, m))
    BY <1>1 DEF MasterInHand
  <2>4. InHand(Sees(file, pos, q))
    <3>1. CASE q.stream.buf = << >>
      BY <2>2, <3>1, NothingInHand
    <3>2. CASE q.stream = m.stream /\ q.desc = m.desc
      BY <2>3, <3>2, SameInHand
    <3>. QED
      BY <2>1, <3>1, <3>2
  <2>. QED
    BY <1>1, <1>4, <2>1, <2>4 DEF MasterInHand
<1>6. CASE i # Master /\ ~Shares(prog)
  <2>1. Master \in Replicas \ {i}
    BY <1>2, <1>6
  <2>2. PICK w : w = Sees(file, pos, m)
    OBVIOUS
  <2>3. q = m /\ Sees(file', pos', m) = w
    BY <1>1, <1>3, <1>6, <2>1, <2>2, OthersSee
  <2>. QED
    BY <1>1, <2>2, <2>3 DEF MasterInHand
<1>7. CASE Shares(prog)
  <2>1. KeptAt(prog', shm', file', pos', rep', deaths', o, a, e) /\ prog' = prog
    BY <1>3, OneMoves DEF Moves
  <2>2. q.stream.buf = << >>
    BY <1>1, <1>2, <1>7, <2>1 DEF KeptAt, Sharing, Plain, Blank
  <2>3. Sees(file', pos', q).st = q.stream
    BY DEF Sees
  <2>4. InHand(Sees(file', pos', q))
    BY <2>2, <2>3, NothingInHand
  <2>. QED
    BY <1>1, <2>4 DEF MasterInHand
<1>. QED
  BY <1>5, <1>6, <1>7

\* A master that has just arrived, be it a copy of another.
LEMMA ArrivedInHand ==
  ASSUME NEW o, NEW a, NEW e, Underway(o, a, e), MasterInHand,
         NEW src, NEW pc \in {"call", "exit"}, Arrived(src, pc), NEW r, r = Restored(src)
  PROVE  InHand(Sees(file, pos, r[Master]))
<1>1. PICK m, q : m = rep[Master] /\ q = r[Master]
  OBVIOUS
<1>2. Master \in Replicas
  BY DEF Master, Replicas, Voters
<1>3. Gathered(r, o, a, e)
  BY RestoredKept
<1>4. CASE Shares(prog)
  <2>1. q.stream.buf = << >>
    BY <1>1, <1>2, <1>3, <1>4 DEF Gathered, Plain, Blank
  <2>2. Sees(file, pos, q).st = q.stream
    BY DEF Sees
  <2>. QED
    BY <1>1, <2>1, <2>2, NothingInHand
<1>5. CASE ~Shares(prog)
  <2>1. m.pc # "dead" /\ m.pc # "failed"
    BY <1>1, <1>2, <1>5 DEF Underway, KeptAt, Sharing
  <2>2. q = m
    BY <1>1, <1>2, <2>1 DEF Restored, Alive, Gone
  <2>. QED
    BY <1>1, <2>2 DEF MasterInHand
<1>. QED
  BY <1>4, <1>5

LEMMA SentInHand ==
  ASSUME NEW p \in RepRecords, NEW to, rep'[Master] = [p EXCEPT !.pc = to],
         file' = file, pos' = pos, InHand(Sees(file, pos, p))
  PROVE  MasterInHand'
<1>1. PICK q : q = rep'[Master]
  OBVIOUS
<1>2. q.desc = p.desc /\ q.stream = p.stream
  BY <1>1 DEF RepRecords
<1>3. InHand(Sees(file, pos, q))
  BY <1>2, SameInHand
<1>. QED
  BY <1>1, <1>3 DEF MasterInHand

LEMMA AllInHand ==
  ASSUME NEW o, NEW a, NEW e, Underway(o, a, e), MasterInHand, CheckOnly \/ CompareExits
  PROVE  MasterInHand'
<1>1. Master \in Replicas
  BY DEF Master, Replicas, Voters
<1>2. file' = file /\ pos' = pos
  BY DEF CheckOnly, CompareExits
<1>3. ASSUME NEW src, NEW pc \in {"call", "exit"}, Arrived(src, pc)
      PROVE  /\ Restored(src)[Master] \in RepRecords
             /\ InHand(Sees(file, pos, Restored(src)[Master]))
  BY <1>1, <1>3, RestoredKept, ArrivedInHand DEF Gathered
<1>4. CASE CheckOnly
  <2>1. PICK src \in Alive :
          /\ Arrived(src, "call")
          /\ rep' = [i \in Replicas |-> [Restored(src)[i] EXCEPT !.pc = "own"]]
    BY <1>4 DEF CheckOnly
  <2>2. rep'[Master] = [Restored(src)[Master] EXCEPT !.pc = "own"]
    BY <1>1, <2>1
  <2>. QED
    BY <1>2, <1>3, <2>1, <2>2, SentInHand
<1>5. CASE CompareExits
  <2>1. PICK src \in Alive :
          /\ Arrived(src, "exit")
          /\ rep' = [i \in Replicas |-> [Restored(src)[i] EXCEPT !.pc = "call"]]
    BY <1>5, ExitsAgree
  <2>2. rep'[Master] = [Restored(src)[Master] EXCEPT !.pc = "call"]
    BY <1>1, <2>1
  <2>. QED
    BY <1>2, <1>3, <2>1, <2>2, SentInHand
<1>. QED
  BY <1>4, <1>5

-----------------------------------------------------------------------------
(* What reading off a stream comes to.                                     *)

\* The bytes from a place on.
RestOf(d, a) == SubSeq(d, a + 1, Len(d))

LEMMA RestIs ==
  ASSUME NEW d \in Seq(Nat), NEW a \in Nat, NEW rest, rest = RestOf(d, a)
  PROVE  /\ rest \in Seq(Nat) /\ Len(rest) \in Nat
         /\ a >= Len(d) => Len(rest) = 0 /\ rest = << >>
         /\ a < Len(d) => Len(rest) = Len(d) - a
         /\ \A k \in 1 .. Len(rest) : rest[k] = d[a + k]
<1>1. Len(d) \in Nat
  BY LenProperties
<1>2. \A i \in a + 1 .. Len(d) : d[i] \in Nat
  BY <1>1, ElementOfSeq
<1>3. /\ rest \in Seq(Nat)
      /\ Len(rest) = IF a + 1 <= Len(d) THEN Len(d) - (a + 1) + 1 ELSE 0
      /\ \A k \in 1 .. Len(d) - (a + 1) + 1 : rest[k] = d[a + 1 + k - 1]
  BY <1>1, <1>2 DEF RestOf
<1>4. /\ a >= Len(d) => Len(rest) = 0
      /\ a < Len(d) => Len(rest) = Len(d) - a
  BY <1>1, <1>3
<1>5. \A k \in 1 .. Len(rest) : rest[k] = d[a + k]
  BY <1>1, <1>3, <1>4, SMTT(30)
<1>6. Len(rest) \in Nat
  BY <1>3, LenProperties
<1>7. Len(rest) = 0 => rest = << >>
  BY <1>3, EmptySeq
<1>. QED
  BY <1>3, <1>4, <1>5, <1>6, <1>7

\* What is left of the file for a stream.
Rest(w) == RestOf(w.file.data, Where(w))
\* A stream that knows where it is, and what it has in hand.
Ready(w) == w \in Views /\ Sound(w) /\ InHand(w)

\* fgetc got the next byte of rest, or found the end of the file.
GotOne(w, rest, g) ==
  /\ Ready(g.w) /\ g.w.file = w.file /\ rest \in Seq(Nat)
  /\ rest = << >> => g.c = EOF /\ Where(g.w) = Where(w) /\ g.w.st.eof = TRUE
  /\ rest # << >> => /\ g.c = rest[1] /\ Where(g.w) = Where(w) + 1
                     /\ g.w.st.eof = w.st.eof /\ Len(rest) > 0

LEMMA GetcDoes ==
  ASSUME NEW w, Ready(w), NEW rest, rest = Rest(w), NEW g, g = Getc(w)
  PROVE  GotOne(w, rest, g)
<1>1. w \in Views /\ Sound(w) /\ InHand(w)
  BY DEF Ready
<1>2. PICK a, b, d, n, z :
        a = Where(w) /\ b = w.st.buf /\ d = w.file.data /\ n = Len(d) /\ z = Len(b)
  OBVIOUS
<1>3. /\ w.pos \in Nat /\ b \in Seq(Nat) /\ z \in Nat /\ w.st.ptr \in Nat
      /\ w.st.ptr <= z /\ d \in Seq(Nat) /\ n \in Nat /\ w.st.eof \in BOOLEAN
  BY <1>1, <1>2, ViewType
<1>4. a \in Nat /\ a <= w.pos /\ a = w.pos - z + w.st.ptr
  BY <1>1, <1>2, WhereType
<1>5. /\ z <= w.pos /\ (b # << >> => w.pos <= n) /\ (w.st.eof => a >= n)
      /\ \A k \in 1 .. z : b[k] = d[w.pos - z + k]
  BY <1>1, <1>2 DEF Sound, InHand
<1>6. Sound(g.w) /\ g.w \in Views /\ g.w.file = w.file
  BY <1>1, GetcSound
<1>7. /\ rest \in Seq(Nat) /\ Len(rest) \in Nat /\ (a >= n => rest = << >>)
      /\ a < n => Len(rest) = n - a
      /\ \A k \in 1 .. Len(rest) : rest[k] = d[a + k]
  <2>1. rest = RestOf(d, a)
    BY <1>2 DEF Rest
  <2>2. d \in Seq(Nat) /\ a \in Nat
    BY <1>3, <1>4
  <2>3. /\ rest \in Seq(Nat) /\ Len(rest) \in Nat
        /\ a >= Len(d) => Len(rest) = 0 /\ rest = << >>
        /\ a < Len(d) => Len(rest) = Len(d) - a
        /\ \A k \in 1 .. Len(rest) : rest[k] = d[a + k]
    BY <2>1, <2>2, RestIs
  <2>4. n = Len(d)
    BY <1>2
  <2>. QED
    BY <2>3, <2>4
<1>8. rest # << >> => a < n /\ Len(rest) > 0 /\ rest[1] = d[a + 1]
  <2>1. rest # << >> => a < n
    BY <1>3, <1>4, <1>7
  <2>. QED
    BY <1>3, <1>4, <1>7, <2>1
<1>9. a < n => rest # << >>
  <2>1. a < n => Len(rest) > 0
    BY <1>3, <1>4, <1>7
  <2>. QED
    BY <2>1, EmptySeq
<1>10. PICK v : v = g.w
  OBVIOUS
<1>11. Where(v) = v.pos - Len(v.st.buf) + v.st.ptr /\ v.pos \in Nat /\ v.st.ptr \in Nat
       /\ Len(v.st.buf) \in Nat
  BY <1>6, <1>10, WhereType, ViewType
<1>12. CASE w.st.ptr < z
  <2>1. /\ v.pos = w.pos /\ v.st.buf = b /\ v.st.ptr = w.st.ptr + 1
        /\ v.st.eof = w.st.eof /\ g.c = b[w.st.ptr + 1]
    BY <1>1, <1>2, <1>10, <1>12, GetcCases
  <2>2. z > 0 /\ b # << >>
    BY <1>2, <1>3, <1>12, EmptySeq
  <2>3. a < n
    BY <1>3, <1>4, <1>5, <1>12, <2>2
  <2>4. Where(v) = a + 1
    <3>1. PICK l, m : l = w.pos /\ m = w.st.ptr
      OBVIOUS
    <3>2. a = l - z + m /\ l \in Nat /\ m \in Nat /\ z \in Nat
      BY <1>3, <1>4, <3>1
    <3>3. Where(v) = l - z + (m + 1)
      BY <1>2, <1>11, <2>1, <3>1
    <3>. QED
      BY <3>2, <3>3
  <2>5. g.c = d[a + 1]
    <3>1. PICK j, l : j = w.st.ptr /\ l = w.pos
      OBVIOUS
    <3>2. j + 1 \in 1 .. z /\ l - z + (j + 1) = a + 1
      BY <1>3, <1>4, <1>12, <3>1
    <3>3. b[j + 1] = d[l - z + (j + 1)]
      BY <1>5, <3>1, <3>2
    <3>. QED
      BY <2>1, <3>1, <3>2, <3>3
  <2>6. InHand(v)
    BY <1>1, <1>2, <1>6, <1>10, <2>1 DEF InHand
  <2>. QED
    BY <1>2, <1>6, <1>7, <1>8, <1>9, <1>10, <2>1, <2>3, <2>4, <2>5, <2>6 DEF Ready, GotOne
<1>13. CASE ~(w.st.ptr < z)
  <2>1. a = w.pos
    BY <1>3, <1>4, <1>13
  <2>2. PICK h : h = Ahead(w)
    OBVIOUS
  <2>3. /\ h \in Seq(Nat) /\ Len(h) \in Nat
        /\ a < n => a + Len(h) <= n /\ Len(h) > 0
        /\ a >= n => Len(h) = 0
        /\ \A k \in 1 .. Len(h) : h[k] = d[a + k]
    <3>1. BufSize \in Nat /\ BufSize > 0
      BY BufSizeAssumption
    <3>2. /\ h \in Seq(Nat) /\ \A k \in 1 .. Len(h) : h[k] = d[a + k]
          /\ Len(h) = IF a >= n THEN 0 ELSE IF a + BufSize < n THEN BufSize ELSE n - a
      <4>1. h = BytesAt(d, a, BufSize)
        BY <1>2, <2>1, <2>2 DEF Ahead
      <4>2. d \in Seq(Nat) /\ a \in Nat /\ BufSize \in Nat /\ n = Len(d)
        BY <1>2, <1>3, <1>4, <3>1
      <4>. QED
        BY <4>1, <4>2, BytesAtType
    <3>3. /\ Len(h) \in Nat /\ (a < n => a + Len(h) <= n /\ Len(h) > 0)
          /\ a >= n => Len(h) = 0
      BY <1>3, <1>4, <3>1, <3>2, SMTT(30)
    <3>. QED
      BY <3>2, <3>3
  <2>4. h = << >> <=> a >= n
    BY <1>3, <1>4, <2>3, EmptySeq
  <2>5. CASE w.st.eof
    <3>1. v = w /\ g.c = EOF
      BY <1>1, <1>2, <1>10, <1>13, <2>5, GetcCases
    <3>. QED
      BY <1>1, <1>2, <1>5, <1>6, <1>7, <1>10, <2>5, <3>1 DEF Ready, GotOne
  <2>6. CASE ~w.st.eof /\ h = << >>
    <3>1. v.pos = w.pos /\ v.st.buf = << >> /\ v.st.ptr = 0 /\ v.st.eof = TRUE /\ g.c = EOF
      BY <1>1, <1>2, <1>10, <1>13, <2>2, <2>6, GetcCases
    <3>2. Where(v) = a
      BY <1>6, <1>10, <2>1, <3>1, BlankWhere
    <3>3. InHand(v)
      BY <3>1, NothingInHand
    <3>. QED
      BY <1>2, <1>6, <1>7, <1>10, <2>4, <2>6, <3>1, <3>2, <3>3 DEF Ready, GotOne
  <2>7. CASE ~w.st.eof /\ h # << >>
    <3>1. /\ v.pos = w.pos + Len(h) /\ v.st.buf = h /\ v.st.ptr = 1 /\ v.st.eof = FALSE
          /\ g.c = h[1]
      BY <1>1, <1>2, <1>10, <1>13, <2>2, <2>7, GetcCases
    <3>2. a < n
      BY <1>3, <1>4, <2>4, <2>7
    <3>3. Where(v) = a + 1 /\ v.pos - Len(v.st.buf) = a
      BY <1>3, <1>4, <1>11, <2>1, <2>3, <3>1
    <3>4. g.c = d[a + 1]
      BY <2>3, <3>1, <3>2
    <3>5. InHand(v)
      <4>1. \A k \in 1 .. Len(v.st.buf) : v.st.buf[k] = v.file.data[v.pos - Len(v.st.buf) + k]
        BY <1>2, <1>6, <1>10, <2>3, <3>1, <3>3
      <4>. QED
        BY <4>1 DEF InHand
    <3>6. v.st.eof = w.st.eof
      BY <1>3, <2>7, <3>1
    <3>. QED
      BY <1>2, <1>6, <1>7, <1>8, <1>9, <1>10, <3>2, <3>3, <3>4, <3>5, <3>6 DEF Ready, GotOne
  <2>. QED
    BY <2>5, <2>6, <2>7
<1>. QED
  BY <1>12, <1>13

\* What is left once some of it is taken.
LEMMA RestAfter ==
  ASSUME NEW d \in Seq(Nat), NEW a \in Nat, NEW m \in Nat, NEW rest, rest = RestOf(d, a),
         m <= Len(rest), NEW left, left = RestOf(d, a + m)
  PROVE  /\ left = << >> <=> m = Len(rest)
         /\ left # << >> => left[1] = rest[m + 1] /\ m < Len(rest) /\ rest[m + 1] \in Nat
<1>1. /\ rest \in Seq(Nat) /\ Len(rest) \in Nat
      /\ a >= Len(d) => Len(rest) = 0 /\ rest = << >>
      /\ a < Len(d) => Len(rest) = Len(d) - a
      /\ \A k \in 1 .. Len(rest) : rest[k] = d[a + k]
  BY RestIs, SMTT(60)
<1>2. a + m \in Nat /\ Len(d) \in Nat
  BY LenProperties
<1>3. /\ left \in Seq(Nat) /\ Len(left) \in Nat
      /\ a + m >= Len(d) => left = << >>
      /\ a + m < Len(d) => Len(left) = Len(d) - (a + m)
      /\ \A k \in 1 .. Len(left) : left[k] = d[(a + m) + k]
  BY <1>2, RestIs
<1>4. m = Len(rest) => a + m >= Len(d)
  BY <1>1, <1>2
<1>5. m # Len(rest) => a + m < Len(d) /\ m < Len(rest)
  BY <1>1, <1>2
<1>6. ASSUME m # Len(rest)
      PROVE  /\ left # << >> /\ left[1] = rest[m + 1] /\ m < Len(rest)
             /\ rest[m + 1] \in Nat
  <2>1. a + m < Len(d) /\ m < Len(rest)
    BY <1>5, <1>6
  <2>2. Len(left) > 0
    BY <1>2, <1>3, <2>1
  <2>3. left # << >>
    BY <2>2, EmptySeq
  <2>4. left[1] = d[(a + m) + 1]
    BY <1>3, <2>2
  <2>5. m + 1 \in 1 .. Len(rest) /\ a + (m + 1) = (a + m) + 1
    BY <1>1, <2>1
  <2>6. rest[m + 1] = d[a + (m + 1)]
    BY <1>1, <2>5
  <2>7. rest[m + 1] \in Nat
    BY <1>1, <2>5, ElementOfSeq
  <2>. QED
    BY <2>1, <2>3, <2>4, <2>5, <2>6, <2>7
<1>. QED
  BY <1>3, <1>4, <1>6

\* None of the first k of these bytes stops the taking.
NoStop(s, k, stop) == \A j \in 1 .. k : s[j] \notin stop
\* After k steps of taking bytes from w, of which this is what is left, r is taken.
TakenSoFar(w, rest, stop, k, r) ==
  /\ r \in Takings /\ Ready(r.w) /\ r.w.file = w.file
  /\ Begins(r.data, rest) /\ Where(r.w) = Where(w) + Len(r.data) /\ Len(r.data) <= k
  /\ r.more => /\ Len(r.data) = k /\ r.w.st.eof = w.st.eof
               /\ NoStop(r.data, Len(r.data), stop)
  /\ ~r.more =>
       \/ /\ r.w.st.eof = w.st.eof /\ Len(r.data) > 0 /\ r.data[Len(r.data)] \in stop
          /\ NoStop(r.data, Len(r.data) - 1, stop)
       \/ /\ r.w.st.eof = TRUE /\ Len(r.data) = Len(rest) /\ Len(r.data) < k
          /\ NoStop(r.data, Len(r.data), stop)

LEMMA TakenMore ==
  ASSUME NEW w, Ready(w), NEW rest, rest = Rest(w), NEW stop, NEW k \in Nat \ {0}, NEW r,
         TakenSoFar(w, rest, stop, k - 1, r), NEW t, t = TakeMore(r, stop)
  PROVE  TakenSoFar(w, rest, stop, k, t)
<1>1. PICK a, d, m : a = Where(w) /\ d = w.file.data /\ m = Len(r.data)
  OBVIOUS
<1>2. a \in Nat /\ d \in Seq(Nat)
  BY <1>1, WhereType, ViewType DEF Ready
<1>3. /\ r \in Takings /\ Ready(r.w) /\ r.w.file = w.file /\ Begins(r.data, rest)
      /\ Where(r.w) = a + m /\ m <= k - 1
      /\ r.more => m = k - 1 /\ r.w.st.eof = w.st.eof /\ NoStop(r.data, m, stop)
  BY <1>1 DEF TakenSoFar
<1>4. r.data \in Seq(Nat) /\ m \in Nat /\ r.more \in BOOLEAN
  BY <1>1, <1>3, LenProperties DEF Takings
<1>5. rest = RestOf(d, a) /\ m <= Len(rest) /\ rest \in Seq(Nat) /\ Len(rest) \in Nat
  <2>1. rest = RestOf(d, a)
    BY <1>1 DEF Rest
  <2>2. rest \in Seq(Nat) /\ Len(rest) \in Nat
    BY <1>2, <2>1, RestIs
  <2>. QED
    BY <1>1, <1>3, <2>1, <2>2 DEF Begins
<1>6. CASE ~r.more
  <2>1. t = r
    BY <1>6 DEF TakeMore
  <2>2. m <= k /\ (m < k - 1 => m < k)
    BY <1>3, <1>4
  <2>. QED
    BY <1>1, <1>6, <2>1, <2>2 DEF TakenSoFar
<1>7. CASE r.more
  <2>1. PICK b, left : b = Getc(r.w) /\ left = Rest(r.w)
    OBVIOUS
  <2>2. /\ Ready(b.w) /\ b.w.file = r.w.file
        /\ left = << >> => b.c = EOF /\ Where(b.w) = Where(r.w) /\ b.w.st.eof = TRUE
        /\ left # << >> => /\ b.c = left[1] /\ Where(b.w) = Where(r.w) + 1
                           /\ b.w.st.eof = r.w.st.eof
    <3>1. GotOne(r.w, left, b)
      BY <1>3, <2>1, GetcDoes
    <3>. QED
      BY <3>1 DEF GotOne
  <2>3. left = RestOf(d, a + m)
    BY <1>1, <1>3, <2>1 DEF Rest
  <2>4. /\ left = << >> <=> m = Len(rest)
        /\ left # << >> => left[1] = rest[m + 1] /\ m < Len(rest) /\ rest[m + 1] \in Nat
    BY <1>2, <1>4, <1>5, <2>3, RestAfter
  <2>5. /\ t \in Takings
        /\ \/ b.c = EOF /\ t.w = b.w /\ t.data = r.data /\ ~t.more
           \/ /\ b.c # EOF /\ t.w = b.w /\ t.data = Append(r.data, b.c)
              /\ t.more = (b.c \notin stop)
    BY <1>3, <1>7, <2>1, TakeMoreCases
  <2>6. CASE left = << >>
    <3>1. /\ t.w = b.w /\ t.data = r.data /\ ~t.more /\ b.w.st.eof = TRUE
          /\ Where(b.w) = a + m /\ m = Len(rest)
      BY <1>3, <2>2, <2>4, <2>5, <2>6
    <3>2. m <= k /\ m < k
      BY <1>3, <1>4
    <3>. QED
      BY <1>1, <1>3, <1>7, <2>2, <2>5, <3>1, <3>2 DEF TakenSoFar
  <2>7. CASE left # << >>
    <3>1. PICK c : c = b.c
      OBVIOUS
    <3>2. c = rest[m + 1] /\ c \in Nat /\ c # EOF /\ m < Len(rest)
      BY <2>2, <2>4, <2>7, <3>1 DEF EOF
    <3>3. t.w = b.w /\ t.data = Append(r.data, c) /\ t.more = (c \notin stop)
      BY <2>5, <3>1, <3>2
    <3>4. /\ Len(t.data) = m + 1 /\ t.data[m + 1] = c
          /\ \A j \in 1 .. m : t.data[j] = r.data[j]
      BY <1>1, <1>4, <3>2, <3>3, AppendProperties
    <3>5. Begins(t.data, rest)
      <4>1. \A j \in 1 .. m : r.data[j] = rest[j]
        BY <1>1, <1>3 DEF Begins
      <4>2. \A j \in 1 .. m + 1 : j \in 1 .. m \/ j = m + 1
        BY <1>4
      <4>3. \A j \in 1 .. m + 1 : t.data[j] = rest[j]
        BY <3>2, <3>4, <4>1, <4>2
      <4>4. m + 1 <= Len(rest)
        BY <1>4, <1>5, <3>2
      <4>. QED
        BY <3>4, <4>3, <4>4 DEF Begins
    <3>6. Where(b.w) = a + (m + 1) /\ m = k - 1 /\ m + 1 = k /\ (m + 1) - 1 = m
      BY <1>2, <1>3, <1>4, <1>7, <2>2, <2>7
    <3>7. NoStop(t.data, m, stop) /\ b.w.st.eof = w.st.eof
      BY <1>3, <1>7, <2>2, <2>7, <3>4 DEF NoStop
    <3>8. c \notin stop => NoStop(t.data, m + 1, stop)
      <4>1. \A j \in 1 .. m + 1 : j \in 1 .. m \/ j = m + 1
        BY <1>4
      <4>. QED
        BY <3>4, <3>7, <4>1 DEF NoStop
    <3>9. Len(t.data) > 0 /\ Len(t.data) <= k
      BY <1>4, <3>4, <3>6
    <3>10. t.more => /\ Len(t.data) = k /\ t.w.st.eof = w.st.eof
                     /\ NoStop(t.data, Len(t.data), stop)
      BY <3>3, <3>4, <3>6, <3>7, <3>8
    <3>11. ~t.more => /\ t.w.st.eof = w.st.eof /\ t.data[Len(t.data)] \in stop
                      /\ NoStop(t.data, Len(t.data) - 1, stop)
      BY <3>3, <3>4, <3>6, <3>7
    <3>12. Where(t.w) = Where(w) + Len(t.data) /\ Ready(t.w) /\ t.w.file = w.file
      BY <1>1, <1>3, <2>2, <3>3, <3>4, <3>6
    <3>. QED
      BY <2>5, <3>5, <3>9, <3>10, <3>11, <3>12 DEF TakenSoFar
  <2>. QED
    BY <2>6, <2>7
<1>. QED
  BY <1>4, <1>6, <1>7

LEMMA TakeDoes ==
  ASSUME NEW w, Ready(w), NEW rest, rest = Rest(w), NEW n \in Nat, NEW stop,
         NEW t, t = Take(w, n, stop)
  PROVE  TakenSoFar(w, rest, stop, n, t)
<1>1. PICK Good : Good = [k \in 0 .. n |-> {r \in Takings : TakenSoFar(w, rest, stop, k, r)}]
  OBVIOUS
<1>2. \A k \in 0 .. n : Good[k] = {r \in Takings : TakenSoFar(w, rest, stop, k, r)}
  BY <1>1
<1>3. [w |-> w, data |-> << >>, more |-> TRUE] \in Good[0]
  <2>1. PICK s : s = [w |-> w, data |-> << >>, more |-> TRUE]
    OBVIOUS
  <2>2. s \in Takings /\ s.w = w /\ s.data = << >> /\ s.more = TRUE
    BY <2>1, EmptySeq DEF Takings, Ready
  <2>3. Len(s.data) = 0
    BY <2>2, EmptySeq
  <2>4. rest \in Seq(Nat) /\ Len(rest) \in Nat
    <3>1. GotOne(w, rest, Getc(w))
      BY GetcDoes
    <3>. QED
      BY <3>1, LenProperties DEF GotOne
  <2>5. Begins(s.data, rest) /\ NoStop(s.data, Len(s.data), stop)
    BY <2>3, <2>4 DEF Begins, NoStop
  <2>6. Where(w) \in Nat /\ Where(w) = Where(w) + 0
    BY WhereType DEF Ready
  <2>7. TakenSoFar(w, rest, stop, 0, s)
    BY <2>2, <2>3, <2>5, <2>6 DEF TakenSoFar
  <2>. QED
    BY <1>2, <2>1, <2>2, <2>7
<1>4. ASSUME NEW k \in 1 .. n, NEW r \in Good[k - 1]
      PROVE  TakeMore(r, stop) \in Good[k]
  <2>1. k \in Nat \ {0} /\ k - 1 \in 0 .. n /\ k \in 0 .. n
    OBVIOUS
  <2>2. TakenSoFar(w, rest, stop, k - 1, r)
    BY <1>2, <2>1
  <2>3. TakenSoFar(w, rest, stop, k, TakeMore(r, stop))
    BY <2>1, <2>2, TakenMore
  <2>4. TakeMore(r, stop) \in Takings
    BY <2>3 DEF TakenSoFar
  <2>. QED
    BY <1>2, <2>1, <2>3, <2>4
<1>5. t \in Good[n]
  BY <1>3, <1>4, TakeCounted
<1>. QED
  BY <1>2, <1>5

\* The least number of bytes that is enough, or all there are.
Enough(rest, full) == IF full = {} THEN Len(rest) ELSE Least(full)

LEMMA LeastEnough ==
  ASSUME NEW rest, Len(rest) \in Nat, NEW full, full \subseteq 0 .. Len(rest),
         NEW n \in full, \A k \in full : n <= k
  PROVE  Enough(rest, full) = n /\ full # {}
<1>1. full \in SUBSET Nat /\ full # {}
  OBVIOUS
<1>2. Least(full) \in full /\ \A k \in full : Least(full) <= k
  BY <1>1, LeastIsLeast
<1>3. Least(full) <= n /\ n <= Least(full) /\ Least(full) \in Nat /\ n \in Nat
  BY <1>1, <1>2
<1>4. Least(full) = n
  BY <1>3
<1>. QED
  BY <1>1, <1>4 DEF Enough

LEMMA BeginningIs ==
  ASSUME NEW s \in Seq(Nat), NEW d \in Seq(Nat), Begins(s, d)
  PROVE  s = SubSeq(d, 1, Len(s))
<1>1. Len(s) \in Nat /\ Len(s) <= Len(d)
  BY LenProperties DEF Begins
<1>2. PICK u : u = SubSeq(d, 1, Len(s))
  OBVIOUS
<1>3. u \in Seq(Nat) /\ Len(u) = Len(s) /\ \A k \in 1 .. Len(s) : u[k] = d[k]
  BY <1>1, <1>2, BeginningOf
<1>4. \A k \in 1 .. Len(s) : s[k] = u[k]
  BY <1>3 DEF Begins
<1>5. s = u
  BY <1>3, <1>4, SeqEqual
<1>. QED
  BY <1>2, <1>5

\* What was taken is the least that is enough, or all there was.
TookEnough(w, rest, full, t) ==
  /\ t.data \in Seq(Nat) /\ t.data = SubSeq(rest, 1, Enough(rest, full))
  /\ Where(t.w) = Where(w) + Enough(rest, full)
  /\ t.w.st.eof = (w.st.eof \/ full = {})
  /\ Ready(t.w) /\ t.w.file = w.file

LEMMA TakenEnough ==
  ASSUME NEW w, Ready(w), NEW rest, rest = Rest(w), NEW stop, NEW n \in Nat, NEW t,
         TakenSoFar(w, rest, stop, n, t), NEW full, full \subseteq 0 .. Len(rest),
         \A k \in 0 .. Len(rest) : k \in full <=> k = n \/ (k > 0 /\ rest[k] \in stop)
  PROVE  TookEnough(w, rest, full, t)
<1>1. PICK m, s : m = Len(t.data) /\ s = t.data
  OBVIOUS
<1>2. /\ s \in Seq(Nat) /\ m \in Nat /\ Begins(s, rest) /\ m <= n
      /\ Where(t.w) = Where(w) + m /\ Ready(t.w) /\ t.w.file = w.file /\ t.more \in BOOLEAN
  BY <1>1, LenProperties DEF TakenSoFar, Takings
<1>3. rest \in Seq(Nat) /\ Len(rest) \in Nat
  <2>1. GotOne(w, rest, Getc(w))
    BY GetcDoes
  <2>. QED
    BY <2>1, LenProperties DEF GotOne
<1>4. m <= Len(rest) /\ \A k \in 1 .. m : s[k] = rest[k]
  BY <1>1, <1>2 DEF Begins
<1>5. s = SubSeq(rest, 1, m)
  BY <1>1, <1>2, <1>3, BeginningIs
<1>6. w.st.eof \in BOOLEAN
  BY ViewType DEF Ready
<1>7. CASE \/ t.more
           \/ /\ t.w.st.eof = w.st.eof /\ Len(t.data) > 0 /\ t.data[Len(t.data)] \in stop
              /\ NoStop(t.data, Len(t.data) - 1, stop)
  <2>1. /\ m = n \/ (s[m] \in stop /\ m > 0)
        /\ NoStop(s, m - 1, stop) /\ t.w.st.eof = w.st.eof
    <3>1. CASE t.more
      <4>1. m = n /\ NoStop(s, m, stop) /\ t.w.st.eof = w.st.eof
        BY <1>1, <3>1 DEF TakenSoFar
      <4>2. NoStop(s, m - 1, stop)
        BY <1>2, <4>1 DEF NoStop
      <4>. QED
        BY <4>1, <4>2
    <3>2. CASE ~t.more
      BY <1>1, <1>7, <3>2
    <3>. QED
      BY <3>1, <3>2
  <2>2. m \in full
    BY <1>2, <1>3, <1>4, <2>1
  <2>3. ASSUME NEW k \in full
        PROVE  m <= k
    <3>1. SUFFICES ASSUME k < m
                   PROVE  FALSE
      BY <1>2, <1>3
    <3>2. k # n /\ k > 0 /\ rest[k] \in stop /\ k \in 1 .. m - 1 /\ k \in 1 .. m
      BY <1>2, <1>3, <3>1
    <3>. QED
      BY <1>4, <2>1, <3>2 DEF NoStop
  <2>4. Enough(rest, full) = m /\ full # {}
    BY <1>3, <2>2, <2>3, LeastEnough
  <2>. QED
    BY <1>1, <1>2, <1>5, <1>6, <2>1, <2>4 DEF TookEnough
<1>8. CASE ~t.more /\ t.w.st.eof = TRUE /\ m = Len(rest) /\ m < n /\ NoStop(s, m, stop)
  <2>1. full = {}
    <3>1. ASSUME NEW k \in full
          PROVE  FALSE
      <4>1. k # n /\ k > 0 /\ rest[k] \in stop /\ k \in 1 .. m
        BY <1>2, <1>3, <1>8
      <4>. QED
        BY <1>4, <1>8, <4>1 DEF NoStop
    <3>. QED
      BY <3>1
  <2>2. Enough(rest, full) = m
    BY <1>8, <2>1 DEF Enough
  <2>. QED
    BY <1>1, <1>2, <1>5, <1>6, <1>8, <2>1, <2>2 DEF TookEnough
<1>9. CASE ~t.more
  <2>1. \/ /\ t.w.st.eof = w.st.eof /\ Len(t.data) > 0 /\ t.data[Len(t.data)] \in stop
           /\ NoStop(t.data, Len(t.data) - 1, stop)
        \/ /\ t.w.st.eof = TRUE /\ Len(t.data) = Len(rest) /\ Len(t.data) < n
           /\ NoStop(t.data, Len(t.data), stop)
    BY <1>9 DEF TakenSoFar
  <2>2. CASE /\ t.w.st.eof = w.st.eof /\ Len(t.data) > 0 /\ t.data[Len(t.data)] \in stop
             /\ NoStop(t.data, Len(t.data) - 1, stop)
    BY <1>7, <2>2
  <2>3. CASE /\ t.w.st.eof = TRUE /\ Len(t.data) = Len(rest) /\ Len(t.data) < n
             /\ NoStop(t.data, Len(t.data), stop)
    BY <1>1, <1>8, <1>9, <2>3
  <2>. QED
    BY <2>1, <2>2, <2>3
<1>. QED
  BY <1>7, <1>9

-----------------------------------------------------------------------------
(* What each call does to the file, where its caller is then, and what it  *)
(* returns, as OneProcess has it.                                          *)

LineOf(taken) ==
  IF taken # << >> /\ taken[Len(taken)] = NL THEN SubSeq(taken, 1, Len(taken) - 1) ELSE taken
\* The result of a call that took these bytes.
Answers(c, taken, ret, data) ==
  /\ c.op = "read" => ret = Len(taken) /\ data = taken
  /\ c.op = "fgetc" => ret = (IF taken = << >> THEN -1 ELSE taken[1]) /\ data = << >>
  /\ c.op = "fread" =>
       /\ ret = Len(taken) \div c.size
       /\ data = SubSeq(taken, 1, (Len(taken) \div c.size) * c.size)
  /\ c.op = "fgets" => ret = (IF taken = << >> /\ c.n > 1 THEN -1 ELSE 0) /\ data = taken
  /\ c.op = "gets" => ret = (IF taken = << >> THEN -1 ELSE 0) /\ data = LineOf(taken)
\* Reading from place a of file f, with the end-of-file flag e, leads to a2 and e2.
ReadsTo(c, f, a, e, a2, e2, ret, data) ==
  \E rest, full :
    /\ rest = IF e THEN << >> ELSE RestOf(f.data, a)
    /\ full = {k \in 0 .. Len(rest) : Abs!Satisfied(c, rest, k)}
    /\ a2 = a + Enough(rest, full)
    /\ e2 = (e \/ (full = {} /\ c.op # "read"))
    /\ Answers(c, SubSeq(rest, 1, Enough(rest, full)), ret, data)

\* A stream at the end of the file has nothing left to read.
LEMMA RestSeen ==
  ASSUME NEW w, Ready(w), NEW rest, rest = Rest(w)
  PROVE  /\ rest = IF w.st.eof THEN << >> ELSE RestOf(w.file.data, Where(w))
         /\ rest \in Seq(Nat) /\ Len(rest) \in Nat /\ Len(rest) <= Len(w.file.data)
<1>1. PICK d, a : d = w.file.data /\ a = Where(w)
  OBVIOUS
<1>2. d \in Seq(Nat) /\ a \in Nat /\ Len(d) \in Nat /\ w.st.eof \in BOOLEAN
  BY <1>1, WhereType, ViewType DEF Ready
<1>3. rest = RestOf(d, a)
  BY <1>1 DEF Rest
<1>4. /\ rest \in Seq(Nat) /\ Len(rest) \in Nat
      /\ a >= Len(d) => Len(rest) = 0 /\ rest = << >>
      /\ a < Len(d) => Len(rest) = Len(d) - a
  BY <1>2, <1>3, RestIs
<1>5. w.st.eof => a >= Len(d)
  BY <1>1 DEF Ready, Sound
<1>6. Len(rest) <= Len(d)
  BY <1>2, <1>4
<1>. QED
  BY <1>1, <1>2, <1>3, <1>4, <1>5, <1>6

LEMMA FgetcDoes ==
  ASSUME NEW w, Ready(w), NEW c, c.op = "fgetc", NEW out, out = Fgetc(w, c)
  PROVE  /\ ReadsTo(c, w.file, Where(w), w.st.eof, Where(out.w), out.w.st.eof,
                    out.ret, out.data)
         /\ Ready(out.w) /\ out.w.file = w.file
<1>1. PICK rest, g : rest = Rest(w) /\ g = Getc(w)
  OBVIOUS
<1>2. /\ rest = IF w.st.eof THEN << >> ELSE RestOf(w.file.data, Where(w))
      /\ rest \in Seq(Nat) /\ Len(rest) \in Nat
  BY <1>1, RestSeen
<1>3. out.w = g.w /\ out.ret = g.c /\ out.data = << >>
  BY <1>1 DEF Fgetc, StreamCall
<1>4. PICK full : full = {k \in 0 .. Len(rest) : Abs!Satisfied(c, rest, k)}
  OBVIOUS
<1>5. full = {k \in 0 .. Len(rest) : k = 1}
  BY <1>4 DEF Abs!Satisfied
<1>6. GotOne(w, rest, g)
  BY <1>1, GetcDoes
<1>7. w.st.eof \in BOOLEAN /\ Where(w) \in Nat
  BY ViewType, WhereType DEF Ready
<1>8. CASE rest = << >>
  <2>1. Len(rest) = 0
    BY <1>8, EmptySeq
  <2>2. full = {} /\ Enough(rest, full) = 0
    BY <1>5, <2>1 DEF Enough
  <2>3. SubSeq(rest, 1, 0) = << >>
    BY <1>2
  <2>4. Answers(c, SubSeq(rest, 1, Enough(rest, full)), out.ret, out.data)
    BY <1>3, <1>6, <1>8, <2>2, <2>3 DEF Answers, GotOne, EOF
  <2>5. Where(out.w) = Where(w) + Enough(rest, full) /\ out.w.st.eof = TRUE
    BY <1>3, <1>6, <1>7, <1>8, <2>2 DEF GotOne
  <2>6. out.w.st.eof = (w.st.eof \/ (full = {} /\ c.op # "read"))
    BY <1>7, <2>2, <2>5
  <2>. QED
    BY <1>2, <1>3, <1>4, <1>6, <2>4, <2>5, <2>6 DEF ReadsTo, GotOne
<1>9. CASE rest # << >>
  <2>1. /\ g.c = rest[1] /\ Where(g.w) = Where(w) + 1 /\ g.w.st.eof = w.st.eof
        /\ Len(rest) > 0
    BY <1>6, <1>9 DEF GotOne
  <2>2. Enough(rest, full) = 1 /\ full # {}
    <3>1. 1 \in full /\ (\A k \in full : 1 <= k) /\ full \subseteq 0 .. Len(rest)
      BY <1>2, <1>5, <2>1
    <3>. QED
      BY <1>2, <3>1, LeastEnough
  <2>3. PICK s : s = SubSeq(rest, 1, 1)
    OBVIOUS
  <2>4. Len(s) = 1 /\ s[1] = rest[1] /\ s \in Seq(Nat)
    BY <1>2, <2>1, <2>3, BeginningOf
  <2>5. s # << >>
    BY <2>4, EmptySeq
  <2>6. Answers(c, SubSeq(rest, 1, Enough(rest, full)), out.ret, out.data)
    BY <1>3, <2>1, <2>2, <2>3, <2>4, <2>5 DEF Answers
  <2>7. Where(out.w) = Where(w) + Enough(rest, full)
    BY <1>3, <2>1, <2>2
  <2>8. out.w.st.eof = (w.st.eof \/ (full = {} /\ c.op # "read"))
    BY <1>3, <1>7, <2>1, <2>2
  <2>. QED
    BY <1>2, <1>3, <1>4, <1>6, <2>6, <2>7, <2>8 DEF ReadsTo, GotOne
<1>. QED
  BY <1>8, <1>9

\* The other calls take bytes until they have enough.
LEMMA TakenReads ==
  ASSUME NEW w, Ready(w), NEW rest, rest = Rest(w), NEW stop, NEW n \in Nat, NEW t,
         t = Take(w, n, stop), NEW c, c.op # "read",
         \A k \in 0 .. Len(rest) :
           Abs!Satisfied(c, rest, k) <=> k = n \/ (k > 0 /\ rest[k] \in stop),
         NEW ret, NEW data, Answers(c, t.data, ret, data)
  PROVE  /\ ReadsTo(c, w.file, Where(w), w.st.eof, Where(t.w), t.w.st.eof, ret, data)
         /\ Ready(t.w) /\ t.w.file = w.file
<1>1. PICK full : full = {k \in 0 .. Len(rest) : Abs!Satisfied(c, rest, k)}
  OBVIOUS
<1>2. /\ full \subseteq 0 .. Len(rest)
      /\ \A k \in 0 .. Len(rest) : k \in full <=> k = n \/ (k > 0 /\ rest[k] \in stop)
  BY <1>1
<1>3. TakenSoFar(w, rest, stop, n, t)
  BY TakeDoes
<1>4. /\ t.data \in Seq(Nat) /\ t.data = SubSeq(rest, 1, Enough(rest, full))
      /\ Where(t.w) = Where(w) + Enough(rest, full)
      /\ t.w.st.eof = (w.st.eof \/ full = {})
      /\ Ready(t.w) /\ t.w.file = w.file
  <2>1. TookEnough(w, rest, full, t)
    BY <1>2, <1>3, TakenEnough
  <2>. QED
    BY <2>1 DEF TookEnough
<1>5. rest = IF w.st.eof THEN << >> ELSE RestOf(w.file.data, Where(w))
  BY RestSeen
<1>6. Answers(c, SubSeq(rest, 1, Enough(rest, full)), ret, data)
  BY <1>4
<1>7. t.w.st.eof = (w.st.eof \/ (full = {} /\ c.op # "read"))
  BY <1>4
<1>. QED
  BY <1>1, <1>4, <1>5, <1>6, <1>7 DEF ReadsTo

\* A stream call's result is what it took, as far as the caller is told.
LEMMA StreamReadDoes ==
  ASSUME NEW w, Ready(w), NEW c \in Calls, c.op \in StreamReads, NEW out, out = Served(w, c)
  PROVE  /\ ReadsTo(c, w.file, Where(w), w.st.eof, Where(out.w), out.w.st.eof,
                    out.ret, out.data)
         /\ Ready(out.w) /\ out.w.file = w.file
<1>1. PICK rest : rest = Rest(w)
  OBVIOUS
<1>2. rest \in Seq(Nat) /\ Len(rest) \in Nat /\ Len(rest) <= Len(w.file.data)
  BY <1>1, RestSeen
<1>3. w.file.data \in Seq(Nat) /\ Len(w.file.data) \in Nat
  BY ViewType DEF Ready
<1>4. CASE c.op = "fgetc"
  <2>1. out = Fgetc(w, c)
    BY <1>4, ServedOps
  <2>. QED
    BY <1>4, <2>1, FgetcDoes
<1>5. CASE c.op = "fgets"
  <2>1. PICK n, t : n = c.n - 1 /\ t = Take(w, c.n - 1, {NL})
    OBVIOUS
  <2>2. out = Fgets(w, c)
    BY <1>5, ServedOps
  <2>3. /\ out.w = t.w /\ out.data = t.data
        /\ out.ret = (IF t.data = << >> /\ c.n > 1 THEN -1 ELSE 0)
    BY <2>1, <2>2 DEF Fgets, StreamCall
  <2>4. n \in Nat /\ t = Take(w, n, {NL}) /\ c.op # "read"
    BY <1>5, <2>1, CallFields
  <2>5. \A k \in 0 .. Len(rest) :
          Abs!Satisfied(c, rest, k) <=> k = n \/ (k > 0 /\ rest[k] \in {NL})
    BY <1>5, <2>1 DEF Abs!Satisfied, Abs!NL, NL
  <2>6. Answers(c, t.data, out.ret, out.data)
    BY <1>5, <2>3 DEF Answers
  <2>7. PICK stop, ret, data : stop = {NL} /\ ret = out.ret /\ data = out.data
    OBVIOUS
  <2>8. /\ \A k \in 0 .. Len(rest) :
             Abs!Satisfied(c, rest, k) <=> k = n \/ (k > 0 /\ rest[k] \in stop)
        /\ t = Take(w, n, stop) /\ Answers(c, t.data, ret, data)
    BY <2>4, <2>5, <2>6, <2>7
  <2>9. /\ ReadsTo(c, w.file, Where(w), w.st.eof, Where(t.w), t.w.st.eof, ret, data)
        /\ Ready(t.w) /\ t.w.file = w.file
    BY <1>1, <2>4, <2>8, TakenReads
  <2>. QED
    BY <2>3, <2>7, <2>9
<1>6. CASE c.op = "gets"
  <2>1. PICK n, t : n = Len(w.file.data) + 1 /\ t = Take(w, Len(w.file.data) + 1, {NL})
    OBVIOUS
  <2>2. out = Gets(w, c)
    BY <1>6, ServedOps
  <2>3. /\ out.w = t.w /\ out.data = LineOf(t.data)
        /\ out.ret = (IF t.data = << >> THEN -1 ELSE 0)
    BY <2>1, <2>2 DEF Gets, StreamCall, LineOf
  <2>4. n \in Nat /\ t = Take(w, n, {NL}) /\ c.op # "read"
    BY <1>3, <1>6, <2>1
  <2>5. \A k \in 0 .. Len(rest) : k # n
    BY <1>2, <1>3, <2>1
  <2>6. \A k \in 0 .. Len(rest) :
          Abs!Satisfied(c, rest, k) <=> k = n \/ (k > 0 /\ rest[k] \in {NL})
    BY <1>6, <2>5 DEF Abs!Satisfied, Abs!NL, NL
  <2>7. Answers(c, t.data, out.ret, out.data)
    BY <1>6, <2>3 DEF Answers
  <2>. QED
    BY <1>1, <2>3, <2>4, <2>6, <2>7, TakenReads
<1>7. CASE c.op = "fread"
  <2>1. PICK n, t : n = c.size * c.nmemb /\ t = Take(w, c.size * c.nmemb, {})
    OBVIOUS
  <2>2. out = Fread(w, c)
    BY <1>7, ServedOps
  <2>3. /\ out.w = t.w /\ out.ret = Len(t.data) \div c.size
        /\ out.data = SubSeq(t.data, 1, (Len(t.data) \div c.size) * c.size)
    <3>1. PICK ret, data, sent :
            /\ ret = Len(t.data) \div c.size /\ data = SubSeq(t.data, 1, ret * c.size)
            /\ sent = SubSeq(t.data, 1, ret)
      OBVIOUS
    <3>2. out = StreamCall(t.w, ret, data, sent)
      BY <2>1, <2>2, <3>1 DEF Fread
    <3>3. out.w = t.w /\ out.ret = ret /\ out.data = data
      BY <3>2 DEF StreamCall
    <3>. QED
      BY <3>1, <3>3
  <2>4. n \in Nat /\ t = Take(w, n, {}) /\ c.op # "read"
    <3>1. c.size \in Nat /\ c.nmemb \in Nat
      BY <1>7, CallFields
    <3>. QED
      BY <1>7, <2>1, <3>1
  <2>5. \A k \in 0 .. Len(rest) :
          Abs!Satisfied(c, rest, k) <=> k = n \/ (k > 0 /\ rest[k] \in {})
    BY <1>7, <2>1 DEF Abs!Satisfied
  <2>6. Answers(c, t.data, out.ret, out.data)
    BY <1>7, <2>3 DEF Answers
  <2>. QED
    BY <1>1, <2>3, <2>4, <2>5, <2>6, TakenReads
<1>. QED
  BY <1>4, <1>5, <1>6, <1>7 DEF StreamReads

\* read of a descriptor, with no stream in the way.
LEMMA ReadDoes ==
  ASSUME NEW w \in Views, w.st.buf = << >>, ~w.st.eof, NEW c \in Calls, c.op = "read",
         NEW out, out = Served(w, c)
  PROVE  /\ ReadsTo(c, w.file, w.pos, w.st.eof, out.w.pos, out.w.st.eof, out.ret, out.data)
         /\ out.w.st = w.st /\ out.w.file = w.file
<1>1. PICK d, a, n, rest : d = w.file.data /\ a = w.pos /\ n = c.n /\ rest = RestOf(d, a)
  OBVIOUS
<1>2. d \in Seq(Nat) /\ a \in Nat /\ Len(d) \in Nat /\ w.st.eof = FALSE /\ n \in Nat
  BY <1>1, ViewType, CallFields
<1>3. /\ rest \in Seq(Nat) /\ Len(rest) \in Nat
      /\ a >= Len(d) => Len(rest) = 0 /\ rest = << >>
      /\ a < Len(d) => Len(rest) = Len(d) - a
      /\ \A k \in 1 .. Len(rest) : rest[k] = d[a + k]
  <2>1. rest = RestOf(d, a)
    BY <1>1
  <2>. QED
    BY <1>2, <2>1, RestIs
<1>4. PICK data : data = BytesAt(d, a, n)
  OBVIOUS
<1>5. /\ data \in Seq(Nat) /\ \A k \in 1 .. Len(data) : data[k] = d[a + k]
      /\ Len(data) = IF a >= Len(d) THEN 0 ELSE IF a + n < Len(d) THEN n ELSE Len(d) - a
  BY <1>2, <1>4, BytesAtType
<1>6. Len(data) = (IF n <= Len(rest) THEN n ELSE Len(rest)) /\ Len(data) \in Nat
  BY <1>2, <1>3, <1>5, SMTT(30)
<1>7. Begins(data, rest)
  BY <1>2, <1>3, <1>5, <1>6 DEF Begins
<1>8. PICK full : full = {k \in 0 .. Len(rest) : Abs!Satisfied(c, rest, k)}
  OBVIOUS
<1>9. full = {k \in 0 .. Len(rest) : k = n}
  BY <1>1, <1>8 DEF Abs!Satisfied
<1>10. Enough(rest, full) = Len(data)
  <2>1. CASE n <= Len(rest)
    <3>1. n \in full /\ (\A k \in full : n <= k) /\ full \subseteq 0 .. Len(rest)
      BY <1>2, <1>3, <1>9, <2>1
    <3>. QED
      BY <1>3, <1>6, <2>1, <3>1, LeastEnough
  <2>2. CASE ~(n <= Len(rest))
    <3>1. full = {}
      BY <1>2, <1>3, <1>9, <2>2
    <3>. QED
      BY <1>6, <2>2, <3>1 DEF Enough
  <2>. QED
    BY <2>1, <2>2
<1>11. data = SubSeq(rest, 1, Enough(rest, full))
  BY <1>3, <1>5, <1>7, <1>10, BeginningIs
<1>12. out = Read(w, c)
  BY ServedOps
<1>13. /\ out.w.file = w.file /\ out.w.st = w.st /\ out.w.pos = a + Len(data)
  <2>1. data = BytesAt(w.file.data, w.pos, c.n)
    BY <1>1, <1>4
  <2>2. out.w = [w EXCEPT !.pos = w.pos + Len(data)]
    BY <1>12, <2>1 DEF Read, FdCall
  <2>3. w.pos + Len(data) \in Nat
    BY <1>1, <1>2, <1>6
  <2>4. out.w.file = w.file /\ out.w.st = w.st /\ out.w.pos = w.pos + Len(data)
    <3>1. PICK l : l = w.pos + Len(data)
      OBVIOUS
    <3>. QED
      BY <2>2, <2>3, <3>1 DEF Views
  <2>. QED
    BY <1>1, <2>4
<1>14. out.ret = Len(data) /\ out.data = data
  BY <1>1, <1>4, <1>12 DEF Read, FdCall
<1>15. Answers(c, SubSeq(rest, 1, Enough(rest, full)), out.ret, out.data)
  BY <1>11, <1>14 DEF Answers
<1>16. out.w.pos = a + Enough(rest, full)
  BY <1>10, <1>13
<1>17. out.w.st.eof = (w.st.eof \/ (full = {} /\ c.op # "read"))
  BY <1>2, <1>13
<1>18. rest = IF w.st.eof THEN << >> ELSE RestOf(w.file.data, w.pos)
  BY <1>1, <1>2
<1>19. ReadsTo(c, w.file, w.pos, w.st.eof, out.w.pos, out.w.st.eof, out.ret, out.data)
  BY <1>1, <1>8, <1>15, <1>16, <1>17, <1>18 DEF ReadsTo
<1>. QED
  BY <1>13, <1>19

(* Writing and seeking.                                                    *)
BytesOf(c) == IF c.op = "puts" THEN Append(c.bytes, NL) ELSE c.bytes

\* Writing these bytes at place a of file f leads to f2 and a2.
WritesTo(f, a, bytes, f2, a2, ret, data) ==
  /\ f2 = [f EXCEPT !.data = Overwrite(f.data, a, bytes)]
  /\ a2 = a + Len(bytes) /\ ret = Len(bytes) /\ data = << >>

LEMMA BytesType ==
  ASSUME NEW c \in Calls, c.op \in {"write"} \cup StreamWrites
  PROVE  BytesOf(c) \in Seq(Nat) /\ Len(BytesOf(c)) \in Nat
<1>1. c.bytes \in Seq(Nat)
  BY CallFields
<1>2. Append(c.bytes, NL) \in Seq(Nat)
  <2>1. NL \in Nat
    BY DEF NL
  <2>. QED
    BY <1>1, <2>1, AppendProperties
<1>. QED
  BY <1>1, <1>2, LenProperties DEF BytesOf

\* Writing to a file's data what is there.
LEMMA SameData ==
  ASSUME NEW f \in Files, NEW d, d = f.data
  PROVE  [f EXCEPT !.data = d] = f
BY DEF Files

\* What was read ahead is dropped when something is flushed.
LEMMA WrittenDoes ==
  ASSUME NEW w, Ready(w), NEW s \in Seq(Nat), NEW v, v = Fflush(Put(w, s))
  PROVE  /\ WritesTo(w.file, Where(w), s, v.file, Where(v), Len(s), << >>)
         /\ v.st.eof = w.st.eof /\ Ready(v)
<1>1. w \in Views /\ Sound(w) /\ InHand(w)
  BY DEF Ready
<1>2. PICK u, d, a : u = Put(w, s) /\ d = w.file.data /\ a = Where(w)
  OBVIOUS
<1>3. /\ u \in Views /\ Unread(u.st) = Unread(w.st) /\ u.pos = w.pos
      /\ u.file = w.file /\ u.st.out = w.st.out \o s /\ u.st.buf = w.st.buf
  BY <1>1, <1>2, PutType
<1>4. u.st.out = s
  <2>1. w.st.out = << >>
    BY <1>1 DEF Sound
  <2>. QED
    BY <1>3, <2>1
<1>5. /\ v \in Views /\ Sound(v) /\ v.file.seeks = w.file.seeks
      /\ v.st.eof = w.st.eof
  BY <1>1, WriteSound
<1>6. /\ a \in Nat /\ a = w.pos - Unread(w.st) /\ Unread(w.st) <= w.pos
      /\ w.pos \in Nat /\ Unread(w.st) \in Nat
  BY <1>1, <1>2, WhereType, ViewType DEF Where
<1>7. w.file \in Files /\ d \in Seq(Nat) /\ Len(s) \in Nat
  BY <1>1, <1>2, ViewType, LenProperties
<1>8. CASE s = << >>
  <2>1. ~Flushable(u) /\ Len(s) = 0
    BY <1>4, <1>8, EmptySeq DEF Flushable
  <2>2. v = u
    BY <1>2, <1>3, <2>1, FflushCases
  <2>3. Where(v) = a /\ v.file = w.file
    BY <1>3, <1>6, <2>2 DEF Where
  <2>4. [w.file EXCEPT !.data = Overwrite(w.file.data, Where(w), s)] = w.file
    <3>1. PICK g : g = Overwrite(w.file.data, Where(w), s)
      OBVIOUS
    <3>2. g = w.file.data
      BY <1>2, <1>6, <1>7, <1>8, <3>1, OverwriteType
    <3>3. [w.file EXCEPT !.data = g] = w.file
      BY <1>7, <3>2, SameData
    <3>. QED
      BY <3>1, <3>3
  <2>5. InHand(v)
    BY <1>1, <1>3, <2>2 DEF InHand
  <2>. QED
    BY <1>2, <1>5, <1>6, <2>1, <2>3, <2>4, <2>5 DEF WritesTo, Ready
<1>9. CASE s # << >>
  <2>1. Len(s) # 0
    BY <1>9, EmptySeq
  <2>2. Flushable(u)
    BY <1>3, <1>4, <1>6, <2>1 DEF Flushable
  <2>3. /\ v.pos = a + Len(s) /\ v.file.data = Overwrite(d, a, s)
        /\ v.st.buf = << >> /\ v.file.exists = u.file.exists
    BY <1>2, <1>3, <1>4, <1>6, <2>2, FflushCases
  <2>4. Where(v) = a + Len(s)
    BY <1>5, <2>3, BlankWhere
  <2>5. v.file = [w.file EXCEPT !.data = Overwrite(d, a, s)]
    BY <1>3, <1>5, <1>7, <2>3, ViewType DEF Files
  <2>6. InHand(v)
    BY <2>3, NothingInHand
  <2>. QED
    BY <1>2, <1>5, <2>4, <2>5, <2>6 DEF WritesTo, Ready
<1>. QED
  BY <1>8, <1>9

LEMMA StreamWriteDoes ==
  ASSUME NEW w, Ready(w), NEW c \in Calls, c.op \in StreamWrites, NEW out, out = Served(w, c)
  PROVE  /\ WritesTo(w.file, Where(w), BytesOf(c), out.w.file, Where(out.w), out.ret, out.data)
         /\ out.w.st.eof = w.st.eof /\ Ready(out.w)
<1>1. PICK s : s = BytesOf(c)
  OBVIOUS
<1>2. s \in Seq(Nat)
  BY <1>1, BytesType
<1>3. out = StreamCall(Fflush(Put(w, s)), Len(s), << >>, << >>)
  BY <1>1, ServedOps DEF StreamWrites, BytesOf, Fwrite, Fputc, Fputs, Puts
<1>4. PICK v : v = Fflush(Put(w, s))
  OBVIOUS
<1>5. out.w = v /\ out.ret = Len(s) /\ out.data = << >>
  BY <1>3, <1>4 DEF StreamCall
<1>6. /\ WritesTo(w.file, Where(w), s, v.file, Where(v), Len(s), << >>)
      /\ v.st.eof = w.st.eof /\ Ready(v)
  BY <1>2, <1>4, WrittenDoes
<1>. QED
  BY <1>1, <1>5, <1>6

\* write to a descriptor, with no stream in the way.
LEMMA WriteDoes ==
  ASSUME NEW w \in Views, NEW c \in Calls, c.op = "write", NEW out, out = Served(w, c)
  PROVE  /\ WritesTo(w.file, w.pos, BytesOf(c), out.w.file, out.w.pos, out.ret, out.data)
         /\ out.w.st = w.st
<1>1. PICK s, d : s = c.bytes /\ d = Overwrite(w.file.data, w.pos, s)
  OBVIOUS
<1>2. s \in Seq(Nat) /\ Len(s) \in Nat
  BY <1>1, CallFields, LenProperties
<1>3. w.file \in Files /\ w.file.data \in Seq(Nat) /\ w.pos \in Nat
  BY ViewType
<1>4. out = Write(w, c)
  BY ServedOps
<1>5. out.w = [w EXCEPT !.file.data = d, !.pos = w.pos + Len(s)]
  BY <1>1, <1>4 DEF Write, FdCall
<1>6. out.w.file = [w.file EXCEPT !.data = d] /\ out.w.pos = w.pos + Len(s) /\ out.w.st = w.st
  BY <1>5 DEF Views
<1>7. out.ret = Len(s) /\ out.data = << >>
  BY <1>1, <1>4 DEF Write, FdCall
<1>8. BytesOf(c) = s
  BY <1>1 DEF BytesOf
<1>. QED
  BY <1>1, <1>6, <1>7, <1>8 DEF WritesTo

\* What fseek reads of the file, it has in hand.
LEMMA FillInHand ==
  ASSUME NEW w \in Views, NEW offs \in Nat, NEW v, v = FseekFill(w, offs)
  PROVE  InHand(v)
<1>1. PICK b : b = Block(w, offs)
  OBVIOUS
<1>2. /\ v \in Views /\ v.file = w.file /\ b \in Seq(Nat)
      /\ IF Len(b) < offs - BlockStart(offs) THEN v.st.buf = << >>
         ELSE v.pos = w.pos + Len(b) /\ v.st.buf = b
  BY <1>1, FseekFillCases
<1>3. CASE Len(b) < offs - BlockStart(offs)
  BY <1>2, <1>3, NothingInHand
<1>4. CASE ~(Len(b) < offs - BlockStart(offs))
  <2>1. PICK d, n : d = w.file.data /\ n = IF w.st.buf = << >> THEN offs - BlockStart(offs)
                                        ELSE BufSize
    OBVIOUS
  <2>2. d \in Seq(Nat) /\ w.pos \in Nat /\ n \in Nat
    BY <2>1, ViewType, BlockStartBounds, BufSizeAssumption
  <2>3. b = BytesAt(d, w.pos, n)
    BY <1>1, <2>1 DEF Block
  <2>4. \A k \in 1 .. Len(b) : b[k] = d[w.pos + k]
    BY <2>2, <2>3, BytesAtType
  <2>5. v.pos - Len(v.st.buf) = w.pos
    <3>1. Len(b) \in Nat
      BY <1>2, LenProperties
    <3>. QED
      BY <1>2, <1>4, <2>2, <3>1
  <2>. QED
    BY <1>2, <1>4, <2>1, <2>4, <2>5 DEF InHand
<1>. QED
  BY <1>3, <1>4

\* fseek gets there.
LEMMA FseekDoes ==
  ASSUME NEW w, Ready(w), w.file.seeks, NEW c \in Calls, c.op = "fseek",
         NEW out, out = Served(w, c)
  PROVE  /\ Ready(out.w) /\ out.w.file = w.file /\ Where(out.w) = c.offs
         /\ ~out.w.st.eof /\ out.ret = 0 /\ out.data = << >>
<1>1. PICK offs, v, u : offs = c.offs /\ v = Fseek(w, offs) /\ u = FseekStart(w, offs)
  OBVIOUS
<1>2. offs \in Nat
  BY <1>1, CallFields
<1>3. w \in Views /\ Sound(w) /\ InHand(w) /\ w.st.out = << >>
  BY DEF Ready, Sound
<1>4. Loose(w)
  BY <1>3, SoundLoose
<1>5. IsAt(v, offs) /\ v.file = w.file
  BY <1>1, <1>2, <1>3, <1>4, FseekSound
<1>6. out = StreamCall(v, 0, << >>, << >>)
  BY <1>1, ServedOps DEF FseekCall
<1>7. out.w = v /\ out.ret = 0 /\ out.data = << >>
  BY <1>6 DEF StreamCall
<1>8. InHand(v)
  <2>1. Sought(w, offs, u) /\ u \in Views
    <3>1. Fflush(w) = w
      BY <1>3, NothingFlushed
    <3>. QED
      <4>1. Sought(Fflush(w), offs, u)
        BY <1>1, <1>2, <1>3, FseekStartCases
      <4>2. Sought(w, offs, u)
        BY <3>1, <4>1
      <4>. QED
        BY <4>2 DEF Sought
  <2>2. CASE NeedsFill(w.st, offs)
    <3>1. v = FseekFill(u, offs)
      BY <1>1, <1>3, <2>2, NothingFlushed DEF Fseek
    <3>. QED
      BY <1>2, <2>1, <3>1, FillInHand
  <2>3. CASE ~NeedsFill(w.st, offs)
    <3>1. v = u
      BY <1>1, <1>3, <2>3, NothingFlushed DEF Fseek
    <3>2. CASE InBuffer(w.st, offs)
      <4>1. v.pos = w.st.offset /\ v.st.buf = w.st.buf /\ v.file = w.file
        BY <1>3, <2>1, <3>1, <3>2 DEF Sought
      <4>2. w.st.offset = w.pos
        BY <1>3, <3>2 DEF InBuffer, Sound
      <4>. QED
        BY <1>3, <4>1, <4>2 DEF InHand
    <3>3. CASE ~InBuffer(w.st, offs)
      <4>1. v.st.buf = << >>
        BY <1>3, <2>1, <2>3, <3>1, <3>3 DEF Sought
      <4>. QED
        BY <4>1, NothingInHand
    <3>. QED
      BY <3>2, <3>3
  <2>. QED
    BY <2>2, <2>3
<1>. QED
  BY <1>1, <1>5, <1>7, <1>8 DEF IsAt, Ready

(* The master's call.                                                      *)
LEMMA TurnsWell == UsedInTurn => WellUsed
BY DEF UsedInTurn, WellUsed, StreamOps, StreamReads, StreamWrites, OpenOps

\* The master is then the one with most results, and the slaves make for where it is.
LEMMA MasterMoves ==
  ASSUME Inv, TypeInv', AgreeInv, SentWhole', Tame(prog), UsedInTurn, MasterCall,
         NEW o, NEW a, NEW e, NEW x, Moving(o, a, e, x),
         NEW src, NEW r, NEW n, NEW c, NEW out, NEW size, NEW p,
         CallMade(src, r, n, c, out, size, p), NEW q, q = rep'[Master]
  PROVE  \E o2, a2, e2 :
           Moving(o2, a2, e2, q.results)' /\ IsThere(q, Sees(file', pos', q), o2, a2, e2)
<1>1. Underway(o, a, e) /\ TypeInv /\ InStep(rep)
  BY DEF Inv, Underway, Moving
<1>2. PICK o2 \in BOOLEAN, a2 \in Nat, e2 \in BOOLEAN :
        KeptAt(prog', shm', file', pos', rep', deaths', o2, a2, e2)
  <2>1. Kept'
    BY <1>1, TurnsWell, MasterCallKept
  <2>. QED
    BY <2>1 DEF Kept
<1>3. PICK m : m = r[Master]
  OBVIOUS
<1>4. Master \in Replicas
  BY DEF Master, Replicas, Voters
<1>5. /\ q.pc \in {"call", "tell"} /\ Len(q.results) = n + 1 /\ n \in Nat
  <2>1. Len(q.results) = n + 1 /\ q.pc = IF out.compare THEN "tell" ELSE "call"
    BY <1>1, <1>3, MasterCalled
  <2>2. n \in Nat
    BY DEF CallMade
  <2>. QED
    BY <2>1, <2>2
<1>6. ASSUME NEW i \in Replicas \ {Master}
      PROVE  rep'[i].pc = "copy" /\ Len(rep'[i].results) = n
  <2>1. PICK b : b = r[i]
    OBVIOUS
  <2>2. PICK z : z = rep'[i]
    OBVIOUS
  <2>3. z.pc = "copy" /\ Len(z.results) = n
    BY <1>1, <2>1, <2>2, SlaveCalled
  <2>. QED
    BY <2>2, <2>3
<1>7. LeaderOf(rep') = Master
  <2>1. Counted(rep')
    BY <1>5, <1>6 DEF Counted
  <2>2. \A j \in Replicas \ {Master} : Len(rep'[j].results) < Len(rep'[Master].results)
    BY <1>5, <1>6
  <2>. QED
    BY <1>4, <2>1, <2>2, LeaderAlone
<1>8. IsThere(q, Sees(file', pos', q), o2, a2, e2)
  <2>1. Fits(prog', shm', q, Sees(file', pos', q), o2, a2, e2)
    BY <1>2, <1>4, <1>5 DEF KeptAt, AllFit, Gone
  <2>2. Phase(prog', shm', q) = "rests"
    BY <1>5, PhaseIs
  <2>. QED
    BY <2>1, <2>2 DEF Fits
<1>9. LeaderAt(file', pos', rep', o2, a2, e2, q.results)
  BY <1>7, <1>8 DEF LeaderAt, Stands
<1>10. ASSUME NEW i \in Replicas, rep'[i].pc \notin Gone
       PROVE  ResultsDue(rep'[i], shm') = q.results
  <2>1. Agree(prog', shm', rep')
    BY <1>1, MasterCallAgrees DEF AgreeInv
  <2>2. ResultsDue(rep'[i], shm') = ResultsDue(q, shm')
    BY <1>4, <1>5, <1>10, <2>1 DEF Agree, Alike, Gone
  <2>3. ResultsDue(q, shm') = q.results
    BY <1>5, SettledIs
  <2>. QED
    BY <2>2, <2>3
<1>11. Moving(o2, a2, e2, q.results)'
  BY <1>2, <1>5, <1>7, <1>9, <1>10 DEF Moving, Alive
<1>. QED
  BY <1>8, <1>11

\* The file once it is removed.
Removed(f) == [f EXCEPT !.exists = FALSE, !.data = << >>]

\* What call c on file f does for one process, by what it returns.
CallDoes(c, f, o, a, e, f2, o2, a2, e2, ret, data) ==
  \/ /\ c.op \in {"read"} \cup StreamReads /\ o /\ o2 /\ f2 = f
     /\ ReadsTo(c, f, a, e, a2, e2, ret, data)
  \/ /\ c.op \in {"write"} \cup StreamWrites /\ o /\ o2 /\ e2 = e
     /\ WritesTo(f, a, BytesOf(c), f2, a2, ret, data)
  \/ /\ c.op = "fseek" /\ f.seeks /\ o /\ o2 /\ f2 = f /\ a2 = c.offs /\ ~e2
     /\ ret = 0 /\ data = << >>
  \/ /\ c.op \in OpenOps /\ CanOpen(f, c.flags) /\ ~o /\ f2 = Opened(f, c.flags)
     /\ o2 /\ a2 = 0 /\ ~e2 /\ ret = 0 /\ data = << >>
  \/ /\ c.op \in OpenOps /\ ~CanOpen(f, c.flags) /\ ~o /\ f2 = f
     /\ ~o2 /\ a2 = a /\ e2 = e /\ ret = -1 /\ data = << >>
  \/ /\ c.op = "unlink" /\ ~o /\ f2 = Removed(f)
     /\ ~o2 /\ a2 = a /\ e2 = e /\ ret = (IF f.exists THEN 0 ELSE -1) /\ data = << >>
  \/ /\ c.op = "close" /\ o /\ f2 = f /\ ~o2 /\ a2 = 0 /\ ~e2 /\ ret = 0 /\ data = << >>
  \/ /\ c.op = "getpid" /\ f2 = f /\ o2 = o /\ a2 = a /\ e2 = e /\ ret = 0 /\ data = << >>

\* What the master sees before and after its call, and where it is.
CallSeen(m, w, c, out, q, v, o, a, e, o2, a2, e2) ==
  /\ Ready(w) /\ w.file = file /\ file.seeks /\ w.st = m.stream
  /\ out = Served(w, c) /\ c \in Calls /\ out.w \in Views /\ file' = out.w.file
  /\ out.follow = FollowOf(c.op)
  /\ o = IsOpen(m) /\ a = Where(w) /\ e = w.st.eof
  /\ v \in Views /\ v.st = q.stream /\ v.file = file'
  /\ o2 = IsOpen(q) /\ a2 = Where(v) /\ e2 = v.st.eof
  /\ q.desc = NoDesc => v.pos = 0
  /\ m.desc = NoDesc => w.pos = 0
  /\ q.desc # NoDesc => v.pos = out.w.pos
  /\ ~Opening(out) => q.desc = m.desc
  /\ Opening(out) => q.desc # NoDesc /\ q.stream = out.w.st
  /\ out.follow # "open" => q.stream = out.w.st
  /\ out.follow = "open" /\ ~Opening(out) => q.stream = m.stream

LEMMA CallSeenIs ==
  ASSUME NEW o, NEW a, NEW e, Underway(o, a, e), MasterInHand,
         NEW src, NEW r, NEW n, NEW c, NEW out, NEW size, NEW p,
         CallMade(src, r, n, c, out, size, p), NEW m, m = r[Master],
         NEW w, w = Sees(file, pos, m), NEW q, q = rep'[Master],
         NEW v, v = Sees(file', pos', q), NEW o2, NEW a2, NEW e2, IsThere(q, v, o2, a2, e2)
  PROVE  CallSeen(m, w, c, out, q, v, o, a, e, o2, a2, e2)
<1>1. /\ Master \in Replicas /\ w \in Views /\ w.file = file /\ w.st = m.stream
      /\ out = Served(w, c) /\ IsThere(m, w, o, a, e) /\ file.seeks
      /\ c \in Calls /\ out.w \in Views /\ file' = out.w.file
      /\ out.follow = FollowOf(c.op)
  BY CallStart
<1>2. BackFrom(r, out, p, m, q)
  BY MasterAfter
<1>3. /\ v \in Views /\ v.file = out.w.file /\ v.st = q.stream
      /\ q.desc = NoDesc => v.pos = 0
      /\ q.desc # NoDesc => v.pos = out.w.pos
  BY MasterSees
<1>4. m.desc = NoDesc => w.pos = 0
  BY DEF Sees
<1>5. InHand(w)
  <2>1. Arrived(src, "call") /\ r = Restored(src)
    BY ZenonT(30) DEF CallMade
  <2>2. InHand(Sees(file, pos, r[Master]))
    BY <2>1, ArrivedInHand
  <2>. QED
    BY <2>2
<1>6. Ready(w)
  BY <1>1, <1>5 DEF Ready, IsThere
<1>7. Opening(out) => q.desc # NoDesc /\ q.stream = out.w.st
  <2>1. FreshDesc(r, Master) \in Descs /\ NoDesc \notin Descs
    BY <1>1, FreshDescIs DEF NoDesc, Descs, Replicas, Voters
  <2>. QED
    BY <1>2, <2>1 DEF BackFrom
<1>8. o = IsOpen(m) /\ a = Where(w) /\ e = w.st.eof
  BY <1>1 DEF IsThere
<1>9. o2 = IsOpen(q) /\ a2 = Where(v) /\ e2 = v.st.eof
  BY DEF IsThere
<1>10. /\ ~Opening(out) => q.desc = m.desc
       /\ out.follow # "open" => q.stream = out.w.st
       /\ out.follow = "open" /\ ~Opening(out) => q.stream = m.stream
  BY <1>2 DEF BackFrom
<1>. QED
  BY <1>1, <1>3, <1>4, <1>6, <1>7, <1>8, <1>9, <1>10 DEF CallSeen

\* Calls on the open file leave the master where they leave what it sees.
LEMMA CallOnOpen ==
  ASSUME NEW m, NEW w, NEW c, NEW out, NEW q, NEW v, NEW o, NEW a, NEW e,
         NEW o2, NEW a2, NEW e2, CallSeen(m, w, c, out, q, v, o, a, e, o2, a2, e2),
         IsOpen(m), out.follow # "open"
  PROVE  v = out.w /\ IsOpen(q)
<1>1. q.desc = m.desc /\ q.desc # NoDesc /\ q.stream = out.w.st
  BY DEF CallSeen, IsOpen, Opening
<1>2. /\ v \in Views /\ out.w \in Views
      /\ v.pos = out.w.pos /\ v.st = out.w.st /\ v.file = out.w.file
  BY <1>1 DEF CallSeen
<1>3. v = out.w
  BY <1>2, ViewType
<1>. QED
  BY <1>1, <1>3 DEF CallSeen, IsOpen

LEMMA StreamCallDoes ==
  ASSUME NEW m, NEW w, NEW c, NEW out, NEW q, NEW v, NEW o, NEW a, NEW e,
         NEW o2, NEW a2, NEW e2, CallSeen(m, w, c, out, q, v, o, a, e, o2, a2, e2),
         IsOpen(m), c.op \in StreamOps
  PROVE  CallDoes(c, file, o, a, e, file', o2, a2, e2, out.ret, out.data) /\ InHand(v)
<1>1. /\ Ready(w) /\ w.file = file /\ file.seeks /\ out = Served(w, c) /\ c \in Calls
      /\ file' = out.w.file /\ a = Where(w) /\ e = w.st.eof
  BY DEF CallSeen
<1>2. out.follow # "open"
  <2>1. out.follow = FollowOf(c.op)
    BY DEF CallSeen
  <2>2. FollowOf(c.op) # "open"
    BY DEF FollowOf, StreamOps, StreamReads, StreamWrites
  <2>. QED
    BY <2>1, <2>2
<1>3. v = out.w /\ o2 /\ o
  <2>1. v = out.w /\ IsOpen(q)
    BY <1>2, CallOnOpen
  <2>2. o = IsOpen(m) /\ o2 = IsOpen(q)
    BY DEF CallSeen
  <2>. QED
    BY <2>1, <2>2
<1>4. a2 = Where(out.w) /\ e2 = out.w.st.eof
  BY <1>3 DEF CallSeen
<1>5. CASE c.op \in StreamReads
  <2>1. /\ ReadsTo(c, w.file, Where(w), w.st.eof, Where(out.w), out.w.st.eof,
                   out.ret, out.data)
        /\ Ready(out.w) /\ out.w.file = w.file
    BY <1>1, <1>5, StreamReadDoes
  <2>2. ReadsTo(c, file, a, e, a2, e2, out.ret, out.data)
    BY <1>1, <1>4, <2>1
  <2>3. file' = file
    BY <1>1, <2>1
  <2>. QED
    BY <1>3, <1>5, <2>1, <2>2, <2>3 DEF CallDoes, Ready
<1>6. CASE c.op \in StreamWrites
  <2>1. /\ WritesTo(w.file, Where(w), BytesOf(c), out.w.file, Where(out.w), out.ret, out.data)
        /\ out.w.st.eof = w.st.eof /\ Ready(out.w)
    BY <1>1, <1>6, StreamWriteDoes
  <2>2. WritesTo(file, a, BytesOf(c), file', a2, out.ret, out.data)
    BY <1>1, <1>4, <2>1
  <2>3. e2 = e
    BY <1>1, <1>4, <2>1
  <2>. QED
    BY <1>3, <1>6, <2>1, <2>2, <2>3 DEF CallDoes, Ready
<1>7. CASE c.op = "fseek"
  <2>1. /\ Ready(out.w) /\ out.w.file = w.file /\ Where(out.w) = c.offs
        /\ ~out.w.st.eof /\ out.ret = 0 /\ out.data = << >>
    BY <1>1, <1>7, FseekDoes
  <2>. QED
    BY <1>1, <1>3, <1>4, <1>7, <2>1 DEF CallDoes, Ready
<1>. QED
  BY <1>5, <1>6, <1>7 DEF StreamOps

\* read and write of a descriptor, with no stream in the way.
LEMMA FdCallDoes ==
  ASSUME NEW m, NEW w, NEW c, NEW out, NEW q, NEW v, NEW o, NEW a, NEW e,
         NEW o2, NEW a2, NEW e2, CallSeen(m, w, c, out, q, v, o, a, e, o2, a2, e2),
         IsOpen(m), c.op \in {"read", "write"}, Blank(m.stream)
  PROVE  CallDoes(c, file, o, a, e, file', o2, a2, e2, out.ret, out.data) /\ InHand(v)
<1>1. /\ w \in Views /\ w.file = file /\ out = Served(w, c) /\ c \in Calls /\ out.w \in Views
      /\ file' = out.w.file /\ a = Where(w) /\ e = w.st.eof /\ w.st = m.stream
  BY DEF CallSeen, Ready
<1>2. w.st.buf = << >> /\ ~w.st.eof
  BY <1>1 DEF Blank
<1>3. out.follow # "open"
  <2>1. out.follow = FollowOf(c.op)
    BY DEF CallSeen
  <2>2. FollowOf(c.op) # "open"
    BY DEF FollowOf
  <2>. QED
    BY <2>1, <2>2
<1>4. v = out.w /\ o2 /\ o
  <2>1. v = out.w /\ IsOpen(q)
    BY <1>3, CallOnOpen
  <2>2. o = IsOpen(m) /\ o2 = IsOpen(q)
    BY DEF CallSeen
  <2>. QED
    BY <2>1, <2>2
<1>5. a2 = Where(out.w) /\ e2 = out.w.st.eof
  BY <1>4 DEF CallSeen
<1>6. a = w.pos
  BY <1>1, <1>2, BlankWhere
<1>7. CASE c.op = "read"
  <2>1. /\ ReadsTo(c, w.file, w.pos, w.st.eof, out.w.pos, out.w.st.eof, out.ret, out.data)
        /\ out.w.st = w.st /\ out.w.file = w.file
    BY <1>1, <1>2, <1>7, ReadDoes
  <2>2. a2 = out.w.pos
    BY <1>1, <1>2, <1>5, <2>1, BlankWhere
  <2>3. ReadsTo(c, file, a, e, a2, e2, out.ret, out.data)
    BY <1>1, <1>5, <1>6, <2>1, <2>2
  <2>4. InHand(v)
    BY <1>2, <1>4, <2>1, NothingInHand
  <2>5. file' = file
    BY <1>1, <2>1
  <2>. QED
    BY <1>4, <1>7, <2>3, <2>4, <2>5 DEF CallDoes
<1>8. CASE c.op = "write"
  <2>1. /\ WritesTo(w.file, w.pos, BytesOf(c), out.w.file, out.w.pos, out.ret, out.data)
        /\ out.w.st = w.st
    BY <1>1, <1>8, WriteDoes
  <2>2. a2 = out.w.pos
    BY <1>1, <1>2, <1>5, <2>1, BlankWhere
  <2>3. WritesTo(file, a, BytesOf(c), file', a2, out.ret, out.data)
    BY <1>1, <1>6, <2>1, <2>2
  <2>4. InHand(v)
    BY <1>2, <1>4, <2>1, NothingInHand
  <2>5. e2 = e
    BY <1>1, <1>5, <2>1
  <2>. QED
    BY <1>4, <1>8, <2>3, <2>4, <2>5 DEF CallDoes
<1>. QED
  BY <1>7, <1>8

LEMMA OpenDoes ==
  ASSUME NEW m, NEW w, NEW c, NEW out, NEW q, NEW v, NEW o, NEW a, NEW e,
         NEW o2, NEW a2, NEW e2, CallSeen(m, w, c, out, q, v, o, a, e, o2, a2, e2),
         ~IsOpen(m), c.op \in OpenOps
  PROVE  CallDoes(c, file, o, a, e, file', o2, a2, e2, out.ret, out.data) /\ InHand(v)
<1>1. /\ w \in Views /\ w.file = file /\ out = Served(w, c) /\ c \in Calls /\ InHand(w)
      /\ file' = out.w.file /\ ~o /\ a = Where(w) /\ e = w.st.eof /\ w.st = m.stream
      /\ w.pos = 0 /\ v \in Views
  BY DEF CallSeen, Ready, IsOpen
<1>2. PICK fresh : fresh = FreshStream(ForReading(c))
  OBVIOUS
<1>3. /\ out.follow = "open"
      /\ CanOpen(file, c.flags) =>
           /\ out.ret = 0 /\ out.w.file = Opened(file, c.flags) /\ out.w.pos = 0
           /\ out.w.st = fresh
      /\ ~CanOpen(file, c.flags) => out.ret = -1 /\ out.w = w
  BY <1>1, <1>2, OpenType
<1>4. out.data = << >>
  <2>1. c.op = "open" \/ c.op = "fopen"
    BY DEF OpenOps
  <2>2. out = Open(w, c) \/ out = Fopen(w, c)
    BY <1>1, <2>1, ServedOps
  <2>3. Open(w, c).data = << >> /\ Fopen(w, c).data = << >>
    BY DEF Open, Fopen, OpenCall, ResultCall
  <2>. QED
    BY <2>2, <2>3
<1>5. CASE CanOpen(file, c.flags)
  <2>1. Opening(out)
    BY <1>3, <1>5 DEF Opening
  <2>2. q.desc # NoDesc /\ v.st = fresh /\ v.pos = 0 /\ o2 /\ a2 = Where(v) /\ e2 = v.st.eof
    BY <1>3, <1>5, <2>1 DEF CallSeen, IsOpen
  <2>3. Blank(fresh)
    BY <1>2, FreshIs DEF ForReading
  <2>4. v.st.buf = << >> /\ ~e2
    BY <2>2, <2>3 DEF Blank
  <2>5. a2 = 0 /\ InHand(v)
    BY <1>1, <2>2, <2>4, BlankWhere, NothingInHand
  <2>. QED
    BY <1>1, <1>3, <1>4, <1>5, <2>2, <2>4, <2>5 DEF CallDoes
<1>6. CASE ~CanOpen(file, c.flags)
  <2>1. ~Opening(out)
    BY <1>3, <1>6 DEF Opening
  <2>2. /\ q.desc = m.desc /\ v.st = w.st /\ v.pos = 0 /\ ~o2 /\ a2 = Where(v)
        /\ e2 = v.st.eof /\ v.file = file'
    BY <1>1, <1>3, <2>1 DEF CallSeen, IsOpen
  <2>3. v.pos = w.pos /\ v.file = w.file
    BY <1>1, <1>3, <1>6, <2>2
  <2>4. v = w
    BY <1>1, <2>2, <2>3, ViewType
  <2>. QED
    BY <1>1, <1>3, <1>4, <1>6, <2>2, <2>4 DEF CallDoes
<1>. QED
  BY <1>5, <1>6

LEMMA UnlinkDoes ==
  ASSUME NEW m, NEW w, NEW c, NEW out, NEW q, NEW v, NEW o, NEW a, NEW e,
         NEW o2, NEW a2, NEW e2, CallSeen(m, w, c, out, q, v, o, a, e, o2, a2, e2),
         ~IsOpen(m), c.op = "unlink", Blank(m.stream)
  PROVE  CallDoes(c, file, o, a, e, file', o2, a2, e2, out.ret, out.data) /\ InHand(v)
<1>1. /\ w \in Views /\ w.file = file /\ out = Served(w, c) /\ c \in Calls
      /\ file' = out.w.file /\ ~o /\ a = Where(w) /\ e = w.st.eof /\ w.st = m.stream
      /\ w.pos = 0 /\ v \in Views
  BY DEF CallSeen, Ready, IsOpen
<1>2. out.w.st = w.st /\ out.follow = "none"
  BY <1>1, UnlinkType
<1>3. PICK f, u : f = [w.file EXCEPT !.exists = FALSE, !.data = << >>]
                  /\ u = [w EXCEPT !.file = f]
  OBVIOUS
<1>4. u.file = f
  BY <1>1, <1>3 DEF Views
<1>5. out = ResultCall(u, IF w.file.exists THEN 0 ELSE -1)
  <2>1. u = [w EXCEPT !.file.exists = FALSE, !.file.data = << >>]
    BY <1>3
  <2>. QED
    BY <1>1, <2>1, ServedOps, ZenonT(30) DEF Unlink
<1>6. out.w = u /\ out.ret = (IF w.file.exists THEN 0 ELSE -1) /\ out.data = << >>
  BY <1>5 DEF ResultCall
<1>7. file' = Removed(file)
  BY <1>1, <1>3, <1>4, <1>6 DEF Removed
<1>8. ~Opening(out)
  BY <1>2 DEF Opening
<1>9. q.desc = m.desc /\ v.st = w.st /\ v.pos = 0 /\ ~o2 /\ a2 = Where(v) /\ e2 = v.st.eof
  BY <1>1, <1>2, <1>8 DEF CallSeen, IsOpen
<1>10. a2 = a /\ e2 = e
  BY <1>1, <1>9 DEF Where
<1>11. InHand(v)
  <2>1. v.st.buf = << >>
    BY <1>1, <1>9 DEF Blank
  <2>. QED
    BY <2>1, NothingInHand
<1>. QED
  BY <1>1, <1>6, <1>7, <1>9, <1>10, <1>11 DEF CallDoes

\* Tame programs print nothing, and their files have no stream when a descriptor
\* is read, written or removed.
LEMMA TameCalls ==
  ASSUME Tame(prog), NEW c, \E k \in DOMAIN prog.calls : c = prog.calls[k]
  PROVE  /\ c.op \in Locals \cup StreamOps \cup OpenOps \cup {"read", "write", "unlink"}
         /\ c.op \in {"read", "write", "unlink"} => Shares(prog)
<1>1. CASE ByDescriptor(prog)
  BY <1>1 DEF ByDescriptor, Shares, OpenOps
<1>2. CASE ByWriting(prog)
  BY <1>2 DEF ByWriting, Shares, OpenOps, StreamOps
<1>3. CASE ByOwnStream(prog)
  <2>1. c.op \in {"fopen"} \cup StreamOps \cup Locals
    BY <1>3 DEF ByOwnStream
  <2>2. "read" \notin StreamOps \cup Locals
    BY DEF StreamOps, Locals, StreamReads, StreamWrites
  <2>3. "write" \notin StreamOps \cup Locals
    BY DEF StreamOps, Locals, StreamReads, StreamWrites
  <2>4. "unlink" \notin StreamOps \cup Locals
    BY DEF StreamOps, Locals, StreamReads, StreamWrites
  <2>. QED
    BY <2>1, <2>2, <2>3, <2>4 DEF OpenOps
<1>. QED
  BY <1>1, <1>2, <1>3 DEF Tame

\* The call is the next for everybody, and the file is open when it has to be.
LEMMA CallTurns ==
  ASSUME Inv, TypeInv', AgreeInv, UsedInTurn,
         NEW o, NEW a, NEW e, NEW x, Moving(o, a, e, x),
         NEW src, NEW r, NEW n, NEW c, NEW out, NEW size, NEW p,
         CallMade(src, r, n, c, out, size, p), NEW m, m = r[Master]
  PROVE  /\ m.results = x /\ Len(x) < Len(prog.calls) /\ c = prog.calls[Len(x) + 1]
         /\ o \in BOOLEAN /\ IsOpen(m) = o
         /\ c.op \in OpenOps \cup {"unlink"} => ~o
         /\ c.op \notin OpenOps \cup {"unlink", "getpid"} => o
<1>1. /\ Arrived(src, "call") /\ r = Restored(src) /\ n = Len(rep[src].results)
      /\ n < Len(prog.calls) /\ c = prog.calls[n + 1]
  BY ZenonT(30) DEF CallMade
<1>2. /\ \A i \in Replicas : Stands(r[i], Sees(file, pos, r[i]), o, a, e, x)
      /\ src \in Alive /\ rep[src] = r[src]
  BY <1>1, ArrivedStand
<1>3. src \in Replicas /\ Master \in Replicas
  BY <1>2 DEF Alive, Master, Replicas, Voters
<1>4. rep[src].results = x /\ m.results = x /\ IsOpen(rep[src]) = o /\ IsOpen(m) = o
  BY <1>2, <1>3 DEF Stands, IsThere
<1>5. o \in BOOLEAN
  BY DEF Moving
<1>6. Underway(o, a, e)
  BY DEF Inv, Underway, Moving
<1>7. rep[src].pc = "call" /\ HasCall(rep[src]) /\ CallOf(rep[src]) = c
  BY <1>3, <1>6, CallerPlain
<1>8. /\ c.op \in OpenOps \cup {"unlink"} => rep[src].desc = NoDesc
      /\ c.op \notin OpenOps \cup {"unlink", "getpid"} => rep[src].desc # NoDesc
  BY <1>2, <1>7 DEF UsedInTurn
<1>9. /\ c.op \in OpenOps \cup {"unlink"} => ~o
      /\ c.op \notin OpenOps \cup {"unlink", "getpid"} => o
  BY <1>4, <1>5, <1>8 DEF IsOpen
<1>. QED
  BY <1>1, <1>4, <1>5, <1>9

LEMMA CallsDo ==
  ASSUME Inv, TypeInv', AgreeInv, UsedInTurn, Tame(prog), MasterInHand,
         NEW o, NEW a, NEW e, NEW x, Moving(o, a, e, x),
         NEW src, NEW r, NEW n, NEW c, NEW out, NEW size, NEW p,
         CallMade(src, r, n, c, out, size, p), NEW q, q = rep'[Master],
         NEW v, v = Sees(file', pos', q), NEW o2, NEW a2, NEW e2, IsThere(q, v, o2, a2, e2)
  PROVE  CallDoes(c, file, o, a, e, file', o2, a2, e2, out.ret, out.data) /\ InHand(v)
<1>1. PICK m, w : m = r[Master] /\ w = Sees(file, pos, m)
  OBVIOUS
<1>2. Underway(o, a, e)
  BY DEF Inv, Underway, Moving
<1>3. CallSeen(m, w, c, out, q, v, o, a, e, o2, a2, e2)
  BY <1>1, <1>2, CallSeenIs
<1>4. /\ o \in BOOLEAN /\ IsOpen(m) = o
      /\ c.op \in OpenOps \cup {"unlink"} => ~o
      /\ c.op \notin OpenOps \cup {"unlink", "getpid"} => o
  BY <1>1, CallTurns
<1>5. /\ c.op \notin Locals /\ (\E k \in DOMAIN prog.calls : c = prog.calls[k])
      /\ Master \in Replicas
  BY <1>1, <1>2, CallStart
<1>6. /\ c.op \in StreamOps \cup OpenOps \cup {"read", "write", "unlink"}
      /\ c.op \in {"read", "write", "unlink"} => Shares(prog)
  BY <1>5, TameCalls
<1>7. c.op \in {"read", "write", "unlink"} => Blank(m.stream)
  <2>1. Shares(prog) => Plain(prog, m)
    BY <1>1, <1>2, <1>5, CallerPlain
  <2>. QED
    BY <1>6, <2>1 DEF Plain
<1>8. CASE c.op \in StreamOps
  <2>1. c.op \notin OpenOps \cup {"unlink", "getpid"}
    BY <1>8 DEF StreamOps, StreamReads, StreamWrites, OpenOps
  <2>2. IsOpen(m)
    BY <1>4, <2>1
  <2>. QED
    BY <1>3, <1>8, <2>2, StreamCallDoes
<1>9. CASE c.op \in OpenOps
  <2>1. ~IsOpen(m)
    BY <1>4, <1>9
  <2>. QED
    BY <1>3, <1>9, <2>1, OpenDoes
<1>10. CASE c.op \in {"read", "write"}
  <2>1. IsOpen(m)
    BY <1>4, <1>10 DEF OpenOps
  <2>. QED
    BY <1>3, <1>7, <1>10, <2>1, FdCallDoes
<1>11. CASE c.op = "unlink"
  <2>1. ~IsOpen(m)
    BY <1>4, <1>11
  <2>. QED
    BY <1>3, <1>7, <1>11, <2>1, UnlinkDoes
<1>. QED
  BY <1>6, <1>8, <1>9, <1>10, <1>11

\* The result of a call, as the program gets it.
ResultOf(ret, data) == [ret |-> ret, data |-> data]

LEMMA MasterCallDoes ==
  ASSUME Inv, TypeInv', AgreeInv, SentWhole', Tame(prog), UsedInTurn, MasterCall,
         MasterInHand, NEW o, NEW a, NEW e, NEW x, Moving(o, a, e, x)
  PROVE  /\ Len(x) < Len(prog.calls) /\ prog' = prog /\ MasterInHand'
         /\ \E o2, a2, e2, ret, data :
              /\ Moving(o2, a2, e2, Append(x, ResultOf(ret, data)))'
              /\ CallDoes(prog.calls[Len(x) + 1], file, o, a, e, file', o2, a2, e2, ret, data)
<1>1. TypeInv /\ InStep(rep) /\ Underway(o, a, e)
  BY DEF Inv, Underway, Moving
<1>2. PICK src, r, n, c, out, size, p : CallMade(src, r, n, c, out, size, p)
  BY <1>1, MasterCallIs
<1>3. PICK m, q, v : m = r[Master] /\ q = rep'[Master] /\ v = Sees(file', pos', q)
  OBVIOUS
<1>4. PICK o2, a2, e2 :
        Moving(o2, a2, e2, q.results)' /\ IsThere(q, Sees(file', pos', q), o2, a2, e2)
  BY <1>2, <1>3, MasterMoves
<1>5. CallDoes(c, file, o, a, e, file', o2, a2, e2, out.ret, out.data) /\ InHand(v)
  BY <1>2, <1>3, <1>4, CallsDo
<1>6. m.results = x /\ Len(x) < Len(prog.calls) /\ c = prog.calls[Len(x) + 1]
  BY <1>2, <1>3, CallTurns
<1>7. q.results = Append(x, ResultOf(out.ret, out.data))
  <2>1. PICK y \in Results : /\ q.results = Longer(m.results, y)
                             /\ y.ret = out.ret /\ y.data = out.data
    BY <1>1, <1>2, <1>3, MasterCalled
  <2>2. y = ResultOf(out.ret, out.data)
    BY <2>1 DEF Results, ResultOf
  <2>. QED
    BY <1>6, <2>1, <2>2 DEF Longer
<1>8. MasterInHand'
  BY <1>3, <1>5 DEF MasterInHand
<1>9. prog' = prog
  BY DEF MasterCall
<1>10. PICK ret, data : ret = out.ret /\ data = out.data
  OBVIOUS
<1>11. Moving(o2, a2, e2, Append(x, ResultOf(ret, data)))'
  <2>1. q.results = Append(x, ResultOf(ret, data))
    BY <1>7, <1>10
  <2>. QED
    BY <1>4, <2>1
<1>12. CallDoes(prog.calls[Len(x) + 1], file, o, a, e, file', o2, a2, e2, ret, data)
  BY <1>5, <1>6, <1>10
<1>. QED
  BY <1>6, <1>8, <1>9, <1>11, <1>12

(* The steps of OneProcess.                                                *)
LEMMA AbsKernel ==
  /\ \A d, p, s : Abs!Overwrite(d, p, s) = Overwrite(d, p, s)
  /\ \A f, flags : Abs!CanOpen(f, flags) = CanOpen(f, flags)
  /\ \A f, flags : Abs!Opened(f, flags) = Opened(f, flags)
  /\ \A S : Abs!Least(S) = Least(S)
  /\ Abs!NL = NL
<1>1. \A d, p, s : Abs!Overwrite(d, p, s) = Overwrite(d, p, s)
  BY DEF Abs!Overwrite, Overwrite
<1>2. \A f, flags : Abs!CanOpen(f, flags) = CanOpen(f, flags)
  BY DEF Abs!CanOpen, CanOpen
<1>3. \A f, flags : Abs!Opened(f, flags) = Opened(f, flags)
  BY DEF Abs!Opened, Opened
<1>4. \A S : Abs!Least(S) = Least(S)
  BY DEF Abs!Least, Least
<1>5. Abs!NL = NL
  BY DEF Abs!NL, NL
<1>. QED
  BY <1>1, <1>2, <1>3, <1>4, <1>5

\* A step from one spot and file to another, with one result more.
OneGoes(f, o, a, e, x, f2, o2, a2, e2, ret, data) ==
  OneIs(f, o, a, e, x) /\ OneIs(f2, o2, a2, e2, Append(x, ResultOf(ret, data)))'

LEMMA OneWrites ==
  ASSUME NEW f, NEW o, NEW a, NEW e, NEW x, NEW f2, NEW o2, NEW a2, NEW e2, NEW ret, NEW data,
         OneGoes(f, o, a, e, x, f2, o2, a2, e2, ret, data), NEW c,
         c.op \in {"write"} \cup StreamWrites, o, o2, e2 = e,
         WritesTo(f, a, BytesOf(c), f2, a2, ret, data)
  PROVE  Abs!Writes(c)
<1>1. PICK b : b = BytesOf(c)
  OBVIOUS
<1>2. b = IF c.op = "puts" THEN Append(c.bytes, Abs!NL) ELSE c.bytes
  BY <1>1, AbsKernel DEF BytesOf
<1>3. /\ f2 = [f EXCEPT !.data = Abs!Overwrite(f.data, a, b)]
      /\ a2 = a + Len(b) /\ ret = Len(b) /\ data = << >>
  BY <1>1, AbsKernel DEF WritesTo
<1>. QED
  BY <1>2, <1>3 DEF OneGoes, OneIs, Abs!Writes, Abs!Return, ResultOf, StreamWrites

LEMMA OneSeeks ==
  ASSUME NEW f, NEW o, NEW a, NEW e, NEW x, NEW f2, NEW o2, NEW a2, NEW e2, NEW ret, NEW data,
         OneGoes(f, o, a, e, x, f2, o2, a2, e2, ret, data), NEW c,
         c.op = "fseek", f.seeks, o, o2, f2 = f, a2 = c.offs, ~e2, ret = 0, data = << >>,
         e2 \in BOOLEAN
  PROVE  Abs!Seeks(c)
BY DEF OneGoes, OneIs, Abs!Seeks, Abs!Return, ResultOf

LEMMA OneOpens ==
  ASSUME NEW f, NEW o \in BOOLEAN, NEW a, NEW e, NEW x,
         NEW f2, NEW o2 \in BOOLEAN, NEW a2, NEW e2 \in BOOLEAN, NEW ret, NEW data,
         OneGoes(f, o, a, e, x, f2, o2, a2, e2, ret, data), NEW c,
         c.op \in OpenOps, ~o, data = << >>,
         \/ /\ CanOpen(f, c.flags) /\ f2 = Opened(f, c.flags)
            /\ o2 /\ a2 = 0 /\ ~e2 /\ ret = 0
         \/ /\ ~CanOpen(f, c.flags) /\ f2 = f /\ ~o2 /\ a2 = a /\ e2 = e /\ ret = -1
  PROVE  Abs!Opens(c)
<1>1. /\ Abs!CanOpen(f, c.flags) = CanOpen(f, c.flags)
      /\ Abs!Opened(f, c.flags) = Opened(f, c.flags)
  BY AbsKernel
<1>2. CASE CanOpen(f, c.flags)
  BY <1>1, <1>2 DEF OneGoes, OneIs, Abs!Opens, Abs!Return, ResultOf, OpenOps
<1>3. CASE ~CanOpen(f, c.flags)
  BY <1>1, <1>3 DEF OneGoes, OneIs, Abs!Opens, Abs!Return, ResultOf, OpenOps
<1>. QED
  BY <1>2, <1>3

LEMMA OneUnlinks ==
  ASSUME NEW f, NEW o \in BOOLEAN, NEW a, NEW e, NEW x,
         NEW f2, NEW o2 \in BOOLEAN, NEW a2, NEW e2, NEW ret, NEW data,
         OneGoes(f, o, a, e, x, f2, o2, a2, e2, ret, data), NEW c,
         c.op = "unlink", ~o, f2 = Removed(f),
         ~o2, a2 = a, e2 = e, ret = (IF f.exists THEN 0 ELSE -1), data = << >>
  PROVE  Abs!Unlinks(c)
BY DEF OneGoes, OneIs, Abs!Unlinks, Abs!Return, ResultOf, Removed

LEMMA OneCloses ==
  ASSUME NEW f, NEW o \in BOOLEAN, NEW a, NEW e, NEW x,
         NEW f2, NEW o2 \in BOOLEAN, NEW a2, NEW e2 \in BOOLEAN, NEW ret, NEW data,
         OneGoes(f, o, a, e, x, f2, o2, a2, e2, ret, data), NEW c,
         c.op = "close", o, f2 = f, ~o2, a2 = 0, ~e2, ret = 0, data = << >>
  PROVE  Abs!Closes(c)
BY DEF OneGoes, OneIs, Abs!Closes, Abs!Return, ResultOf

LEMMA OneAsks ==
  ASSUME NEW f, NEW o, NEW a, NEW e, NEW x, NEW f2, NEW o2, NEW a2, NEW e2, NEW ret, NEW data,
         OneGoes(f, o, a, e, x, f2, o2, a2, e2, ret, data), NEW c,
         c.op = "getpid", f2 = f, o2 = o, a2 = a, e2 = e, ret = 0, data = << >>
  PROVE  Abs!Asks(c)
BY DEF OneGoes, OneIs, Abs!Asks, Abs!Return, ResultOf

\* What the caller gets for the bytes that a call took.
LEMMA OneReturns ==
  ASSUME NEW c, NEW taken, NEW ret, NEW data, Answers(c, taken, ret, data),
         c.op \in {"read"} \cup StreamReads, Abs!Return(ret, data)
  PROVE  Abs!Returns(c, taken)
<1>1. PICK elems, line, found :
        /\ elems = Len(taken) \div c.size /\ line = LineOf(taken)
        /\ found = IF taken = << >> /\ (c.op = "gets" \/ c.n > 1) THEN -1 ELSE 0
  OBVIOUS
<1>2. line = IF taken # << >> /\ taken[Len(taken)] = Abs!NL
               THEN SubSeq(taken, 1, Len(taken) - 1) ELSE taken
  BY <1>1, AbsKernel DEF LineOf
<1>3. CASE c.op = "read"
  BY <1>3 DEF Answers, Abs!Returns
<1>4. CASE c.op = "fgetc"
  BY <1>4 DEF Answers, Abs!Returns
<1>5. CASE c.op = "fread"
  BY <1>5 DEF Answers, Abs!Returns
<1>6. CASE c.op = "fgets"
  BY <1>6 DEF Answers, Abs!Returns
<1>7. CASE c.op = "gets"
  BY <1>1, <1>2, <1>7 DEF Answers, Abs!Returns
<1>. QED
  BY <1>3, <1>4, <1>5, <1>6, <1>7 DEF StreamReads

LEMMA OneReads ==
  ASSUME NEW f, NEW o, NEW a, NEW e, NEW x, NEW f2, NEW o2, NEW a2, NEW e2, NEW ret, NEW data,
         OneGoes(f, o, a, e, x, f2, o2, a2, e2, ret, data), NEW c,
         c.op \in {"read"} \cup StreamReads, o, o2, f2 = f,
         ReadsTo(c, f, a, e, a2, e2, ret, data)
  PROVE  Abs!Reads(c)
<1>1. PICK rest, full :
        /\ rest = IF e THEN << >> ELSE RestOf(f.data, a)
        /\ full = {k \in 0 .. Len(rest) : Abs!Satisfied(c, rest, k)}
        /\ a2 = a + Enough(rest, full)
        /\ e2 = (e \/ (full = {} /\ c.op # "read"))
        /\ Answers(c, SubSeq(rest, 1, Enough(rest, full)), ret, data)
  BY DEF ReadsTo
<1>2. PICK n : n = Enough(rest, full)
  OBVIOUS
<1>3. n = IF full = {} THEN Len(rest) ELSE Abs!Least(full)
  BY <1>2, AbsKernel DEF Enough
<1>4. Abs!Return(ret, data)
  BY DEF OneGoes, OneIs, Abs!Return, ResultOf
<1>5. Abs!Returns(c, SubSeq(rest, 1, n))
  BY <1>1, <1>2, <1>4, OneReturns
<1>6. rest = IF e THEN << >> ELSE SubSeq(f.data, a + 1, Len(f.data))
  BY <1>1 DEF RestOf
<1>. QED
  BY <1>1, <1>2, <1>3, <1>5, <1>6 DEF OneGoes, OneIs, Abs!Reads, StreamReads

LEMMA OneDoes ==
  ASSUME NEW f, NEW o \in BOOLEAN, NEW a, NEW e \in BOOLEAN, NEW x,
         NEW f2, NEW o2 \in BOOLEAN, NEW a2, NEW e2 \in BOOLEAN, NEW ret, NEW data,
         OneGoes(f, o, a, e, x, f2, o2, a2, e2, ret, data),
         Len(x) < Len(prog.calls), prog' = prog, NEW c, c = prog.calls[Len(x) + 1],
         CallDoes(c, f, o, a, e, f2, o2, a2, e2, ret, data)
  PROVE  Abs!ONext
<1>1. rep[Leader].results = x
  BY DEF OneGoes, OneIs
<1>2. \/ Abs!Reads(c) \/ Abs!Writes(c) \/ Abs!Seeks(c) \/ Abs!Opens(c) \/ Abs!Closes(c)
      \/ Abs!Unlinks(c) \/ Abs!Asks(c)
  <2>1. CASE /\ c.op \in {"read"} \cup StreamReads /\ o /\ o2 /\ f2 = f
             /\ ReadsTo(c, f, a, e, a2, e2, ret, data)
    <3>1. Abs!Reads(c)
      BY <2>1, OneReads
    <3>. QED
      BY <3>1
  <2>2. CASE /\ c.op \in {"write"} \cup StreamWrites /\ o /\ o2 /\ e2 = e
             /\ WritesTo(f, a, BytesOf(c), f2, a2, ret, data)
    <3>1. Abs!Writes(c)
      BY <2>2, OneWrites
    <3>. QED
      BY <3>1
  <2>3. CASE /\ c.op = "fseek" /\ f.seeks /\ o /\ o2 /\ f2 = f /\ a2 = c.offs /\ ~e2
             /\ ret = 0 /\ data = << >>
    <3>1. Abs!Seeks(c)
      BY <2>3, OneSeeks
    <3>. QED
      BY <3>1
  <2>4. CASE /\ c.op \in OpenOps /\ CanOpen(f, c.flags) /\ ~o /\ f2 = Opened(f, c.flags)
             /\ o2 /\ a2 = 0 /\ ~e2 /\ ret = 0 /\ data = << >>
    <3>1. Abs!Opens(c)
      BY <2>4, OneOpens
    <3>. QED
      BY <3>1
  <2>5. CASE /\ c.op \in OpenOps /\ ~CanOpen(f, c.flags) /\ ~o /\ f2 = f
             /\ ~o2 /\ a2 = a /\ e2 = e /\ ret = -1 /\ data = << >>
    <3>1. Abs!Opens(c)
      BY <2>5, OneOpens
    <3>. QED
      BY <3>1
  <2>6. CASE /\ c.op = "unlink" /\ ~o /\ f2 = Removed(f)
             /\ ~o2 /\ a2 = a /\ e2 = e /\ ret = (IF f.exists THEN 0 ELSE -1)
             /\ data = << >>
    <3>1. Abs!Unlinks(c)
      BY <2>6, OneUnlinks
    <3>. QED
      BY <3>1
  <2>7. CASE /\ c.op = "close" /\ o /\ f2 = f /\ ~o2 /\ a2 = 0 /\ ~e2 /\ ret = 0
             /\ data = << >>
    <3>1. Abs!Closes(c)
      BY <2>7, OneCloses
    <3>. QED
      BY <3>1
  <2>8. CASE /\ c.op = "getpid" /\ f2 = f /\ o2 = o /\ a2 = a /\ e2 = e /\ ret = 0
             /\ data = << >>
    <3>1. Abs!Asks(c)
      BY <2>8, OneAsks
    <3>. QED
      BY <3>1
  <2>. QED
    BY <2>1, <2>2, <2>3, <2>4, <2>5, <2>6, <2>7, <2>8 DEF CallDoes
<1>. QED
  BY <1>1, <1>2 DEF Abs!ONext

\* Nothing has changed for the one process.
LEMMA OneStays ==
  ASSUME NEW f, NEW o, NEW a, NEW e, NEW x, OneIs(f, o, a, e, x), OneIs(f, o, a, e, x)',
         prog' = prog
  PROVE  UNCHANGED Abs!ovars
BY DEF OneIs, Abs!ovars

\* Where it is.
LEMMA LeaderOne ==
  ASSUME TypeInv, NEW o \in BOOLEAN, NEW a, NEW e, NEW x, LeaderAt(file, pos, rep, o, a, e, x)
  PROVE  OneIs(file, o, a, e, x)
<1>1. file \in Files /\ pos \in [Descs -> Nat] /\ rep \in [Replicas -> RepRecords]
  BY DEF TypeInv
<1>2. SeenAs(file, pos, rep, file, o, a, e, x)
  BY <1>1, SpotSeen
<1>. QED
  BY <1>2, OneSeen

LEMMA LeaderOneNext ==
  ASSUME TypeInv', NEW f, f = file', NEW o \in BOOLEAN, NEW a, NEW e, NEW x,
         LeaderAt(file', pos', rep', o, a, e, x)
  PROVE  OneIs(f, o, a, e, x)'
<1>1. PICK ps, r : ps = pos' /\ r = rep'
  OBVIOUS
<1>2. f \in Files /\ ps \in [Descs -> Nat] /\ r \in [Replicas -> RepRecords]
  BY <1>1 DEF TypeInv
<1>3. LeaderAt(f, ps, r, o, a, e, x)
  BY <1>1
<1>4. SeenAs(f, ps, r, f, o, a, e, x)
  BY <1>2, <1>3, SpotSeen
<1>5. SeenAs(file', pos', rep', f, o, a, e, x)
  BY <1>1, <1>4
<1>. QED
  BY <1>5, OneSeenNext

LEMMA MovingOne ==
  ASSUME TypeInv, NEW o, NEW a, NEW e, NEW x, Moving(o, a, e, x)
  PROVE  OneIs(file, o, a, e, x) /\ o \in BOOLEAN /\ e \in BOOLEAN
BY LeaderOne DEF Moving

LEMMA MovingOneNext ==
  ASSUME TypeInv', NEW f, f = file', NEW o, NEW a, NEW e, NEW x, Moving(o, a, e, x)'
  PROVE  OneIs(f, o, a, e, x)' /\ o \in BOOLEAN /\ e \in BOOLEAN
BY LeaderOneNext DEF Moving

LEMMA PoisedOne ==
  ASSUME TypeInv, NEW o, NEW a, NEW e, NEW x, Poised(o, a, e, x)
  PROVE  OneIs(file, o, a, e, x) /\ o \in BOOLEAN /\ e \in BOOLEAN
BY LevelLeader, LeaderOne DEF Poised

LEMMA PoisedOneNext ==
  ASSUME TypeInv', NEW f, f = file', NEW o, NEW a, NEW e, NEW x, Poised(o, a, e, x)'
  PROVE  OneIs(f, o, a, e, x)' /\ o \in BOOLEAN /\ e \in BOOLEAN
<1>1. PICK ps, r : ps = pos' /\ r = rep'
  OBVIOUS
<1>2. /\ \A i \in Replicas : Stands(r[i], Sees(f, ps, r[i]), o, a, e, x)
      /\ Len(x) \in Nat /\ o \in BOOLEAN /\ e \in BOOLEAN
  BY <1>1 DEF Poised
<1>3. LeaderAt(f, ps, r, o, a, e, x)
  BY <1>2, LevelLeader
<1>4. LeaderAt(file', pos', rep', o, a, e, x)
  BY <1>1, <1>3
<1>. QED
  BY <1>2, <1>4, LeaderOneNext

(* The replicas' steps.                                                    *)
\* The replicas are under way to a spot, or about to make a call for themselves.
Led ==
  /\ \E o, a, e, x : Moving(o, a, e, x) \/ Poised(o, a, e, x)
  /\ MasterInHand
AsOne == Abs!ONext \/ UNCHANGED Abs!ovars

\* Nothing happens to the one process while the replicas get to where it is.
LEMMA MovingStays ==
  ASSUME TypeInv, TypeInv', file' = file, prog' = prog,
         NEW o, NEW a, NEW e, NEW x, Moving(o, a, e, x),
         Moving(o, a, e, x)' \/ Poised(o, a, e, x)'
  PROVE  AsOne
<1>1. PICK f : f = file
  OBVIOUS
<1>2. OneIs(f, o, a, e, x)
  BY <1>1, MovingOne
<1>3. OneIs(f, o, a, e, x)'
  BY <1>1, MovingOneNext, PoisedOneNext
<1>4. UNCHANGED Abs!ovars
  BY <1>2, <1>3, OneStays
<1>. QED
  BY <1>4 DEF AsOne

LEMMA PoisedStays ==
  ASSUME TypeInv, TypeInv', file' = file, prog' = prog,
         NEW o, NEW a, NEW e, NEW x, Poised(o, a, e, x), Poised(o, a, e, x)'
  PROVE  AsOne
<1>1. PICK f : f = file
  OBVIOUS
<1>2. OneIs(f, o, a, e, x)
  BY <1>1, PoisedOne
<1>3. OneIs(f, o, a, e, x)'
  BY <1>1, PoisedOneNext
<1>4. UNCHANGED Abs!ovars
  BY <1>2, <1>3, OneStays
<1>. QED
  BY <1>4 DEF AsOne

LEMMA MovingLed ==
  ASSUME FopenPlain, Inv, TypeInv', AgreeInv, FopenWorks, Tame(prog), SentWhole',
         UsedInTurn, MasterInHand, NEW o, NEW a, NEW e, NEW x, Moving(o, a, e, x), Next
  PROVE  Led' /\ AsOne
<1>1. TypeInv /\ Underway(o, a, e)
  BY DEF Inv, Underway, Moving
<1>2. CASE CheckOnly
  <2>1. Poised(o, a, e, x)'
    BY <1>2, CheckOnlyPoises
  <2>2. MasterInHand'
    BY <1>1, <1>2, AllInHand
  <2>3. file' = file /\ prog' = prog
    BY <1>2 DEF CheckOnly
  <2>4. AsOne
    BY <1>1, <2>1, <2>3, MovingStays
  <2>. QED
    BY <2>1, <2>2, <2>4 DEF Led
<1>3. CASE CompareExits
  <2>1. Moving(o, a, e, x)'
    BY <1>3, CompareExitsMoves
  <2>2. MasterInHand'
    BY <1>1, <1>3, AllInHand
  <2>3. file' = file /\ prog' = prog
    BY <1>3 DEF CompareExits
  <2>4. AsOne
    BY <1>1, <2>1, <2>3, MovingStays
  <2>. QED
    BY <2>1, <2>2, <2>4 DEF Led
<1>4. ASSUME NEW i \in Replicas, StepsOf(i)
      PROVE  Led' /\ AsOne
  <2>1. Moving(o, a, e, x)'
    BY <1>4, MovingStep
  <2>2. MasterInHand'
    <3>1. rep[Master].pc \notin {"copy", "fill", "probe"}
      BY DEF Moving
    <3>. QED
      BY <1>1, <1>4, <3>1, StepInHand
  <2>3. file' = file /\ prog' = prog
    <3>1. Moves(i, rep'[i], o, a, e)
      BY <1>1, <1>4, StepMoves
    <3>. QED
      BY <3>1 DEF Moves
  <2>4. AsOne
    BY <1>1, <2>1, <2>3, MovingStays
  <2>. QED
    BY <2>1, <2>2, <2>4 DEF Led
<1>5. CASE MasterCall
  <2>1. Len(x) < Len(prog.calls) /\ prog' = prog /\ MasterInHand'
    BY <1>5, MasterCallDoes
  <2>2. PICK o2, a2, e2, ret, data :
          /\ Moving(o2, a2, e2, Append(x, ResultOf(ret, data)))'
          /\ CallDoes(prog.calls[Len(x) + 1], file, o, a, e, file', o2, a2, e2, ret, data)
    BY <1>5, MasterCallDoes
  <2>3. PICK f, f2, c, y : /\ f = file /\ f2 = file' /\ c = prog.calls[Len(x) + 1]
                           /\ y = Append(x, ResultOf(ret, data))
    OBVIOUS
  <2>4. OneIs(f, o, a, e, x) /\ o \in BOOLEAN /\ e \in BOOLEAN
    BY <1>1, <2>3, MovingOne
  <2>5. OneIs(f2, o2, a2, e2, y)' /\ o2 \in BOOLEAN /\ e2 \in BOOLEAN
    <3>1. Moving(o2, a2, e2, y)'
      BY <2>2, <2>3
    <3>. QED
      BY <2>3, <3>1, MovingOneNext
  <2>6. OneGoes(f, o, a, e, x, f2, o2, a2, e2, ret, data)
    BY <2>3, <2>4, <2>5 DEF OneGoes
  <2>7. CallDoes(c, f, o, a, e, f2, o2, a2, e2, ret, data)
    BY <2>2, <2>3
  <2>8. Abs!ONext
    BY <2>1, <2>3, <2>4, <2>5, <2>6, <2>7, OneDoes
  <2>. QED
    BY <2>1, <2>2, <2>8 DEF Led, AsOne
<1>. QED
  BY <1>2, <1>3, <1>4, <1>5 DEF Next, StepsOf

LEMMA PoisedLed ==
  ASSUME FopenPlain, Inv, TypeInv', AgreeInv, FopenWorks, Tame(prog),
         MasterInHand, NEW o, NEW a, NEW e, NEW x, Poised(o, a, e, x), Next
  PROVE  Led' /\ AsOne
<1>1. TypeInv
  BY DEF Inv
<1>2. PICK i \in Replicas : Die(i) \/ OwnCall(i)
  BY PoisedOnly
<1>3. MasterInHand'
  <2>1. PICK o2 \in BOOLEAN, a2 \in Nat, e2 \in BOOLEAN : Underway(o2, a2, e2)
    BY PoisedMeans
  <2>2. StepsOf(i)
    BY <1>2 DEF StepsOf
  <2>3. rep[Master].pc \notin {"copy", "fill", "probe"}
    BY DEF Poised, Master, Replicas, Voters
  <2>. QED
    BY <2>1, <2>2, <2>3, StepInHand
<1>4. file' = file /\ prog' = prog
  BY <1>2 DEF Die, OwnCall
<1>5. CASE Die(i)
  <2>1. Poised(o, a, e, x)'
    BY <1>5, PoisedDie
  <2>2. AsOne
    BY <1>1, <1>4, <2>1, PoisedStays
  <2>. QED
    BY <1>3, <2>1, <2>2 DEF Led
<1>6. CASE OwnCall(i)
  <2>1. PICK o2, a2, e2 :
          /\ Moving(o2, a2, e2, Append(x, OwnResult))'
          /\ prog.calls[Len(x) + 1].op = "getpid" => o2 = o /\ a2 = a /\ e2 = e
          /\ prog.calls[Len(x) + 1].op # "getpid" => ~o2 /\ a2 = 0 /\ ~e2
    BY <1>6, PoisedOwn
  <2>2. PICK f, c, y, ret, data :
          /\ f = file /\ c = prog.calls[Len(x) + 1]
          /\ y = Append(x, ResultOf(ret, data)) /\ ret = 0 /\ data = << >>
    OBVIOUS
  <2>3. OwnResult = ResultOf(ret, data)
    BY <2>2 DEF OwnResult, ResultOf
  <2>4. OneIs(f, o, a, e, x) /\ o \in BOOLEAN /\ e \in BOOLEAN
    BY <1>1, <2>2, PoisedOne
  <2>5. OneIs(f, o2, a2, e2, y)' /\ o2 \in BOOLEAN /\ e2 \in BOOLEAN
    <3>1. Moving(o2, a2, e2, y)'
      BY <2>1, <2>2, <2>3
    <3>. QED
      BY <1>4, <2>2, <3>1, MovingOneNext
  <2>6. OneGoes(f, o, a, e, x, f, o2, a2, e2, ret, data)
    BY <2>2, <2>4, <2>5 DEF OneGoes
  <2>7. Len(x) < Len(prog.calls) /\ c.op \in Locals /\ (o \/ c.op = "getpid")
    BY <2>2 DEF Poised
  <2>8. CallDoes(c, f, o, a, e, f, o2, a2, e2, ret, data)
    <3>1. CASE c.op = "getpid"
      <4>1. o2 = o /\ a2 = a /\ e2 = e
        BY <2>1, <2>2, <3>1
      <4>. QED
        BY <2>2, <3>1, <4>1 DEF CallDoes
    <3>2. CASE c.op # "getpid"
      <4>1. c.op = "close" /\ o
        BY <2>7, <3>2 DEF Locals
      <4>2. ~o2 /\ a2 = 0 /\ ~e2
        BY <2>1, <2>2, <3>2
      <4>. QED
        BY <2>2, <4>1, <4>2 DEF CallDoes
    <3>. QED
      BY <3>1, <3>2
  <2>9. Abs!ONext
    BY <1>4, <2>2, <2>4, <2>5, <2>6, <2>7, <2>8, OneDoes
  <2>. QED
    BY <1>3, <2>1, <2>9 DEF Led, AsOne
<1>. QED
  BY <1>2, <1>5, <1>6

LEMMA LedNext ==
  ASSUME FopenPlain, \A pr \in Programs : Tame(pr)
  PROVE  Inv /\ AgreeInv /\ Led /\ FopenWorks /\ SentWhole' /\ UsedInTurn /\ [Next]_vars
         => Led' /\ [Abs!ONext]_(Abs!ovars)
<1>1. SUFFICES ASSUME Inv, AgreeInv, Led, FopenWorks, SentWhole', UsedInTurn, [Next]_vars
               PROVE  Led' /\ AsOne
  BY DEF AsOne
<1>2. TypeInv /\ TypeInv' /\ prog \in Programs
  BY <1>1, InvNext DEF Inv, TypeInv
<1>3. Tame(prog) /\ MasterInHand
  BY <1>1, <1>2 DEF Led
<1>4. PICK o, a, e, x : Moving(o, a, e, x) \/ Poised(o, a, e, x)
  BY <1>1 DEF Led
<1>5. CASE Next
  <2>1. CASE Moving(o, a, e, x)
    BY <1>1, <1>2, <1>3, <1>5, <2>1, MovingLed
  <2>2. CASE Poised(o, a, e, x)
    BY <1>1, <1>2, <1>3, <1>5, <2>2, PoisedLed
  <2>. QED
    BY <1>4, <2>1, <2>2
<1>6. CASE UNCHANGED vars
  <2>1. /\ prog' = prog /\ file' = file /\ pos' = pos /\ rep' = rep /\ shm' = shm
        /\ deaths' = deaths
    BY <1>6 DEF vars
  <2>2. MasterInHand'
    BY <1>3, <2>1 DEF MasterInHand
  <2>3. CASE Moving(o, a, e, x)
    <3>1. Moving(o, a, e, x)'
      BY <2>1, <2>3 DEF Moving, Alive
    <3>. QED
      BY <1>2, <2>1, <2>2, <2>3, <3>1, MovingStays DEF Led
  <2>4. CASE Poised(o, a, e, x)
    <3>1. Kept'
      BY <2>1, <2>4 DEF Poised, Kept
    <3>2. Poised(o, a, e, x)'
      BY <2>1, <2>4, <3>1 DEF Poised
    <3>. QED
      BY <1>2, <2>1, <2>2, <2>4, <3>2, PoisedStays DEF Led
  <2>. QED
    BY <1>4, <2>3, <2>4
<1>. QED
  BY <1>1, <1>5, <1>6

LEMMA LedInit ==
  ASSUME \A pr \in Programs : Tame(pr)
  PROVE  Init => Led /\ Abs!OInit
<1>1. SUFFICES ASSUME Init
               PROVE  Led /\ Abs!OInit
  OBVIOUS
<1>2. TypeInv /\ prog \in Programs
  BY <1>1, TypeInit DEF Init
<1>3. PICK o \in BOOLEAN, a \in Nat, e \in BOOLEAN :
        KeptAt(prog, shm, file, pos, rep, deaths, o, a, e)
  BY <1>1, KeptInit DEF Kept
<1>4. PICK x \in Seq(Results) : x = << >>
  BY EmptySeq
<1>5. Master \in Replicas /\ Len(x) = 0
  BY <1>4, EmptySeq DEF Master, Replicas, Voters
<1>6. ASSUME NEW i \in Replicas
      PROVE  /\ rep[i].pc = "call" /\ rep[i].results = x
             /\ rep[i].stream = FreshStream(prog.std = "in")
             /\ rep[i].desc = IF prog.std = "none" THEN NoDesc ELSE 0
  BY <1>1, <1>4 DEF Init
<1>7. ASSUME NEW i \in Replicas
      PROVE  Stands(rep[i], Sees(file, pos, rep[i]), o, a, e, x)
  <2>1. Fits(prog, shm, rep[i], Sees(file, pos, rep[i]), o, a, e)
    BY <1>3, <1>6 DEF KeptAt, AllFit, Gone
  <2>2. Phase(prog, shm, rep[i]) = "rests"
    BY <1>6, PhaseIs
  <2>3. IsThere(rep[i], Sees(file, pos, rep[i]), o, a, e)
    BY <2>1, <2>2 DEF Fits
  <2>. QED
    BY <1>6, <2>3 DEF Stands
<1>8. LeaderAt(file, pos, rep, o, a, e, x) /\ LeaderOf(rep) = Master
  BY <1>5, <1>7, LevelLeader
<1>9. \A i \in Replicas : ResultsDue(rep[i], shm) = x
  BY <1>6, SettledIs
<1>10. Moving(o, a, e, x)
  BY <1>3, <1>5, <1>6, <1>8, <1>9 DEF Moving, Alive
<1>11. PICK p, w : p = rep[Master] /\ w = Sees(file, pos, p)
  OBVIOUS
<1>12. PICK reads \in BOOLEAN : reads = (prog.std = "in")
  OBVIOUS
<1>13. PICK st : st = FreshStream(reads)
  OBVIOUS
<1>14. p.stream = st /\ Blank(st) /\ st \in Streams
  BY <1>5, <1>6, <1>11, <1>12, <1>13, FreshIs
<1>15. w.st = st /\ w.pos = 0 /\ w \in Views
  <2>1. file \in Files /\ pos \in [Descs -> Nat] /\ p \in RepRecords
    BY <1>2, <1>5, <1>11 DEF TypeInv
  <2>2. \A d \in Descs : pos[d] = 0
    BY <1>1 DEF Init
  <2>3. /\ w \in Views /\ w.st = p.stream
        /\ p.desc = NoDesc => w.pos = 0
        /\ p.desc # NoDesc => p.desc \in Descs /\ w.pos = pos[p.desc]
    BY <1>11, <2>1, RepFields, SeesIs
  <2>. QED
    BY <1>14, <2>2, <2>3
<1>16. w.st.buf = << >> /\ ~w.st.eof
  BY <1>14, <1>15 DEF Blank
<1>17. InHand(w) /\ Where(w) = 0
  BY <1>15, <1>16, BlankWhere, NothingInHand
<1>18. Led
  BY <1>10, <1>11, <1>17 DEF Led, MasterInHand
<1>19. IsThere(p, w, o, a, e)
  BY <1>5, <1>7, <1>11 DEF Stands
<1>20. a = 0 /\ ~e /\ o = (prog.std # "none")
  <2>1. NoDesc # 0
    BY DEF NoDesc
  <2>2. IsOpen(p) = (prog.std # "none")
    BY <1>5, <1>6, <1>11, <2>1 DEF IsOpen
  <2>. QED
    BY <1>16, <1>17, <1>19, <2>2 DEF IsThere
<1>21. OneIs(file, o, a, e, x)
  BY <1>2, <1>8, LeaderOne
<1>22. file = prog.file
  BY <1>1 DEF Init
<1>23. Abs!OInit
  BY <1>2, <1>4, <1>20, <1>21, <1>22 DEF OneIs, Abs!OInit
<1>. QED
  BY <1>18, <1>23

\* For programs whose replicas stay together, which use their file in turn, whose
\* results go into shared memory whole and whose fopen does not fail, PLR is
\* transparent: whatever the order in which master and slaves take their steps, and
\* whoever dies and is replaced, the file, the place in it, its end-of-file flag
\* and the results are those of one process that makes each call once.
THEOREM OneProcessActs ==
  ASSUME FopenPlain, \A pr \in Programs : Tame(pr)
  PROVE  Spec /\ []SentWhole /\ []FopenWorks /\ []UsedInTurn => ActsAsOneProcess
<1>1. Init => AgreeInv /\ Led /\ Abs!OInit
  BY AgreeInit, LedInit
<1>2. Inv /\ AgreeInv /\ FopenWorks /\ SentWhole' /\ [Next]_vars => AgreeInv'
  BY AgreeNext
<1>3. Inv /\ AgreeInv /\ Led /\ FopenWorks /\ SentWhole' /\ UsedInTurn /\ [Next]_vars
      => Led' /\ [Abs!ONext]_(Abs!ovars)
  BY LedNext
<1>. QED
  BY <1>1, <1>2, <1>3, InvAlways, PTL DEF Spec, ActsAsOneProcess, Abs!OSpec

\* Programs that read neither strings nor elements wider than a byte, and whose
\* fopen finds or creates its file, leave all of each result in shared memory.
THEOREM NarrowActsAsOne ==
  ASSUME FopenPlain, Narrow, \A pr \in Programs : Tame(pr)
  PROVE  Spec /\ []UsedInTurn => ActsAsOneProcess
BY OneProcessActs, NarrowSends, PTL
=============================================================================
