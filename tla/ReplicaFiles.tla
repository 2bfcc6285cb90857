----------------------------- MODULE ReplicaFiles -----------------------------
(***************************************************************************)
(* The wrappers of plrPreload and what they do to the program's file: the  *)
(* master's call, the shared memory its result goes through                *)
(* (plr_copyToShm, plr_copyFromShm, plrCommon/plrSharedData.c), and the    *)
(* steps by which each slave brings its own descriptor and stream to where *)
(* the master's is. PlrBarrier has what goes on inside a barrier; here a   *)
(* barrier opens in one step, with a dead replica replaced first.          *)
(*                                                                         *)
(* The replicas of one program share a file, and after a fork they share   *)
(* open file descriptions too: a copy has its parent's descriptors.        *)
(***************************************************************************)
EXTENDS Integers, Sequences, FiniteSets, Stdio, PlrVote

CONSTANT Programs
  \* What a program finds and does: file, std (is the file open from the start,
  \* as standard input or output), calls, and deaths (how many replicas may die).

\* The calls a program makes. fgets has room for one byte at least, its NUL.
OpenOps == {"open", "fopen"}
Calls ==
  [op : {"read"}, n : Nat] \cup [op : {"fgets"}, n : Nat \ {0}]
    \cup [op : {"fread"}, size : Nat \ {0}, nmemb : Nat]
    \cup [op : {"write", "fwrite", "fputc", "fputs", "puts", "printf", "printf_chk"},
           bytes : Seq(Nat)]
    \cup [op : {"fseek"}, offs : Nat]
    \cup [op : OpenOps, flags : SUBSET {"read", "creat", "excl", "trunc"}]
    \cup [op : {"fgetc", "gets", "unlink", "close", "getpid"}]

\* A program may open its file this often: the standard descriptors, that of the
\* shared memory and its own fit into the eight there are here, LowestFree.
MaxOpens == 4

ASSUME ProgramsAssumption ==
  \A p \in Programs :
    /\ p \in [file : Files, std : {"in", "out", "none"}, calls : Seq(Calls), deaths : Nat]
    /\ Cardinality({k \in DOMAIN p.calls : p.calls[k].op \in OpenOps}) <= MaxOpens

Replicas == Voters      \* three, as the vote demands
Master == 0
NoFd == -1
NoDesc == 3             \* refers to no open file description
Descs == Replicas       \* no more than one per replica
Stale == -2             \* a byte of a caller's buffer that nobody wrote
Unassigned == -3        \* a pointer that nobody assigned

VARIABLES
  prog,          \* the program being run
  file,          \* the file: does it exist, its bytes, can it seek
  pos,           \* the offset of each open file description
  rep,           \* the replicas
  shm,           \* the extra shared memory: what the last call left there
  extraShmSize,  \* plrShm->extraShmSize
  deaths         \* how many replicas died

vars == <<prog, file, pos, rep, shm, extraShmSize, deaths>>

PCs == {"call",   \* on its way to, or waiting in, the barrier of its next call
        "own",    \* past the check of a call every replica makes for itself
        "copy",   \* a slave past plr_masterAction
        "fill",   \* between the two system calls of fseek
        "probe",  \* about to set the end-of-file flag with fgetc
        "tell",   \* about to collect its exit state
        "exit",   \* waiting to compare exit states
        "end", "dead", "failed"}

Gone == {"dead", "failed"}
Alive == {i \in Replicas : rep[i].pc \notin Gone}

Nothing == [ret |-> 0, sent |-> << >>, len |-> 0, offs |-> 0, eof |-> FALSE,
            follow |-> "none", compare |-> FALSE]

Init ==
  /\ prog \in Programs
  /\ file = prog.file
  /\ pos = [d \in Descs |-> 0]
  /\ rep = [i \in Replicas |->
              [pc |-> "call", results |-> << >>,
               fds |-> 0 .. 2, shmFd |-> NoFd, mapped |-> 0,
               fd |-> CASE prog.std = "in" -> 0 [] prog.std = "out" -> 1
                        [] prog.std = "none" -> NoFd,
               desc |-> IF prog.std = "none" THEN NoDesc ELSE 0,
               stream |-> FreshStream(prog.std = "in"),
               told |-> [offs |-> 0, eof |-> FALSE]]]
  /\ shm = Nothing
  /\ extraShmSize = 0
  /\ deaths = 0

-----------------------------------------------------------------------------
(* The wrappers. Each is given as what the master's call does to its view  *)
(* w, the call's result and how much of it goes into shared memory, and    *)
(* how the slaves follow: which of the actions below they take and whether *)
(* everybody then compares exit states.                                    *)

\* Mutant: the slaves' offsets stay where they were.
FdCallUnsought(w, ret, data) ==
  [w |-> w, ret |-> ret, data |-> data, sent |-> data, offs |-> Offset(w),
   eof |-> FALSE, follow |-> "none", compare |-> FALSE]

\* read, write: the slaves lseek to the offset in shared memory.
FdCall(w, ret, data) ==
  [w |-> w, ret |-> ret, data |-> data, sent |-> data, offs |-> Offset(w),
   eof |-> FALSE, follow |-> "lseek", compare |-> FALSE]

\* Calls on a stream: the slaves fseek, and repeat the end-of-file flag.
StreamCall(w, ret, data, sent) ==
  [w |-> w, ret |-> ret, data |-> data, sent |-> sent, offs |-> Ftell(w),
   eof |-> w.st.eof, follow |-> "fseek", compare |-> TRUE]

\* Calls whose slaves only take over the result.
ResultCall(w, ret) ==
  [w |-> w, ret |-> ret, data |-> << >>, sent |-> << >>, offs |-> 0,
   eof |-> FALSE, follow |-> "none", compare |-> FALSE]

\* open, fopen: the slaves open the file themselves if the master could.
OpenCall(w, ret) == [ResultCall(w, ret) EXCEPT !.follow = "open"]

Read(w, c) ==
  LET data == BytesAt(w.file.data, w.pos, c.n)
  IN  FdCall([w EXCEPT !.pos = @ + Len(data)], Len(data), data)

Write(w, c) ==
  FdCall([w EXCEPT !.file.data = Overwrite(@, w.pos, c.bytes),
                   !.pos = @ + Len(c.bytes)], Len(c.bytes), << >>)

Fgetc(w, c) == LET b == Getc(w) IN StreamCall(b.w, b.c, << >>, << >>)

\* The bytes that strlen counts.
CString(s) == SubSeq(s, 1, Least({k \in 1 .. Len(s) : s[k] = 0} \cup {Len(s) + 1}) - 1)

\* With room for the NUL only, fgets has nothing to read and does not fail.
Fgets(w, c) ==
  LET t == Take(w, c.n - 1, {NL})
  IN  StreamCall(t.w, IF t.data = << >> /\ c.n > 1 THEN -1 ELSE 0, t.data,
                 CString(t.data))

Gets(w, c) ==
  LET t == Take(w, Len(w.file.data) + 1, {NL})
      line == IF t.data # << >> /\ t.data[Len(t.data)] = NL
                THEN SubSeq(t.data, 1, Len(t.data) - 1) ELSE t.data
  IN  StreamCall(t.w, IF t.data = << >> THEN -1 ELSE 0, line, CString(line))

\* The copy into shared memory counts elements where it should count bytes.
Fread(w, c) ==
  LET t == Take(w, c.size * c.nmemb, {})
      ret == Len(t.data) \div c.size
  IN  StreamCall(t.w, ret, SubSeq(t.data, 1, ret * c.size), SubSeq(t.data, 1, ret))

\* The four calls that write through a stream flush it at once.
Fwrite(w, c) == StreamCall(Fflush(Put(w, c.bytes)), Len(c.bytes), << >>, << >>)
Fputc(w, c) == StreamCall(Fflush(Put(w, c.bytes)), Len(c.bytes), << >>, << >>)
Fputs(w, c) == StreamCall(Fflush(Put(w, c.bytes)), Len(c.bytes), << >>, << >>)
Puts(w, c) ==
  LET line == Append(c.bytes, NL)
  IN  StreamCall(Fflush(Put(w, line)), Len(line), << >>, << >>)

\* printf leaves the bytes in the master's stream and the slaves where they are.
Printf(w, c) == ResultCall(Put(w, c.bytes), Len(c.bytes))

\* Its fortified variant has a flag among the arguments to vote on, and nothing else new.
PrintfChk(w, c) == ResultCall(Put(w, c.bytes), Len(c.bytes))

FseekCall(w, c) ==
  IF w.file.seeks THEN StreamCall(Fseek(w, c.offs), 0, << >>, << >>)
  ELSE [StreamCall(Fflush(w), -1, << >>, << >>) EXCEPT !.eof = FALSE]

Open(w, c) ==
  IF CanOpen(w.file, c.flags)
    THEN OpenCall([file |-> Opened(w.file, c.flags), pos |-> 0,
                   st |-> FreshStream(FALSE)], 0)
  ELSE OpenCall(w, -1)

Fopen(w, c) ==
  IF CanOpen(w.file, c.flags)
    THEN OpenCall([file |-> Opened(w.file, c.flags), pos |-> 0,
                   st |-> FreshStream("read" \in c.flags)], 0)
  ELSE OpenCall(w, -1)

Unlink(w, c) ==
  ResultCall([w EXCEPT !.file.exists = FALSE, !.file.data = << >>],
             IF w.file.exists THEN 0 ELSE -1)

Locals == {"close", "getpid"}

Served(w, c) ==
  CASE c.op = "read" -> Read(w, c)     [] c.op = "write" -> Write(w, c)
    [] c.op = "fgetc" -> Fgetc(w, c)   [] c.op = "fgets" -> Fgets(w, c)
    [] c.op = "gets" -> Gets(w, c)     [] c.op = "fread" -> Fread(w, c)
    [] c.op = "fwrite" -> Fwrite(w, c) [] c.op = "fputc" -> Fputc(w, c)
    [] c.op = "fputs" -> Fputs(w, c)   [] c.op = "puts" -> Puts(w, c)
    [] c.op = "printf" -> Printf(w, c) [] c.op = "fseek" -> FseekCall(w, c)
    [] c.op = "open" -> Open(w, c)     [] c.op = "fopen" -> Fopen(w, c)
    [] c.op = "unlink" -> Unlink(w, c) [] c.op = "printf_chk" -> PrintfChk(w, c)

-----------------------------------------------------------------------------
(* Descriptors, the extra shared memory, and replacement.                  *)

\* What replica i of the group r sees of the file.
View(r, i) ==
  [file |-> file, st |-> r[i].stream,
   pos |-> IF r[i].desc = NoDesc THEN 0 ELSE pos[r[i].desc]]

LowestFree(fds) == Least(0 .. 7 \ fds)

\* Mutant: the descriptor is closed after mapping, its number kept.
WithShmFdClosed(p) ==
  IF p.shmFd # NoFd THEN p ELSE [p EXCEPT !.shmFd = LowestFree(p.fds)]

\* The first use of the extra shared memory opens its file and keeps it open.
WithShmFd(p) ==
  IF p.shmFd # NoFd THEN p
  ELSE [p EXCEPT !.shmFd = LowestFree(p.fds), !.fds = @ \cup {LowestFree(p.fds)}]

\* plrSD_resizeExtraShm: the area only ever grows.
Resized(minSize) == IF minSize > extraShmSize THEN minSize ELSE extraShmSize

\* Mutant: what is mapped already is never mapped anew.
RefreshedOnce(p, size) ==
  [WithShmFd(p) EXCEPT !.mapped = IF @ = 0 THEN size ELSE @]

\* plrSD_refreshExtraShm, when the area is size bytes.
Refreshed(p, size) ==
  [WithShmFd(p) EXCEPT !.mapped = IF @ < size THEN size ELSE @]

\* Opening the file gives the process the lowest free descriptor and an open
\* file description of its own.
FreshDesc(r, i) == CHOOSE d \in Descs : \A j \in Replicas \ {i} : r[j].desc # d
WithFile(p, desc, stream) ==
  [p EXCEPT !.fd = LowestFree(p.fds), !.fds = @ \cup {LowestFree(p.fds)},
            !.desc = desc, !.stream = stream]

Returned(p, ret, data) ==
  [p EXCEPT !.results = Append(@, [ret |-> ret, data |-> data])]

\* plr_replaceProcessIdx: the copy has everything its parent has, but its slot
\* says that nothing of the extra shared memory is mapped.
CopyOf(p) == [p EXCEPT !.mapped = 0]

\* The group once what was gone is replaced by copies of src.
Restored(src) ==
  [i \in Replicas |-> IF i \in Alive THEN rep[i] ELSE CopyOf(rep[src])]

\* A barrier opens: whoever is alive is there, and the watchdog of src has
\* replaced whoever is not. It can replace one process, not two.
Arrived(src, pc) ==
  /\ src \in Alive
  /\ \A i \in Alive : rep[i].pc = pc
  /\ Cardinality(Replicas \ Alive) <= 1

HasCall(p) == Len(p.results) < Len(prog.calls)
CallOf(p) == prog.calls[Len(p.results) + 1]

-----------------------------------------------------------------------------
(* A wrapped call.                                                         *)

\* plr_checkSyscallArgs of a call that every replica then makes for itself.
CheckOnly ==
  /\ \E src \in Alive :
       /\ Arrived(src, "call") /\ HasCall(rep[src])
       /\ CallOf(rep[src]).op \in Locals
       /\ rep' = [i \in Replicas |-> [Restored(src)[i] EXCEPT !.pc = "own"]]
  /\ UNCHANGED <<prog, file, pos, shm, extraShmSize, deaths>>

\* The descriptor goes, and the description and the stream with it.
Closed(p) ==
  [p EXCEPT !.fds = @ \ {p.fd}, !.fd = NoFd, !.desc = NoDesc,
            !.stream = FreshStream(FALSE)]

\* close or getpid, in each replica. getpid answers for all of them with the
\* figurehead's pid, here 0.
OwnCall(i) ==
  LET c == CallOf(rep[i])
      p == [Returned(rep[i], 0, << >>) EXCEPT !.pc = "call"]
  IN  /\ rep[i].pc = "own"
      /\ rep' = [rep EXCEPT ![i] = IF c.op = "getpid" THEN p ELSE Closed(p)]
      /\ UNCHANGED <<prog, file, pos, shm, extraShmSize, deaths>>

\* Mutant: the file first, the extra shared memory when the result goes there.
MasterOpensFirst(p, r, o, size) ==
  IF o.ret = 0 THEN Refreshed(WithFile(p, FreshDesc(r, Master), o.w.st), size)
  ELSE Refreshed(p, size)

\* The master's side of opening a file: the extra shared memory first, so that
\* the file's descriptor is the same one as in the slaves.
MasterOpens(p, r, o, size) ==
  IF o.ret = 0 THEN WithFile(Refreshed(p, size), FreshDesc(r, Master), o.w.st)
  ELSE Refreshed(p, size)

\* plr_checkSyscallArgs and plr_masterAction: everybody has arrived at both, and
\* the process in slot 0 makes the call and leaves its result.
MasterCall ==
  \E src \in Alive :
    /\ Arrived(src, "call") /\ HasCall(rep[src])
    /\ CallOf(rep[src]).op \notin Locals
    /\ LET r == Restored(src)
           c == CallOf(rep[src])
           o == Served(View(r, Master), c)
           size == Resized(1 + Len(o.sent))
           p == IF o.follow = "open" THEN MasterOpens(r[Master], r, o, size)
                ELSE [Refreshed(r[Master], size) EXCEPT !.stream = o.w.st]
       IN  /\ file' = o.w.file
           /\ pos' = IF p.desc = NoDesc THEN pos ELSE [pos EXCEPT ![p.desc] = o.w.pos]
           /\ extraShmSize' = size
           /\ shm' = [ret |-> o.ret, sent |-> o.sent, len |-> Len(o.data),
                      offs |-> o.offs, eof |-> o.eof, follow |-> o.follow,
                      compare |-> o.compare]
           /\ rep' = [i \in Replicas |->
                IF i # Master THEN [r[i] EXCEPT !.pc = "copy"]
                ELSE [Returned(p, o.ret, o.data) EXCEPT
                        !.pc = IF o.compare THEN "tell" ELSE "call"]]
           /\ UNCHANGED <<prog, deaths>>

\* plr_copyFromShm: what the slave's caller gets besides the result ret. What was
\* not sent stays as it was in the caller's buffer.
CopiedWith(p, ret) ==
  Returned(Refreshed(p, extraShmSize), ret,
           [k \in 1 .. shm.len |-> IF k <= Len(shm.sent) THEN shm.sent[k] ELSE Stale])
Copied(p) == CopiedWith(p, shm.ret)

\* What slave i can return for a call it does not make itself: the master's result;
\* but fopen, when the master's failed, sets errno and leaves its pointer unassigned.
Taken(i) ==
  IF CallOf(rep[i]).op = "fopen" THEN {shm.ret, Unassigned} ELSE {shm.ret}

\* The slave takes over the result.
TakeResult(i) ==
  /\ rep[i].pc = "copy"
  /\ shm.follow = "none" \/ (shm.follow = "open" /\ shm.ret # 0)
  /\ \E ret \in Taken(i) :
       rep' = [rep EXCEPT ![i] = [CopiedWith(rep[i], ret) EXCEPT !.pc = "call"]]
  /\ UNCHANGED <<prog, file, pos, shm, extraShmSize, deaths>>

\* Mutant: ... by as much as was read, from where it is.
AdvanceOffset(i) ==
  /\ rep[i].pc = "copy" /\ shm.follow = "lseek"
  /\ pos' = [pos EXCEPT ![rep[i].desc] = @ + Len(shm.sent)]
  /\ rep' = [rep EXCEPT ![i] = [Copied(rep[i]) EXCEPT !.pc = "call"]]
  /\ UNCHANGED <<prog, file, shm, extraShmSize, deaths>>

\* ... and seeks its descriptor to the master's offset; there is none on a pipe.
TakeOffset(i) ==
  /\ rep[i].pc = "copy" /\ shm.follow = "lseek"
  /\ pos' = [pos EXCEPT ![rep[i].desc] = IF shm.offs < 0 THEN @ ELSE shm.offs]
  /\ rep' = [rep EXCEPT ![i] = [Copied(rep[i]) EXCEPT !.pc = "call"]]
  /\ UNCHANGED <<prog, file, shm, extraShmSize, deaths>>

\* ... or opens the file for itself: open without O_EXCL, fopen as the master did.
OpenToo(i) ==
  LET c == CallOf(rep[i])
      flags == IF c.op = "open" THEN c.flags \ {"excl"} ELSE c.flags
      desc == FreshDesc(rep, i)
      opens == CanOpen(file, flags)
      p == IF opens
             THEN WithFile(Copied(rep[i]), desc,
                           FreshStream(c.op = "fopen" /\ "read" \in flags))
           ELSE Returned(Refreshed(rep[i], extraShmSize), -1, << >>)
  IN  /\ rep[i].pc = "copy" /\ shm.follow = "open" /\ shm.ret = 0
      /\ file' = IF opens THEN Opened(file, flags) ELSE file
      /\ pos' = [pos EXCEPT ![desc] = IF opens THEN 0 ELSE @]
      /\ rep' = [rep EXCEPT ![i] = [p EXCEPT !.pc = "call"]]
      /\ UNCHANGED <<prog, shm, extraShmSize, deaths>>

\* Mutant: nobody repeats the end-of-file flag that fseek clears.
SeekedOnly == "tell"

\* Where a slave goes from fseek.
Seeked == IF shm.eof THEN "probe" ELSE "tell"

\* ... or seeks its stream, up to the first system call of fseek. A negative
\* offset makes fseek fail.
SeekStream(i) ==
  LET w == FseekStart(View(rep, i), shm.offs)
      fill == NeedsFill(Fflush(View(rep, i)).st, shm.offs)
  IN  /\ rep[i].pc = "copy" /\ shm.follow = "fseek"
      /\ IF shm.offs < 0
           THEN /\ rep' = [rep EXCEPT ![i] = [Copied(rep[i]) EXCEPT !.pc = Seeked]]
                /\ UNCHANGED <<file, pos>>
           ELSE /\ file' = w.file
                /\ pos' = [pos EXCEPT ![rep[i].desc] = w.pos]
                /\ rep' = [rep EXCEPT ![i] =
                     [Copied(rep[i]) EXCEPT !.stream = w.st,
                                            !.pc = IF fill THEN "fill" ELSE Seeked]]
      /\ UNCHANGED <<prog, shm, extraShmSize, deaths>>

\* The second system call of fseek.
FillStream(i) ==
  LET w == FseekFill(View(rep, i), shm.offs)
  IN  /\ rep[i].pc = "fill"
      /\ pos' = [pos EXCEPT ![rep[i].desc] = w.pos]
      /\ rep' = [rep EXCEPT ![i].stream = w.st, ![i].pc = Seeked]
      /\ UNCHANGED <<prog, file, shm, extraShmSize, deaths>>

\* The master's stream is at end of file: fgetc sets the slave's flag too. A
\* slave that reads a byte instead ends with exit(1).
ProbeEof(i) ==
  LET b == Getc(View(rep, i))
  IN  /\ rep[i].pc = "probe"
      /\ pos' = [pos EXCEPT ![rep[i].desc] = b.w.pos]
      /\ rep' = [rep EXCEPT ![i].stream = b.w.st,
                            ![i].pc = IF b.c = EOF THEN "tell" ELSE "failed"]
      /\ UNCHANGED <<prog, file, shm, extraShmSize, deaths>>

\* exitState: where the stream says it is, and its end-of-file flag.
Tell(i) ==
  /\ rep[i].pc = "tell"
  /\ rep' = [rep EXCEPT ![i].pc = "exit",
                        ![i].told = [offs |-> Ftell(View(rep, i)),
                                     eof |-> rep[i].stream.eof]]
  /\ UNCHANGED <<prog, file, pos, shm, extraShmSize, deaths>>

\* The second plr_checkSyscallArgs: the vote over the exit states, which runs in
\* a process that it does not condemn, and puts a copy of it in the place of the
\* one it does.
CompareExits ==
  \E src \in Alive :
    /\ Arrived(src, "exit")
    /\ LET r == Restored(src)
           bad == BadProc([i \in Replicas |-> r[i].told])
       IN  \/ /\ bad \in Replicas
              /\ \E voter \in Replicas \ {bad} :
                   rep' = [i \in Replicas |->
                            [(IF i = bad THEN CopyOf(r[voter]) ELSE r[i]) EXCEPT
                               !.pc = "call"]]
           \/ /\ bad = AllAgree
              /\ rep' = [i \in Replicas |-> [r[i] EXCEPT !.pc = "call"]]
           \/ /\ bad = NoMajority
              /\ rep' = [i \in Replicas |-> [r[i] EXCEPT !.pc = "failed"]]
    /\ UNCHANGED <<prog, file, pos, shm, extraShmSize, deaths>>

\* The program returns from main: libc flushes the stream.
Finish(i) ==
  LET w == Fflush(View(rep, i))
  IN  /\ rep[i].pc = "call" /\ ~HasCall(rep[i])
      /\ file' = w.file
      /\ pos' = IF rep[i].desc = NoDesc THEN pos
                ELSE [pos EXCEPT ![rep[i].desc] = w.pos]
      /\ rep' = [rep EXCEPT ![i].pc = "end", ![i].stream = w.st]
      /\ UNCHANGED <<prog, shm, extraShmSize, deaths>>

\* A fault ends replica i. What its stream had not written is lost.
Die(i) ==
  /\ rep[i].pc \notin Gone \cup {"end"} /\ deaths < prog.deaths
  /\ deaths' = deaths + 1
  /\ rep' = [rep EXCEPT ![i].pc = "dead", ![i].stream.out = << >>]
  /\ UNCHANGED <<prog, file, pos, shm, extraShmSize>>

Next ==
  \/ CheckOnly \/ MasterCall \/ CompareExits
  \/ \E i \in Replicas :
       \/ OwnCall(i) \/ TakeResult(i) \/ TakeOffset(i) \/ OpenToo(i)
       \/ SeekStream(i) \/ FillStream(i) \/ ProbeEof(i) \/ Tell(i)
       \/ Finish(i) \/ Die(i)

Spec == Init /\ [][Next]_vars

-----------------------------------------------------------------------------
(* Correctness.                                                            *)

TypeOK ==
  /\ prog \in Programs
  /\ file \in Files
  /\ pos \in [Descs -> Nat]
  /\ \A i \in Replicas :
       /\ rep[i].pc \in PCs
       /\ rep[i].desc \in Descs \cup {NoDesc}
       /\ rep[i].fds \subseteq 0 .. 7 /\ rep[i].fd \in rep[i].fds \cup {NoFd}
       /\ rep[i].shmFd \in rep[i].fds \cup {NoFd}
       /\ rep[i].fd # NoFd <=> rep[i].desc # NoDesc
       /\ rep[i].mapped \in 0 .. extraShmSize
  /\ deaths \in 0 .. prog.deaths

\* Some replica that has returned most results: the master, unless a call that
\* everybody makes for itself has been made by others already.
Leader ==
  LET most == {i \in Replicas : \A j \in Replicas :
                 Len(rep[i].results) >= Len(rep[j].results)}
  IN  IF Master \in most THEN Master ELSE Least(most)
LeaderView == View(rep, Leader)

\* The file as it is once the leader has flushed its stream, and where the
\* leader is in it, are what one process making the same calls has; so are the
\* results the leader has returned. This is the abstract specification, and the
\* property is that every step of the replicas is one of its steps or none.
Abs == INSTANCE OneProcess WITH
         file <- Fflush(LeaderView).file,
         isOpen <- rep[Leader].desc # NoDesc,
         at <- IF rep[Leader].desc = NoDesc THEN 0 ELSE TruePosition(LeaderView),
         eof <- rep[Leader].stream.eof,
         results <- rep[Leader].results
ActsAsOneProcess == Abs!OSpec

\* Replicas on their way to the same call have returned the same results, and
\* have the file under the same descriptor.
RepliesAgree ==
  \A i, j \in Alive :
    /\ rep[i].pc \in {"call", "end"} /\ rep[j].pc \in {"call", "end"}
    /\ Len(rep[i].results) = Len(rep[j].results)
    => rep[i].results = rep[j].results /\ rep[i].fd = rep[j].fd

\* ... and their streams are at the same place in the file, with the same
\* end-of-file flag, unless the last thing printed is still in the master's buffer.
\* On a pipe only the master's stream has a place of its own.
StreamsAgree ==
  \A i, j \in Alive :
    /\ rep[i].pc = "call" /\ rep[j].pc = "call"
    /\ Len(rep[i].results) = Len(rep[j].results)
    /\ \A k \in Replicas : rep[k].stream.out = << >>
    => /\ file.seeks => TruePosition(View(rep, i)) = TruePosition(View(rep, j))
       /\ rep[i].stream.eof = rep[j].stream.eof

\* A replica that no fault has hit is not condemned for its exit state, nor
\* does it end itself: the faults here are deaths, so all exit states agree.
NoFalseAlarm ==
  /\ \A i \in Replicas : rep[i].pc # "failed"
  /\ \A i, j \in Replicas :
       rep[i].pc = "exit" /\ rep[j].pc = "exit" => rep[i].told = rep[j].told

\* A slave never copies a result from beyond its mapping of the shared memory.
CopiesInsideMapping ==
  [][\A i \in Replicas :
       rep[i].pc = "copy" /\ rep'[i].pc \notin Gone \cup {"copy"}
       => rep'[i].mapped >= 1 + Len(shm.sent)]_vars

\* For programs that start on an empty file and only append to it: once
\* everybody that lives has ended, the output is all of what was written, once.
OutputOnce ==
  LET written[k \in 0 .. Len(prog.calls)] ==
        IF k = 0 THEN << >>
        ELSE written[k - 1] \o prog.calls[k].bytes
               \o (IF prog.calls[k].op = "puts" THEN <<NL>> ELSE << >>)
  IN  Alive # {} /\ (\A i \in Alive : rep[i].pc = "end")
        => file.data = written[Len(prog.calls)]
=============================================================================
