# Verification of PLR (process-level redundancy)

PLR runs a program as a group of three identical processes. A preloaded library
wraps the C library's I/O calls; at each call the processes meet at a barrier in
shared memory, vote over the arguments, let one of them (the master) perform the
I/O, and share its result. A process that shows other arguments than the two
others, or fails to arrive before a watchdog timer expires, is killed and replaced
by a fork of a good one.

This directory holds TLA+ modules translated from the C source, the TLC
configurations that check them, and proofs for TLAPS. `PROJECT.json` lists for each
definition the source lines it stands for, and the runs, mutants, hazards, findings
and theorems.

    tlc -config Tolerated.cfg MCPlrBarrier.tla     # one of the runs
    tlc -config Files.cfg MCReplicaFiles.tla       # another
    tlc -config Group.cfg MCFaultInject.tla        # start-up, figureheads, the tool
    tlapm PlrGroupProofs.tla                       # the proofs about those

## 1. Inventory

| component | source | state | operations |
|---|---|---|---|
| vote | `plrCommon/plrCompare.c`, `plr.c:182-256` | `syscallArgs` of each slot | `plr_checkSyscallArgs`, `plrC_compareArgs`, `plr_checkSyscallArgs_act` |
| barrier | `plr.c:341-487` | `lock`, `curWaitIdx`, `condWaitCnt[2]`, each slot's `waitIdx` and `cond[2]` | `plr_waitBarrier`, `plr_masterAction` |
| watchdog and replacement | `plr.c:495-594` | `restoring`, the slots, who is alive | `plr_watchdogExpired`, `plr_replaceProcessIdx`, `plr_forkNewProcess` |
| per-process slots | `plrSharedData.c:111-167` | `pid`, `waitIdx`, `insidePLR`, `syscallArgs`, `shmFd`, `extraShmMapped` | `plrSD_initProcData`, `...AsCopy`, `plrSD_freeProcData` |
| extra shared memory | `plrSharedData.c:170-252`, `plr.c:285-315` | its size, each process's mapping | `plr_copyToShm`, `plr_copyFromShm`, `plrSD_resizeExtraShm`, `plrSD_refreshExtraShm` |
| group start-up | `plr.c:121-178`, `preloadInit.c` | `didProcessInit`, `insidePLRInitTrue` | `plr_processInit` |
| shared memory file | `plrSharedData.c:35-108` | the file, the mappings | init, acquire, cleanup |
| wrappers | `plrPreload/*.c` | `insidePLR`, file offsets, stream state | one function per wrapped call |
| figurehead | `plrMain.c`, `plr.c:91-119` | the children | launch over an exec pipe, wait loop, cleanup at exit |
| fault injection tool | `pinFaultInject.cpp` | `toolLock`, `faultInjected`, `nextFaultIdx`, `nextFaultPid`, `eventCount`, `targetCount` | choose a victim, count events, inject |
| time arithmetic | `timeUtil.c` | none | `tspecNew`, `tspecNewMs`, `tspecAdd`, `tspecAddMs`, `tspecSub` |
| checksums, logging, strings, symbol lookup, pthread attributes, tracing tool | the remaining files | none that decides anything | |

**How they interact.** A wrapper sets `insidePLR` (without the lock), copies its
arguments into its slot (without the lock), and enters the barrier of the vote; then,
if the call has an effect outside the process, the barrier of the master's action;
then, for stdio calls, a further vote over the state of the stream. The barrier
calls the vote or the master's action with the lock held; the vote and the watchdog
call the replacement; the replacement forks, and the child blocks on the lock its
parent holds, inside the function its parent is in. Slaves read the extra shared
memory without the lock.

Around that, the figurehead makes the shared memory file, launches the program (or Pin,
which launches it) and waits; the preloaded library's constructor in the first
process forks the others. Each process finds the file by its name, which is made of the
process group, and its slot by its pid, once or, under Pin, twice. The figurehead removes
the name when no child is left, and is made the parent of the orphans of its group. Pin
calls the fault injection tool before each trace or instruction, inside or outside of
wrappers; it keeps its counters in the same shared memory, under a lock of its own, and
reads the slots without `plrShm->lock`.

**What is hard.** The barrier runs over process-shared condition variables with
timers, so signals may be lost, waits may end for no reason, and a timer may expire
as the last process arrives. Processes die anywhere, with or without the lock (the
mutex is not robust). A killed process leaves whatever it had written in shared
memory. A fork duplicates a process in the middle of a barrier, and its slot is
unowned until it gets the lock. Two barriers alternate over one pair of counters.
Processes of one group, and runs of PLR in one process group, start and end in any order,
and only a name and a pid tie a process to its memory and its slot.
The full list, each entry at its line, is under `hazards` in `PROJECT.json`.

**What makes each part correct.**

- Vote: it names the odd one out if there is one, and nobody otherwise.
- Barrier: an action runs only when everybody has arrived at that barrier; everybody
  is released; nobody is left asleep; arrivals are counted.
- Watchdog and replacement: only faulty processes are replaced; a replacement is
  indistinguishable from a good process; the group goes on.
- Whole group: to the outside it is one fault-free process.
- Extra shared memory: a slave reads the result of its own call, over a mapping large
  enough.
- Wrappers: after each call all replicas agree on offsets and stream state.
- Start-up, figurehead: no two processes work for one slot; each process finds its memory,
  its slot and its flag; the name of the shared memory outlives every process that
  needs to open it, and no longer; a second run neither joins nor removes the memory of the first.
- Tool: it hits somebody, and nobody else before the one hit last has been replaced.
- Time: the deadline is one the kernel accepts, as far away as it was asked to be.

## 2. Modules

| module | models |
|---|---|
| `PlrVote` | comparison of argument blocks and the verdict, as operators; what a majority is |
| `VoteUpset` | three blocks overwritten one at a time; the verdict on every combination |
| `PlrVoteProofs` | the theorems about the vote |
| `VirtualProcess` | the abstract specification: what the group is to the outside |
| `PlrBarrier` | barrier, watchdog, replacement, slots and the protocol of a wrapped call |
| `MCPlrBarrier` | programs and sets of crash points for TLC |
| `PlrBarrierProofs` | the theorems that hold of every barrier, whatever its timers and its faults |
| `PlrLockstepProofs` | those that hold if the timers are patient: the group goes through the barriers together; and within tolerance: only faulty processes are replaced, the group is one process |
| `Kernel` | outside PLR: a file and the system calls on it, as operators |
| `Stdio` | outside PLR: a C stream on an open file description, as operators on what one process sees |
| `OneProcess` | the abstract specification of the wrappers: one process making each call once |
| `ReplicaFiles` | the wrappers: the master's call, the extra shared memory, how the slaves follow |
| `MCReplicaFiles` | programs for TLC |
| `ReplicaFilesProofs` | the theorems about the wrappers: types, mappings, and that replicas get the same replies |
| `ReplicaStreamsProofs` | those about where the replicas are in the file: together, and no exit state is ever different |
| `ReplicaRefinesProofs` | the refinement: the wrappers implement `OneProcess` |
| `TimeUtil` | arithmetic on `struct timespec`, with C's division |
| `PlrGroup` | figureheads, the shared memory file, start-up of a group, replacement seen from outside of the barrier, the deadline of its wait |
| `FaultInject` | the fault injection tool, running in the processes of `PlrGroup` |
| `MCFaultInject` | scenarios for TLC |
| `PlrGroupProofs` | the theorems about `TimeUtil` and `PlrGroup`, the types of `FaultInject`, and that the tool hits one process of a group at a time |
| `LeastNatural` | a lemma three proof modules share: a non-empty set of naturals has a least element |

`PlrBarrier`, `ReplicaFiles` and `PlrGroup` are three views of one system, each detailed where the
others are coarse: `PlrGroup` has everything before, after and around the barriers and takes a barrier
for a stay of some time inside a wrapper; `PlrBarrier` has what happens inside the barriers and
starts with the group forked; `ReplicaFiles` has the data. `FaultInject` composes the tool with
`PlrGroup`, and `PlrGroup` uses `TimeUtil`.

### PlrBarrier and the code

A *slot* is an entry of `allProcShm`. The variables `lock`, `curWaitIdx`,
`condWaitCnt`, `restoring` and `allProcShm` are the fields of shared memory of that
name. `pc[i]` and `local[i]` belong to the process that owns slot `i` or has been forked to own
it: `local[i].waitIdx` and `.watchdogExpired` are the locals of `plr_waitBarrier`, `.dogIdx` is the
one of `plr_watchdogExpired` that is also called `waitIdx` and that a replacement inherits,
`.call` and `.phase` say which barrier of which wrapped call the process is at,
`.data` is its program data (`Good`, or what a fault left), `.arg` what it has in the
arguments of this call, `.ret` the call whose result it holds.
`parentProcShmCpy[i]` is the local of `plr_forkNewProcess` a newborn process carries
in its copied stack.

| `pc` | where the process is |
|---|---|
| `bornInit`, `bornVote`, `bornDog` | forked in start-up, in the vote, by the watchdog; waiting for the lock for the first time |
| `app` | in the program, outside PLR |
| `lock` | inside a wrapper, arguments published, waiting for the lock at the head of the barrier |
| `top` | at the head of the `while (1)` loop, with the lock |
| `dog` | at `if (watchdogExpired)`, with the lock |
| `wait` | in `pthread_cond_timedwait` |
| `woken`, `timeout` | the wait is over (by a signal or for no reason; by the timer), waiting for the lock |
| `past` | out of the barrier |
| `copied` | past the master's action, result in hand |
| `done`, `dead`, `failed` | ended with the program; killed or stuck; ended by `exit(1)` or `abort()` |

Every stretch of code run with the lock held between two of these points is one
action; what runs without the lock is cut at each access to shared memory that
another process could observe.

- *Condition variables.* Each slot has its own pair, so a signal wakes one process, and
  only if it waits at that time on that index (`Signal`).
- *Killing is immediate*: from the `kill` on, the victim takes no step. The code
  does not wait for its death; a victim still running for an instant would be one more
  interleaving, outside the model.
- *A stuck process* (`"stuck"` in the comments of the code) is a dead one: it takes no step and
  the only thing others can do with it is to kill it.
- *Faults.* `Corrupt` changes the program data of a process that is in the program; from then
  on it may or may not show in the arguments of a call. `Crash` ends a process at
  any point named by `CrashPoints`. Both are bounded by `MaxFaults` (how many in a
  behaviour) and `MaxFaulty` (how many at a time).
- *Wrappers* come in three kinds: `local` (only the vote: `close`, `getpid`), `emulated` (vote
  and master action: `open`, `read`, `write`, `unlink`, `printf`, `fopen`) and
  `stdio` (vote, master action, vote over the stream state: `fread`, `fwrite`,
  `fseek`, `fgetc`, `fputc`, `fgets`, `fputs`, `gets`, `puts`). `StreamErrors` lets the
  master's stdio call set `ferror`, on which the wrapper calls `exit(1)` inside the
  action, the lock still locked. A slave that calls `exit(1)` on its own later in the wrapper
  is a crash at that point.
- *The program* is a constant, a sequence of kinds of calls. All replicas run
  the same one; a fault changes data, not control flow. A process whose control flow goes
  astray differs in its arguments, or does not arrive: both are there.
- *Group size.* The vote asserts `nProc == 3`; for other sizes the process that would
  run it is aborted with the lock held, which the model has as no further step of that
  process.
- *Start-up.* The initial state is right after the first process has unlocked in
  `plr_processInit`; its children have yet to take the lock.

### Timers

A timer may fire whenever its process waits, and PLR cannot tell a slow process from a dead
one. Two settings bracket this:

- `EagerTimer = FALSE`, *patient timers*: a timer fires only when nobody can take any
  other step (`Quiet`). This is the assumption under which PLR is meant to work: the
  watchdog timeout (200 ms by default) exceeds any delay of a live process, but all
  timers that run at that moment may fire together.
- `EagerTimer = TRUE`: it may fire at any time, so any good process may be killed for being
  slow.

### Fairness

`FairSpec` has weak fairness on the steps of each process (the operating system
schedules it) and on its timer (a timed wait does time out), and excludes infinitely
many spurious wakeups, each of which restarts a timer. No fault and no stream
error is ever forced to happen. Weak fairness on the lock is enough for the
properties checked; the finding on dead slaves does not come from starvation (section 5).

`ToolFairSpec`, of the `group` run, has weak fairness on each figurehead, on processes starting up, on the tool's
calls (they return: nobody but the victim is stopped in the tool) and on leaving a wrapper, which is what
`PlrBarrier` shows as `EverybodyExits`, by itself and for the process that is to be hit. It has strong fairness on two things.
A process that is again and again in the program, however shortly, executes a trace there some time (Pin calls the tool
before each). And the draw of a slot is random: it does not for ever hit an empty slot or the process hit last. That a
program ends is not assumed, so the properties leave open that it never does. `GroupFairness` is the part of this for
a group without the tool.

### VirtualProcess

The abstract specification has the effects performed so far and, for each
replica, the number of calls it has returned from. A call happens once, with good data, when
every replica has returned from the one before; a replica returns from a call only after it
has happened; a replica may be replaced by a copy of another. `PlrBarrier` instantiates it
with `out <- log` and `returned <- [i |-> local[i].call - 1]`; TLC checks that every
step of the barrier is a step of it or a stutter (`ActsAsOne`).

### ReplicaFiles and the code

`PlrBarrier` is about *when* a call is made and by whom; `ReplicaFiles` is about *what* it does.
It takes the barrier at its word: a barrier opens in one step when all that are alive have
arrived, and a replica that has died is replaced there by a copy of another (`Arrived`,
`Restored`); the vote over exit states replaces the one it condemns by a copy of one it does
not (`CompareExits`). This is what `tolerated_faults` shows of the barrier. Between barriers
the replicas' steps interleave freely.

The program uses one file, by descriptor or by a stream, which it opens itself or finds open
as standard input or output. `rep[i]` is a replica: `fds` its open descriptors, `fd` and `desc` the
descriptor of the file and the open file description that refers to (an index into `pos`, the kernel's
offsets), `stream` its `FILE`, `shmFd` and `mapped` its slot's `shmFd` and `extraShmMapped`, `told` its
`exitState`, `results` what its wrapped calls returned. `shm` is the content of the extra shared memory.
A fork shares descriptions (`CopyOf` leaves `desc` alone), and so do standard input and
output from the start.

| `pc` | where the replica is |
|---|---|
| `call` | in the program, or waiting in the barrier of its next call |
| `own` | past the vote of a call it makes for itself (`close`, `getpid`) |
| `copy` | a slave past `plr_masterAction`, the result still to copy |
| `fill` | a slave in `fseek`, between `lseek` and `read` |
| `probe` | a slave about to set the end-of-file flag with `fgetc` |
| `tell` | about to take `ftell`, `feof` for its exit state |
| `exit` | waiting to compare exit states |
| `end`, `dead`, `failed` | ended with the program; dead by a fault; ended by `exit(1)` or an abort |

Each wrapper is an operator that says what the master's call does to its view of the file, what it
returns, what goes into shared memory, and how the slaves follow (`lseek`, `fseek` and the end-of-file
flag, opening the file too, or not at all); `MasterCall` makes the call, and `TakeResult`, `TakeOffset`,
`OpenToo`, `SeekStream`, `FillStream`, `ProbeEof`, `Tell` are the slaves' side. What a slave takes for the result (`Taken`) is what the master
put into shared memory, but for an `fopen` that failed in the master: there a slave returns a pointer that it never assigned, which
may be the master's `NULL` or anything else (`Unassigned`). A file that cannot seek
(`file.seeks` is false) is a pipe: `lseek`, `fseek` and `ftell` fail on it, so slaves follow
in the end-of-file flag only, and only the master's stream has a place in it.

`Kernel` and `Stdio` are external: the kernel's side of `open`, `read`, `write`, `lseek`, and glibc's streams as
`libio/fileops.c` has them, down to what decides the wrappers' fate: `ftell` computes from a
remembered offset or asks the kernel; `fseek` within the buffer moves a pointer and the kernel's
offset to the buffer's end, elsewhere it seeks to the start of a block and reads the block; a read
that finds nothing forgets the remembered offset; a flush or seek that the kernel refuses, because it would step back over
the start of the file, changes nothing. The operators were compared with glibc 2.36
on shared and unshared descriptions.

`ActsAsOneProcess` is a refinement of `OneProcess`: the abstract file is the real one once the
leader (the replica that has returned most calls) has flushed, the position is the leader's
offset less what it has read ahead. Every step of a replica is a step of that one process or
none. In particular no step of a slave, which seeks, reads, truncates and opens like the master, may
move the file from under the leader.

### PlrGroup and the code

All figureheads of the model are in one process group, so `SHM_NAME` is one name: `file` says whose
memory it leads to. `shm[f]` is the memory figurehead `f` made; it stays with whoever maps it
when the name is gone or another's. `pipe[f]` is whether an error number is in `execErrPipe`. `env`
is the scenario: the options of each run, what the launch may fail at, how many figureheads and processes
may yet be killed or go wrong.

| `fig[f]` | where `plrMain.c` is |
|---|---|
| `start` | before `plr_figureheadInit` |
| `refused` | a file of that name exists: ended |
| `init` | file made, before `startFirstProcess` |
| `gaveUp` | `pipe` failed: ended by `exit(1)` before the exit handler was registered |
| `read` | in `read` from `execErrPipe` |
| `wait` | in the loop of `wait` |
| `exit` | about to run `atexit_cleanupShm` |
| `over`, `killed` | ended with and without it |

`proc[p]` are the other processes, by pid. `fig` is the run a process belongs to, `parent` who would reap it,
`maps` whose memory its `plrShm` points to, `slot` the slot it works for (`myProcShm`), `copy` the local
`parentProcShmCpy`, `faulty` whether a fault has changed its data, `wait` when its timed wait
began and its deadline.

| `pc` | where the process is |
|---|---|
| `fork`, `noexec` | the first process before `execvp`, and after it has failed |
| `image` | a program has been loaded, its constructors are yet to run; without a slot it is the first process, with one it comes from Pin's launcher |
| `first` | in `plr_processInit`, waiting for the lock as the first process |
| `bornInit`, `bornCopy` | forked at start-up or as a replacement, waiting for the lock |
| `pin` | Pin's launcher, about to load the program |
| `app`, `plr` | in the program outside and inside of the wrappers |
| `done`, `dead`, `failed` | ended with the program; killed; ended by `exit(1)` or an assertion |

Actions are named after the functions, or after what they are part of: `plr_figureheadInit`,
`StartFirstProcess`, `ReadExecPipe`, `WaitLoopEnds` and `atexit_cleanupShm` are the figurehead's;
`Exec`, `ExecFails`, `ExitNoExec` the child's before the program; `ProcessInit` is `plr_processInit` up to the
lock, `StartGroup` the first process's section under it, `BirthInit` that of each child;
`ApplicationStart` is what the tool does before the program's first instruction; `EnterPLR`, `LeavePLR`,
`OpenExtraShm`, `plr_replaceProcessIdx`, `BirthCopy` are the wrappers' use of slots. `KillFigurehead` and
`Fault` are the environment's.

- *A section under `plrShm->lock` is one step.* Nobody else reads what it writes without the lock but
  the tool, which reads `pid` and its own process's `insidePLR`, each written once in a section.
- *A barrier is a stay* in `plr`, of any length, with one deadline. Which process it condemns is `PlrBarrier`'s
  matter; here a good process in a barrier replaces one that is dead or `faulty`.
- *Pids are not reused*, and `MaxPid` and the scenario's `created` bound how many there are.
- *Adoption*: when a process ends, its children become the figurehead's (a subreaper), or init's when there is no
  figurehead left to adopt them.

`TimeUtil` takes the units as constants, so that TLC can work with small ones; the integers are unbounded.
`tv_nsec + msec * 1000000` leaves 64 bits only for a timeout of some nine billion seconds. A
negative timeout (`-t -1`) is left out of the model: section 5.

### FaultInject and the code

`tool[m]` are the tool's fields of the shared memory `m`, and `tpc[p]` says where process `p` is in the tool; it
goes on with the program only when that is `idle`.

| `tpc` | where the process is |
|---|---|
| `idle` | not in the tool |
| `first` | about to make the initial call of `updateNextProcToFault` |
| `suspect` | a fault has been injected: waiting for `toolLock` |
| `locked`, `update` | has it: about to look at the victim's slot, to choose another victim |
| `decide`, `inject` | without the lock: about to count the event, to inject |

`Event` begins `shouldInjectFault`; a call that would find nothing to do (no fault injected, another
process's turn, or inside of a wrapper) has no effect and is not a step. `Update` and `InitialCall` draw a slot
and a count; `InjectTrace` and `InjectIns` are the two modes; `DieOfFault` is the crash that may follow a flipped bit.
`ToolFollows` says what a step of the program does to the tool: a killed process leaves `toolLock` as it
is, and the end of `plr_processInit` in the program makes the initial call.

## 3. Runs

| run | what varies | what it shows |
|---|---|---|
| `vote_upset` | 3 blocks, 2 fields, 3 values: 729 states | the verdict is the majority vote |
| `tolerated_faults` | 3 replicas, a write and a close, two faults one at a time, patient timers | within what PLR tolerates: one fault-free process, nobody good is replaced, nobody gives up, everybody gets through, the program ends |
| `beyond_tolerance` | 3 replicas, an fwrite (three barriers), two faulty processes at once, deaths with the lock, stream errors, patient timers | mutual exclusion, counting, opening, waking, results and lockstep stay right even then |
| `slow_processes` | 3 replicas, a write among three calls that are only voted on (five barriers), no faults, eager timers | what remains true if good processes are killed for being slow |
| `dies_waiting` (violation) | patient timers, one death in the wait | the master acts before a live process has arrived, section 5 |
| `slave_dies` (violation) | patient timers, one dead slave | the group never gets through, section 5 |
| `unowned_slot` (violation) | eager timers, one fault | the group kills itself, section 5 |
| `files` | nine programs over a file or a pipe of at most 6 bytes, up to one death | by descriptor or by a stream of its own, the replicas act as one process, get the same results, stay together in the file, and none is condemned without a fault |
| `shared_stream` (violation) | standard input read by stream, no fault | exit states differ and a good replica is condemned, section 5 |
| `failed_fopen` (violation) | `fopen` of a file that does not exist, no fault | a slave does not get the master's result, section 5 |
| `printed_lost` (violation) | `printf` then `puts`, one death | what was printed is lost or written twice, section 5 |
| `group` | five scenarios of one or two runs in one process group (below) | files, slots, flags and deadlines are right in whatever order things start and end; the launch completes, the name is freed; the tool hits one process at a time, and goes on to the next |

Bounds, and why they are enough:

- `NProc = 3`: the only size the vote accepts.
- Vote: two fields suffice to have blocks that differ in one field, the other or
  both; three values to have three blocks pairwise different.
- Programs: the two indices alternate, so a count left in one barrier is met two
  barriers later; five barriers let it come back twice, and add up to the assertion that there are not too many. A write and a close contain a
  vote followed by a master action, a master action followed by a vote, and a call
  without a master action; an fwrite adds the vote on the way out. `WriteAmong`, of the run with
  eager timers, and `WriteBetween`, of `dies_waiting`, have their master's barrier third, so that it shares its index with a vote before it.
- `FewLeftovers`, the constraint of `slow_processes`: there the counts have no bound, since each replacement
  that is born late moves one from one index to the other. States are explored from those in which neither count is
  below -3 or above 5, nor has the log more than 4 effects; this leaves room for several such
  replacements and for a write performed again.
- `Corruptions`: one wrong value shows a fault; a second is needed for two faulty processes
  that do not agree with each other (no majority).
- `MaxFaults = 2`: a second fault meets what the repair of the first has left behind.
- `CrashPoints`: in `tolerated_faults` everywhere outside the barriers' lock, except that a
  slave does not die between the vote and the master's barrier (this is what `slave_dies` is
  about). In `beyond_tolerance` also with the lock in hand. No passing run has a death between arrival and departure
  without the lock (`wait`, `woken`, `timeout`, and the birth in a vote): it leaves an arrival that nobody takes
  back, and `dies_waiting` shows what comes of it.
- `files`: a program opens its file at most four times (`MaxOpens`; none here does so more than three), so that a replica never
  runs out of the eight descriptors there are in the model. `BufSize = 2` with a file of 5 bytes has every stream cross a buffer, seek inside and
  outside of it, at and off a block boundary, and meet a short last block. The programs are one stream
  read past its end (two calls ask for nothing), one written with seeks, one read and then written, descriptors with
  `O_CREAT`, `O_EXCL`, failing opens and `unlink`, standard input by descriptor (with a read of nothing), standard output by
  stream with both kinds of `printf`, and pipes: read by stream (past the end, with a seek that fails), read by
  descriptor, written by stream. A death is allowed where no two live replicas come to share the description of a stream
  that reads: after a replacement such a stream is in the situation of `shared_stream`. So the run
  bounds the claim: streams opened by the program for writing, and descriptors, survive a replacement;
  streams being read do not.
- `group`: the scenarios are
  - `OneFault`: a group of three, in which one process dies or goes wrong anywhere, from its fork on,
    and a second run begins at any time during or after it;
  - `FailingLaunch`: `pipe`, `fork` and `execvp` fail or not, a process dies, and a second run begins at any time;
  - `Orphans`: two runs with groups of two, and one figurehead is killed;
  - `Tracing`, `Flipping`: a group of two under the tool, in each of its modes.

  Two processes are the least with a forked child and with a choice of victim; three add a sibling. With four or five
  pids every process may be replaced or a replacement be hit in turn. `Targets = {2}` has the count begin, be
  reset and be reached; a count of 1 injects at the first event and only shortens that. Two nanoseconds to the
  millisecond and two milliseconds to the second make timeouts of 3 and 5 ms carry, from a clock that shows the last
  nanosecond of a second.

`CHECK_DEADLOCK FALSE` is set in the runs of `ReplicaFiles`, where the program ends; in `group`, where all runs end
(that they get there is what `LaunchCompletes` and `NameFreed` say); and where a process can end with the mutex locked, so that the
others really do stop (`beyond_tolerance`: a death with the lock, or `exit(1)` in the
master's action; `slow_processes`: the assertion at the head of the barrier). In the other runs deadlock is checked; a finished group stutters by `Terminated`.

Each property of a passing run has a mutant in `PROJECT.json`: a plausible mistake in the code
(a forgotten unlock, a signal to the wrong condition variable, a count not taken
back, ...), written next to the definition it mutates, with which TLC finds the
property violated.

### The properties

- `MutexExcludes`: the lock has one holder, and is free only if nobody is in the locked part.
- `ArrivalsCounted`: `condWaitCnt` is the number of processes that have arrived and not left,
  including a newborn that will leave in place of the process it replaces. `NobodyUncounted` is what
  eager timers leave of it: one count may miss a process (section 5), the two together do not.
- `WatchdogsTakeTurns`: `restoring` is set exactly while a replacement forked by the watchdog has yet to be born, and
  there is one at most.
- `OpensWhenAllArrived`: whoever is to run the action has all others in the same barrier.
- `Lockstep`: live processes have the same barrier before them, or have just come out of the one before it: no
  replacement, failed action or death puts one a barrier ahead of another.
- `NobodyLeftAsleep`: a released process is never in the wait (with patient timers; nothing is claimed for eager ones). `SomebodyOpens`: if everybody has
  arrived, one is on its way to run the action, without any timer.
- `SlotInStep`: the assertions on `insidePLR` hold and the pid test at the head of the barrier
  never lets a call of a live process through unchecked, for replacements too.
- `ResultIsOwn`: a process comes out with the result of its own call.
- `EffectsInOrder`: effects happen in program order, at most once. The one fwrite of `beyond_tolerance` has TLC look
  for a second performance only; that the order is right is the theorem `EffectsOrdered`.
- `RepliesAgree`, `StreamsAgree`: replicas before the same call have had the same results, the
  same descriptor, the same place in the file and the same end-of-file flag.
- `NoFalseAlarm`: exit states agree, so the vote over them condemns nobody.
- `CopiesInsideMapping`: no slave copies a result from beyond what it has mapped.
- `OutputOnce`: what a program has written is in the file at the end, once.
- `FileOutlivesGroup`: a process that may yet open the shared memory by its name finds that of its own run.
- `OneProcessPerSlot`: no two live processes work for one slot, and the pid in it is its process's, or 0 while that
  is being born.
- `EveryoneFindsItsPlace`: nobody ends with an error but a process `execvp` failed in.
- `DeadlineKept`: the deadline of a barrier's wait is normal and the run's timeout away.
- `OneFaultyAtATime`: the tool hits no second process of a group before the first has been replaced.
- `LaunchCompletes`, `NameFreed`: the figurehead gets past its `read`; the name goes when a run is over.
- `SomebodyIsHit`, `NextVictimChosen`: the tool's draws end in a process hit, and in another after it.
- `OnlyFaultyReplaced`, `NobodyGivesUp`, `EverybodyExits`, `GroupFinishes`, `ActsAsOne`: within
  tolerance, as their comments say.

## 4. Proofs

`PlrVoteProofs`: for every set of fields and values, `VerdictIsMajority` is invariant
(`VerdictCorrect`) and `UpsetIsLocated` holds of every step (`UpsetLocated`). The key lemma
(`CompareExact`) is that the mask of two blocks is empty exactly if they are equal; then
the chain of comparisons is a case analysis (`BadProcIsMajority`). The invariant needed is
the type of the blocks: a function that is not over the declared fields would not be compared whole.

`PlrBarrierProofs`: for every `NProc > 0`, program, set of crash points, number of
faults and behaviour of timers,

- `TypeCorrect`: `Spec => []TypeOK`. `TypeOK` is not inductive: that the call a process
  is at is one of the program's (needed where the call's number is written into shared
  memory and the log) holds only of processes inside a wrapper. `TypeInv` adds that
  (`InCall`); `TypeStep` shows that each action preserves it.
- `LockExcludes`: `Spec => []MutexExcludes`. Inductive together with `TypeInv` and `DogHeld`:
  a process about to wait has not been released. Without the latter the watchdog could
  find the slot of the process itself not waiting, and make a newborn of the process that
  holds the lock. `CompleteMutex` and `ExitMutex` are the two ways the barrier unlocks.

- `SlotsInStep`: `Spec => []SlotInStep`. The copy of its parent's slot that a newborn carries must say the same
  of `insidePLR` as the code it was forked in (`CopyInStep`).
- `RestoringHandedOver`: `Spec => []WatchdogsTakeTurns`, under the hypothesis `NewbornsLive` that nobody dies between its fork by the
  watchdog and its first turn with the lock; otherwise `restoring` would stay set. The parent sets the flag and
  another process takes it back, so what has to be shown is that the latter gets there: inductive with `UnbornUnowned`, that the slot of
  such a process has pid 0. Whoever chooses it again, as a slot that does not wait or by a vote, kills pid 0: everybody,
  not the one process that would take the flag back.

The effect of each action on each process (`...Effect`) is a lemma of its own; the later modules use these and not
the actions.

`PlrLockstepProofs`: the same, under two hypotheses on the constants. `PatientTimers`: no timer overtakes a process that can
still move. `DiesAwake`: nobody dies in the wait of the barrier or in the birth that ends it, that is, with its arrival
counted and the lock not in hand. They are not for convenience: without the first, a released process that is slow and `unowned_slot` refute (section 5)
`OpensWhenAllArrived` and the survival of the group; and without the second, `dies_waiting` refutes the former. The
crash points of `tolerated_faults` and `beyond_tolerance` satisfy both. Any number of processes may be faulty, with the lock
in hand or not, and the master may exit inside its action. Then

- `CountsAreExact`, `OpensTogether`, `NobodyOversleeps`, `FullBarrierIsSeen`, `GroupInLockstep`, `OwnResults`,
  `EffectsOrdered`: `Spec => []P` for `ArrivalsCounted`, `OpensWhenAllArrived`, `NobodyLeftAsleep`, `SomebodyOpens`,
  `Lockstep`, `ResultIsOwn`, `EffectsInOrder`.

None of these is inductive, nor provable without the others. The inductive invariant is `GroupInv`:

- `BaseInv`: types, mutual exclusion, slots, and that the phase tells how far a process outside of the barriers has got.
- `ArrivalsCounted` and `IndexInv` (those held are under `curWaitIdx`, those leaving under the other index) give that a full
  count is everybody, held, in the current barrier.
- `Lockstep` makes that the same barrier of the same call (`EverybodyHeld`).
- `Settled`: when somebody's timer is over, everybody else has arrived, has stopped or is being born. It is
  what patience gives, and needs `NobodyLeftAsleep` (whoever is in the wait is held) and `UnownedHeld` (a slot without owner
  is not taken for a missing process's). It gives that the watchdog kills only what has stopped (`VictimStopped`).
- `OnTheWay`: when all are held, one is at the top of the loop or about to be.

Its proof does not go action by action: `StepKinds` shows that each of the 31 cases of a step is one process going
on, arriving, turning in the loop, departing or stopping (`Solo`), a barrier opening (`Opens`), or the watchdog restoring
a process (`Restores`), and each part of the invariant is kept by these seven. `ResultInv` says until when
`extraShm` is the result of the call the processes are leaving, `LogInv` that the log is older than what anybody is about to
do, unless the barrier is `Jammed`: the one exception is the master that exits in its action.

In the same module, within tolerance (`WithinTolerance`: patient timers, no stream errors, `MaxFaulty <= 1`, deaths
outside of the loop, and not of a slave between the vote and the master's barrier, which `slave_dies` is about; the
constants of `tolerated_faults` satisfy it), for any number of faults one after the other and any program,

- `GroupGoesOn`: `Spec => []NobodyGivesUp`.
- `OnlyTheFaultyDie`: `Spec => OnlyFaultyReplaced`, an action property.
- `GroupActsAsOne`: `Spec => ActsAsOne`, the refinement of `VirtualProcess`.

The inductive invariant adds `ToleranceInv`:

- `ReplicaInv`: what each process shows is about the call it is at, is its own, and is right unless a fault has hit it; wrong
  arguments do not get past the check. With `OneFaulty` the vote is therefore right (`VoteIsRight`): it names the
  process with the fault, if it shows, and nobody else.
- `OneNewborn`, `SoundOverdue`: while timers are over one process is being restored at most, and the others are sound; so the
  watchdog finds exactly one missing (`OneMissing`), and it is dead (`VictimDead`).
- `DeadBehind`, `MasterRestored`, `RestoredActs`: where a dead process is in the program relative to the others; hence only
  the master is ever restored at the master's barrier; hence the copy, which arrives last and with its timer over, runs the
  action instead of finding nobody missing and giving up. This is the very point on which `slave_dies` fails.
- `MasterNext`, `PerformedInv`: a master's barrier is that of a call with an effect; once the group is past it, the log has it.

For the refinement, `MasterActs` is `Perform` (`SeenPerformed`: all have returned from the call before, by
`EverybodyHeld`; the call is not in the log, by `LogInv`; the data are right, by `ShowsOwn`), `EndCall` is `Return` (`SeenReturned`:
nobody is a whole call behind, the living by `Lockstep`, the dead by `DeadBehind`), a replacement is `Replace`
(`SeenReplaced`), and every other step changes neither the log nor anybody's call.

Both modules use the assumptions `NProcAssumption`, `ProgramAssumption`,
`FaultsAssumption` and `FlagsAssumption` of `PlrBarrier`.

`PlrGroupProofs`, first: for all units (`UnitsAssumption`: positive),

- `AddExact`, `SubExact`, `NewMsExact`: the results stand for exactly the sum, the difference, the milliseconds, for any
  integers. `SubExact` does not say that a difference is normal: with C's division a negative one is not.
- `NewNormal`, `DeadlineExact`: the results are normal, the latter for a normal time and a timeout that is not negative.

All rest on `CarriedExact` (moving whole seconds from `tv_nsec` keeps the time), and that on `QuotRem`, the law of
division for C's rounding towards zero.

`PlrGroupProofs`, then: for any number of runs in one process group, any options of each, any number of processes,
failures, kills and faults, with the tool or without: `TypesKept`, `FileFoundByName`, `SlotsNotShared`, `PlacesFound`,
`DeadlinesKept`, that is `ToolSpec => []P` for the five invariants of `group` other than `OneFaultyAtATime`. The inductive
invariant is `GroupInv /\ ToolInv`. Its parts, and what each is for:

- `PidsInOrder`: pids are given out in order, so that the next is a free one (`PidsCounted`, by cardinalities of intervals).
- `OneName`: whoever has made a file and not removed it is who the name leads to. So there is at most one such run:
  the second cannot have passed `O_EXCL`.
- `Memberships`: a live process belongs to a run whose figurehead is past the launch, and, unless `execvp` failed in it,
  not yet at its exit. With `OneName` this gives `FileOutlivesGroup`.
- `Parents`: while the figurehead runs, the parent of a process is the figurehead or a live process of the run with a *smaller*
  pid. It is why the wait loop does not end early: take the least live process of the run (`LeastElement`);
  its parent must be the figurehead, which therefore still has a child.
- `Launches`: until the group is started, its first process is alone and the memory fresh; whoever failed, failed in `execvp`
  and left its error in the pipe. `EveryoneFindsItsPlace` is a part of this.
- `Memory`, `Owners`: the pid in a slot is of a process of that run that works for no other slot; who is past start-up has a slot
  of its run's size. With `OneProcessPerSlot` they give that a process finds exactly its own slot by its pid (`SlotFound`).
- `Configured`: the memory holds what the command line said, and a process in Pin's launcher is inside PLR, which is
  what `ApplicationStart` asserts.
- `DeadlineKept`, by `DeadlineExact`.
- `ToolInv`: only a process in its program is in the tool, and no slot is drawn before there are slots.

Steps that change one process alone are shown to preserve all of it by one lemma (`GoesOnKeeps`), those that end one,
move a figurehead, or fill in a slot by others (`EndKeeps`, `MoveKeeps`, `TakesSlotKeeps`). The assumptions are
`NamesAssumption`, `MaxPidAssumption`, `ScenariosAssumption`, `TimesAssumption`, `TargetsAssumption` and `UnitsAssumption`.

In the same module, `ToolHitsOneAtATime`: `ToolSpec => []OneFaultyAtATime`, under the hypothesis `ToolAlone`: a scenario that has
faults of another origin (`crashes`) does not use the tool. All scenarios of `group` satisfy it, and without it the property
means nothing. The invariant is `TargetInv`, together with `Inv`:

- `HitOnly`: who is at fault and still in its slot, or about to be hit, is the one the tool aims at, and a dead one is in the slot
  the tool remembers.
- `VictimPlaced`: the one aimed at is in the slot it was drawn from, while it lives. So a process about to be hit is not taken
  for replaced by another that looks at the slots meanwhile.
- `ToolLocked`: who has seen under `toolLock` that the process hit last was replaced finds it replaced still when it draws
  another, although slots change under the group's own lock.

`Aftermath` is what any step of the group may do to this: a slot is freed of a process that has ended, or taken by one that was
in no slot (`FigureheadPasses`, `ProcessPasses`). After a new choice nobody is at fault (`NobodyHit`); every other step of the tool
goes on aiming at whom it did (`AimKept`).

`ReplicaFilesProofs`: for every set of programs that satisfies `ProgramsAssumption` (calls with arguments of their types, at most
`MaxOpens` opens each, the only bound), any file or pipe, any number of deaths,

- `FilesTypeCorrect`: `Spec => []TypeOK`. It is more than types: no offset becomes negative although `fseek` and a flush step
  back, no replica needs more descriptors than there are, and none has mapped more of the extra shared memory than exists.
- `MappingHoldsResult`: `Spec => CopiesInsideMapping`, an action property: a slave has mapped what it copies, an old mapping or a
  replacement's none at all notwithstanding.
- `FilesRepliesAgree`: `Spec /\ []SentWhole /\ []FopenWorks => []RepliesAgree`, if the programs are `FopenPlain`.
- `NarrowRepliesAgree`: `Spec => []RepliesAgree`, if they are `FopenPlain` and `Narrow`.

The hypotheses are where the code is wrong or gives up data. `FopenPlain` is that `fopen` is not asked for a new file with an
`x`, which only the master's call finds new (section 5). `SentWhole` says of a behaviour that what the master puts into shared
memory is all of what it got: not so for wide elements in `fread` (section 5) or for a line with a NUL in it, of which `fgets` and
`gets` pass on what `strlen` counts. `FopenWorks` says of a behaviour that no slave comes back from an `fopen` that failed in the master:
its pointer is then never assigned (section 5). TLC finds that both hold in all behaviours of the programs of `files`. `Narrow` is a condition on programs
that implies them (`NarrowSends`): neither `fgets` nor `gets`, `fread` by bytes, and `fopen` only where it cannot fail, because it makes the file or because
the file is there from the start and is never removed (`FileKept`). Streams that share an offset are not excluded: however
they drift apart, results come from the master alone.

None of the four is inductive. `Inv`, which gives the first two, is `TypeInv` and `InStep`:

- `TypeInv` adds to `TypeOK`, for each replica, that it has one descriptor at most for each of its opens so far
  (`OpensBefore`, a count over the program), besides the standard ones and that of the shared memory (`RepOK`). This is why `LowestFree` always
  finds one (`WithLowest`). And where it is fits the call it is at (`PlaceOK`): a slave past `plr_masterAction` follows in the way of that
  call, whose result fits into the extra shared memory.
- `InStep`: the replicas that live are at the same call, counting one that has yet to take the result for at it still (`Due`). So a
  barrier opens for one call, and a replacement goes on where all are.

`AgreeInv` gives the other two: `Alike` says of each two replicas that they have the same results, descriptors and file,
*or will have* once the one that is behind has taken what is due to it (`ResultsDue`, `FdsDue`, `FdDue`: the result in shared memory and, if
the call is an open, the lowest free descriptor; or the result of a call of its own). Without what is due nothing could be said between a master's return
and the last slave's. `OpenedExists`, the file the master has opened is there until all slaves have opened it, gives that their
opens succeed too. That descriptors agree needs `shmFd` to agree (`ShmFdDue`), and all descriptors, not that of the file alone: the extra shared memory is opened
on first use, in the master before the file, and takes a descriptor that is then not free. A replacement is a copy of a live replica and is
alike to all since that was (`RestoredEqual`).

`ReplicaStreamsProofs`: the sequence of a wrapped call is master first, slaves one by one after it, each with several system calls of its own, and
where offsets are shared each of these moves everybody. Nevertheless, for programs that are `Tame`,

- `ReplicasStayTogether`: `Spec /\ []WellUsed => []StreamsAgree`, and
- `NobodyCondemned`: `Spec /\ []WellUsed => []NoFalseAlarm`.
- `DescriptorsStayTogether`: `Spec => []StreamsAgree`, for those that use descriptors only.

`Tame` is that the file can seek and that the program is of one of three kinds: descriptors only (`ByDescriptor`); streams only
for writing, flushed after each call (`ByWriting`), shared or not; or a stream of the program's own for reading and writing,
where nobody dies, since a replacement would share its offset (`ByOwnStream`). It leaves out what is wrong: streams
that share an offset and read ahead (`shared_stream`), and `printf`, which leaves bytes in the master's stream (`printed_lost`). And it
leaves out pipes, which have no offset: the runs have them. `WellUsed` says of a behaviour that a stream is used only while it is open (in C
the opposite is undefined; the model's `NoDesc` would have the master fail and the slaves' `fseek` not). Of the programs of `files`,
`ReadsText`, `WritesText`, `UsesDescriptors`, `ReadsStdin` and `Updates` are tame, and TLC finds that they are well used.

The properties speak of replicas that have returned from a call; most of the time some are on the way. The invariant, `Kept`, is that there is one
*spot* they all make for: is the file open, at which place, with which end-of-file flag. `Fits` says for each phase of a replica
(`Phase`, from its `pc` and from what is in shared memory) what it still has and how this takes it to the spot:

- at rest, in a call or between calls, it *is there* (`IsThere`): nothing pending, and the kernel's offset less what was read ahead is the
  spot (`Where`);
- about to `lseek`, the offset in shared memory is the spot (`WillSeek`); about to open, the spot is the beginning, and the file
  still exists and is empty if it is to be truncated (`WillOpen`), which gives that the slave's own open with `O_TRUNC` loses nothing;
- about to `fseek`, between its two system calls, and before the `fgetc` that sets the end-of-file flag, `WillFollow`, `WillFill`,
  `WillProbe`: the offset the master told is the spot, and if the master was at the end, the spot is at the end of the file *as it is by then*.

What makes `IsThere` inductive is `Sound`: what a stream takes for the kernel's offset (`_IO_read_end`'s) is that or is unknown, and what it has read ahead
is in the file. Once the master has gone on in the file, slaves are left with a weaker form of it, `Loose`, under which `fseek` still
works (`FseekSound`). That nobody moves anybody else off is `Sharing`: of programs that may share offsets, no stream ever has anything
read ahead (`Plain`), so the only place that anybody moves the offset to is the spot, where the others are or would go (`FitsShared`); and of the others, each
replica has an offset of its own (`OwnDescs`), which is where deaths have to be excluded.

`OneMoves` is the argument for a step of one replica, `AllGo` that for a step of all (`CheckOnly`, `CompareExits`, and `CallKept` for a
master's call, which chooses the next spot). That exit states agree is then that both were told from the spot (`Compares`).

`ReplicaRefinesProofs`: the wrappers implement `OneProcess`. With "together" settled, what is left to show is that the place they are at
together is the right one, and that there is a replica by which to tell it at every moment.

- `OneProcessActs`: `Spec /\ []SentWhole /\ []FopenWorks /\ []UsedInTurn => ActsAsOneProcess`, for tame programs that are `FopenPlain`.
- `NarrowActsAsOne`: `Spec /\ []UsedInTurn => ActsAsOneProcess`, for those of them that are `Narrow`.

`UsedInTurn` says of a behaviour that the program opens and removes its file only while it does not have it open, and does anything else with it while it
has. It implies `WellUsed`. `OneProcess` says nothing of the opposite: a file that is removed while it is open has no name and lives on, and one that is
opened twice has two positions, and neither is in the model. TLC finds it true of all behaviours of the five tame programs of `files`.

The invariant, `Led`, is `MasterInHand` and one of two:

- `Moving`: there is a spot that all make for (`KeptAt`, the body of `Kept`), the leader is *there* (`LeaderAt`), and what all have returned *or are due*
  (`ResultsDue`) is what it has returned. While the master leads, slaves may be anywhere in following it; one that dies and is
  replaced leaves the leader where it was. While somebody else leads (`close` and `getpid`, which each makes for itself), nobody has
  anything to take over.
- `Poised`: all that live are about to make a call for themselves, at a spot that they have not left yet. The first to make it becomes the leader
  (`PoisedOwn`) and makes the step of `OneProcess`; the others then make for where it is. This case is why the leader is the replica with
  the most results, the master if it is one of them, and the first otherwise, and not the master always.

`MasterInHand` is that what the master's stream has read ahead is what is in the file before the kernel's offset. Agreement did not need it: replicas
that have read ahead the same wrong bytes agree. That they are the right bytes does.

A master's call is then the step of `OneProcess`. The operators of `Stdio` are taken one by one (`FgetcDoes`, `FreadDoes`, ... in `StreamCallDoes`,
`FdCallDoes`, `OpenDoes`, `UnlinkDoes`) to a relation between place, flag and result before and after, and `OneDoes` finds the disjunct of
`ONext` for each. For reads the two sides are computed differently: `OneProcess` takes the least number of bytes that is enough, libc
takes byte by byte, through buffers that it refills, until one stops it. `TakeDoes` is the invariant of that loop, and
`TakenEnough` that it comes to the same. All other steps change nothing that `OneProcess` sees: the file is not touched by a slave that opens it with `O_TRUNC`
(it is empty still), nor by one that writes out (it has nothing to write).

The attempt to prove it found three errors in the model, none in the code: for calls that ask for nothing. `OneProcess` had a `read` of no bytes, an
`fread` of no elements and an `fgets` with room for the NUL only take the rest of the file; `Fgets` failed where libc returns the empty string;
and a write of nothing beyond the end of the file filled the gap. `ReadsText` and `ReadsStdin` make such calls now, so that
`files` checks them.

TLC evaluates all assumptions named here in the runs.

Only model-checked: `NobodyUncounted`, whose invariant would have to say which count each leftover belongs to; the liveness properties (`EverybodyExits`, `GroupFinishes`, `LaunchCompletes`, `NameFreed`, `SomebodyIsHit`,
`NextVictimChosen`), which are about fairness and out of the prover's reach; and of `ReplicaFiles`, what
`StreamsAgree`, `NoFalseAlarm` and `ActsAsOneProcess` say of pipes, where there is no place that all could be at, and of programs that print,
where what `OneProcess` has written is still in the master's buffer.

## 5. Where the code does not do what it says

1. **A stale arrival** (`dies_waiting`, `plr.c:483`). The arrival of a process is taken back by
   the process itself as it leaves. If it dies in the wait (`plr.c:473`), its barrier opens with it, it is replaced in the next
   one, and its arrival stays: one barrier later the same counter reaches `nProc` with one live process missing, and the
   master acts without it. No timer need be early for this. Nor need anybody die if timers are: a process that is
   released may be slow to get the lock; the others enter the next barrier, time out, kill it and go on without
   its decrement (`OpensWhenAllArrived` fails for `WriteThenClose`, without faults, with `EagerTimer`). In longer runs the same
   count makes the assertion at `plr.c:353` fail, a slave read the result of another call, or
   a write be performed twice.
2. **A dead slave at the master's barrier** (`slave_dies`, `plr.c:449`, `538`). The copy that
   replaces it has `watchdogExpired` set, completes the barrier, cannot run the master's
   action, and, holding the lock all the time, finds that the watchdog has expired with
   nobody missing: it exits before the master can look. So does every later copy.
   Only a missing *master* can be replaced there. No timer need be early for this.
3. **A slot without an owner** (`unowned_slot`, `plr.c:554`). Between the fork and the child's first
   turn with the lock, the slot's pid is 0. If the slot is chosen for replacement in that
   time, `kill(0, SIGKILL)` ends the process group.
4. **Streams on a shared offset** (`shared_stream`, `fgetc.c:75`). The slaves' `fseek` after each call
   moves an offset that all replicas share when the stream was open before they were forked (standard
   input) or has been copied since by a replacement. A replica that takes `ftell` in the
   meantime gets the wrong answer, even -1, and is voted out. With two slaves between `lseek` and
   `read` at once the offset ends up at twice its distance from the block's start, which
   would explain the known issue in the repository's README ("2x where it should be").
5. **A failed `fopen` returns nothing in particular** (`failed_fopen`, `fopen.c:35`, `58`). If the master's `fopen` fails, a slave
   sets `errno` and returns `ret`, which only the other branch assigns. The comment says that it returns the master's values. A
   program that checks for `NULL` then goes on in a slave as if the file were open. `open` copies the result. The passing run `files` has no
   `fopen` that fails, and the theorems about results exclude it (`FopenWorks`).
6. **`printf` does not flush** (`printed_lost`, `printf.c:64`). The text is in the master's buffer
   only. It dies with the master, and is inherited by a copy of the master, which writes it again.

More is in the models and in no run:

- A late replacement is counted under another index (`plr.c:528`). A replacement made by the watchdog
  arrives under `plr_watchdogExpired`'s `waitIdx`, read when its parent's timer expired, and departs under its parent's
  `plr_waitBarrier`'s. A replacement that gets the lock only after its barrier has opened goes on in that barrier's loop
  while `curWaitIdx` is the next one's; if its own timer is early it forks a copy of itself for which the two differ. The
  count of one barrier is too low from then on and that of the other too high: `condWaitCnt[x] >= Cardinality(Inside(x))`
  fails for `WriteBetween`, without faults, with `EagerTimer`. With it a copy of such a copy
  becomes master and performs a write again: `EffectsInOrder` fails too.
- `fread` counts elements as bytes (`fread.c:54`): the slaves get only the first bytes of elements that are wider.
  `RepliesAgree` fails for the programs `WideElements`.
- `fopen` with an `x` in its mode succeeds in the master and fails in the slaves (`fopen.c:63`; `open` takes care
  of it at `open.c:86`), see `OpenToo`.
- A pipe read by stream: when the master dies, what it had read ahead is lost, and the copy that becomes master goes on
  after it (`fgetc.c:75`). `ActsAsOneProcess` fails for the programs `PipeAndDeath`.
- In instruction mode a process with a flipped bit goes on in the tool, and may be killed by the group while it has `toolLock`
  (`pinFaultInject.cpp:79`): everybody else then waits in the tool. `NextVictimChosen` fails without its restriction
  to the trace mode.
- The tool chooses a new victim only after it has hit the last one (`pinFaultInject.cpp:78`): one that is replaced for another
  reason first is waited for in vain. In the scenarios of `group` with the tool nothing else has faults (`ToolAlone`).
- A negative `-t` gives a deadline with a negative `tv_nsec` (`timeUtil.c:37`), which `pthread_cond_timedwait` refuses:
  the barrier would go round with the lock held. `DeadlineExact` needs its assumption.
- A launch that fails in `pipe()` leaves the file for good (`plrMain.c:199`: `exit` before `atexit`), as
  does a kill of the figurehead. `NameFreed` excepts both.

## 6. Not modelled, and the plan

Modelled so far: vote, barrier, watchdog, replacement, slots, the wrappers with descriptors, streams and pipes, the
extra shared memory, start-up, figurehead, the fault injection tool, time. What would come next:

1. As theorems: `ActsAsOneProcess` for pipes and for programs that print and do not die, with an argument of their own.
2. A fork that fails in `plr_processInit` or in a replacement, with the lock held (`plr.c:580`); more than one file in
   `ReplicaFiles`; append mode and stream errors in `Stdio`.

Not in `PlrGroup`: `-o` and `-e`, which redirect the figurehead's output before anything is shared; `read()` or `wait()` failing;
system calls that fail for want of memory; a program that changes its process group (the name would change with it).

Not in `ReplicaFiles`: terminals, append mode, `fseek` from elsewhere than the start (the
offset that reaches the slaves is absolute in any case), stream errors and `errno` (the exit on a stream
error inside the master's action is in `PlrBarrier`), what `exit` does to the offset of an input
stream, `bak/ftell.c` (not built).

Left out for good: checksums (the vote sees equal or different values, collisions
are outside the model), logging and string formatting, symbol lookup, build files, the
tracing tool: none keeps state that decides anything here. `fork` and `vfork` of the
program itself end it with an error (`plrPreload/fork.c`), which is a death like any other.
