# Verification of Yorick's concurrent and interruptible parts

The repository bundles Yorick 2.2.04 (`src/yoco/distrib/yorick-2.2.04`), its
add-ons (yeti, vmlmb, ylib, ynfft, yoifits, ipy, mira, pndrs, ...), the
libraries they need, and installed copies of all of that. Most of it computes
on arrays. The parts where several things can happen at once are `mpy`, the MPI
layer of the interpreter (a distributed error recovery protocol in C, parallel
tasks, a job scheduler written in the interpreted language); the event loop
under the interpreter, with alarms and spawned processes whose callbacks push
tasks; and the hash tables of yeti, which a signal may interrupt between two
stores. This project models these, and leaves the computing on arrays aside.

Paths below are relative to `src/yoco/distrib/yorick-2.2.04/` unless they begin
with `src/`.

## Inventory

| component | state | operations | what is hard | what makes it correct |
|---|---|---|---|---|
| mpy error recovery (`mpy/mpy.c` 838-1216) | locals of `mpy_recover`, `mperr_msg`, `mperr_quiet`, static requests of `mperr_to_boss` and `mperr_to_staff` | `mpy_recover`, entered by an interpreted fault or a control message; `mpy_isend_wait` | several faults at once, alerts crossing verdicts, data in transit, late completion of sends, errors caught by the task | all ranks stop, the network ends up empty, everybody agrees on the fault rank, rank 0 is last, no assertion fires, it ends |
| mpy control messages (1164-1199) | none | `mperr_encode`, `mperr_decode`, the copy up to NUL | boundaries of the variable-length code | what is read is what was sent |
| mpy tree (`mpy.c`, `mpy.i`) | `mpy_size`, `mpy_nfan` | boss and staff arithmetic, written out six times | the last, clipped group | the copies agree; boss and staff are inverse |
| mpy messages and tasks (`mpy.c` 288-836, `mpy.i`) | `mpy_queue`, `mpy_net`, `mpy_request`, `mpy_parallel` | `mp_send`, `mp_recv`, `mp_probe`, `mp_exec`, `mpy_bcast`, `mp_handout`, `mp_handin`, idler | receipt from any source, large sends, the cancelled control receive | FIFO per source, broadcast as a barrier, no lost control message |
| mpool (`mpy/mpool.i`) | `mpool_t`: state, slave, njobs, nused, nself, nignore, nactive; the receive queue | `_mpool_fmaster`, `_mpool_fslave`, `_mpool_active`, `_mpool_ready` | results in any order, shutdown with jobs outstanding, messages of others in the same queue | every job once, only idle slaves are sown to, nothing left over, it ends |
| mpy launch and include (`mpy/mpyfile.c`) | in-memory file | collective launch, collective include | failure on rank 0 before the broadcast | all ranks read the same text |
| mpy debugging (`mpy.i`, `mpy1.i`) | `_mp_conrank`, ... | `mp_connect`, `mp_dbug`, `mp_include`, `mp_cd` | mixing with recovery | rank 0 gets its prompt back |
| after functions (`yorick/task.c` 371-600) | `ym_after_list` with its two lists, the alarms of play, the task stack | `after`, cancellation, `ym_after`, `_after_func`, `YError` | calls and cancellations between an alarm and its task; two lists in one field; errors that clear all three | each call runs once, not early, in order; what is cancelled does not run |
| spawned processes (`yorick/spawn.c`, `play/unix/uspawn.c`) | spawn objects, list of children, event table, pre-poll list | `spawn`, a signal, freeing, `u_prechld`, `spawn_callback` | processes write and exit at any time; tables change while they are walked | all that is written is read in order, the end is told, the tables agree |
| interpreter tasks and errors, the rest (`yorick/task.c`) | task stack, catchers, include stack, `ym_state` | `YError`, `CatchScan`, `after_error`, idler | error inside error, suspend and resume | stack consistent after a long jump |
| rest of the interpreter (`yorick/*.c`) | symbol table, stack, open files | parser, operators, binary files, autoload | mostly sequential | - |
| play events (`play/any`, `play/unix`) | alarm list, poll table, pre-poll list, hash tables | `p_set_alarm`, `p_clr_alarm`, `p_on_idle`, `u_event_src`, `u_poll` | callbacks that change the tables being walked | each alarm rings once, in order; callback of the descriptor that is ready |
| play graphics, gist | displays, metafiles | drawing | - | output |
| numerical packages (matrix, fft, hex, drat, regexp) | none | numerics | floating point | accuracy |
| yeti hash (`src/yeti/core/hash.c`) | buckets, `size`, `new_size`, `number` | get, set, pop, next, growth with in-place rehash | interrupt between two steps of a rehash | a finite map |
| yeti, the rest | arrays | convolution, morphology, sparse matrices | floating point | - |
| vmlmb (`src/vmlmb/yorick/optm.i`) | line search stage, step, bounds | `optm_start_line_search`, `optm_iterate_line_search`, `optm_vmlmb` | reverse communication, safeguards | the stages in their order, the step in its bracket |
| ylib, ipy, ynfft, yor-vops, yoifits, mira, mira-sparco, pndrs, yoco | data | numerics, file formats, batch scripts | floating point, formats | - |
| vendored libraries, builds, data | - | - | third-party or generated | - |

How they interact: the interpreter raises an error with `longjmp` through
`YError`; `mpy` hooks `y_errhook` and enters `mpy_recover` from there, before
`after_error` runs. The idler of a rank other than 0 calls `mp_exec`. The same `YError` clears alarms,
the queue of after functions and the task stack. `mpool`
uses
nothing but `mp_send`, `mp_recv`, `mp_probe` and the rank; its channels
and its queue are those of `mpy`. `mpyfile.c` uses `mpy_bcast`. The event loop of
`play` calls the interpreter's idler and signals interrupts, which is what
yeti's hash tables guard against. `vmlmb` is called by `mira` and `ylib`
users as an ordinary function.

The hazards are listed with their lines in `PROJECT.json`; those without a
property say where in the plan they belong.

## Modules

| module | models | role |
|---|---|---|
| `MpyTree` | boss and staff arithmetic | constants `Size`, `Fan`; extended by the rest of `mpy` |
| `MpyCodec` | `mperr_encode`, `mperr_decode`, copy up to NUL | operators; `EncodeDocumented` is the format of the comment |
| `MCCodec` | a control message with two arguments, sent and read | checks `MpyCodec` over chosen sizes |
| `MpyRecover` | `mpy_recover` on every rank, and the part of sends, receipts and `mp_exec` it interacts with | the core of the project |
| `MpyHalt` | abstract specification of a halt | refined by `MpyRecover` (`HaltSpec`) |
| `MpyRound` | - | the invariant of a round of recovery (`RoundInv`) |
| `MpyRecoverProofs` | - | facts about tree and codec; type correctness and `ControlFollowsTree`; what each step does, and `RoundInv` edge by edge, without its sums; for all constants |
| `MpyHaltProofs` | - | the sums of `RoundInv`; `FrankAgreed`, `NetExact`, `NothingLeftToClear`, `QuietWhenRootLeaves`, the assertions modelled (`NeverFatal`) and the refinement of `MpyHalt` |
| `MPool` | `mpool.i`, with the part of `mp_send`, `mp_recv`, `mp_probe` it uses | the job scheduler |
| `JobPool` | abstract specification of a pool | refined by `MPool` (`PoolSpec`) |
| `MPoolProofs` | - | type correctness, `ActiveExact`, `SownIdle`, `JobOnce`, `NothingLeft`, `OthersKept` and the refinement of `JobPool`, for any number of slaves |
| `MpyExec` | `mp_exec`, `mp_send`, `mp_recv`, `mp_handout`, `mp_handin`, collective include, on all ranks at once | parallel tasks; a recovery is one step to what `MpyHalt` promises, and with several faults perhaps the end of the job |
| `MCExec` | the commands of rank 0 | instances of `MpyExec` |
| `MpyExecProofs` | - | type correctness, `NoCrosstalk`, `NothingLeft`, `Synchronizes` and `TotalRight`, for any tree, commands and number of tasks |
| `YorAfter` | the queue of after functions on top of the alarms | the interpreter's timers |
| `YorAfterProofs` | - | type correctness, `ClearedStays`, `SlotsPartitioned` and `RunsInOrder`, for any calls, slots and delays |
| `MCAfter` | `YorAfter` with a narrowed search | for `AfterCleared.cfg` |
| `YorSpawn` | spawn objects, children, event table, event loop, task stack | the interpreter's processes |
| `YorSpawnProofs` | - | type correctness, `TablesAgree` and `PushedInOrder`, for any number of processes; and that the tables agree always if freed records are left as they are |
| `YetiHash` | the hash tables of yeti, store by store, with interrupts | the hash tables |
| `HashMap` | abstract specification: a finite map that an interrupt may damage in one place, and that promises nothing once a count below zero has made an array overrun | refined by `YetiHash` (`MapSpec`) |
| `MCHash` | three keys that collide | instance of `YetiHash` |
| `YetiHashProofs` | - | `TypeOK`, `Placed`, what a lookup returns and the refinement of `HashMap`, for any keys, hash function and size |
| `ListFacts` | - | lemmas on sequences, and on sums over finite sets, that the proofs share |

`MpyRecover` extends `MpyTree` and `MpyCodec`: control messages pass through
the real encoding, so that the bound of 63 on ranks and counts, named by
`SmallAssumption`, is a consequence of the code and not an idealisation.

### MpyRecover and the code

`phase[r]` says in which loop of `mpy_recover`, or where outside it, rank `r` is.
One action is one turn of a loop, from one MPI call that can be influenced by
others to the next: `DrainControl` and `DrainEmpty` are the two outcomes of the
first loop (926-936), `AlertControl` and `AlertEmpty` of the loop that waits for
the verdict (945-953), `TallyControl` and `Report` the wait for id=3
(971-1000), `Complete` rank 0's end (1001-1012), `ClearData`, `ClearControl`,
`ClearEmpty` and `ClearReport` the clearing passes (1013-1043), `AckControl`,
`Acknowledge` and `Leave` the end (1055-1103). `Discard` is
`mpy_get_next(3)` or `(4)` throwing a data message away. The locals keep their
names; `net`, `count`, `tally`, `nid1`, `mid1`, `frank` are the C variables, and
`slots` is `s`, which `TestsomeOf` sets to what `mpy_isend_wait` returns,
including the 0 it returns when nothing has completed.

A call of `mperr_fatal` is `Die`: MPI_Abort ends every process. `Reasons` lists the
assertions that are modelled: those in the loops of `mpy_recover`, in `mperr_to_staff` and in
`mpy_isend_wait`, among them "fault-rank protocol not implemented" (1041). Not there are the
two on how `mpy_recover` is entered, "recursive call to mpy_recover" (915) and "began with
outstanding control irecv" (920), which take an error raised inside `mpy_recover` or inside the
wait of `mpy_send`, such as SIGINT or a failure to allocate (errors are raised by tasks only
here); and the calls that follow a failure MPI itself reports.

Channels are FIFO sequences per ordered pair. `SyncData` and `SyncControl` say
whether MPI completes a send at once or only when it is received; the code must
work for both, and MPI leaves the choice to the implementation. A probe that does
not block may miss a message in transit: where the code calls `MPI_Iprobe`, the
"nothing there" action is always enabled in the drain, alert and clear phases.

Outside recovery a rank sends one message to each of a set of ranks
(`MpSend`), receives, faults and finishes freely: every parallel task is a
behaviour of `Program`. The contents of data messages do not matter.

### MPool and the code

`state` is `_pool.state`. `pc` is where the master is in the loop of
`_mpool_fmaster`; `_mpool_active` is `Active` when it decides by itself, and
`ProbeReturns` or `ScanReturns` when it goes through `_mpool_ready`. Counters
keep their names. The coroutine states 12 and 13 of a job done by the master
itself are one action (`Sow` with `slave = Self`), because nothing can happen
between them. `nmax`, `self` and the presence of a list are variables fixed in
`Init`, so that one run covers several ways to call `mpool`. `Enqueue` lets
arrived messages into the queue whenever the master is in `mp_recv` or
`mp_probe`, one at a time, so that every split of the arrivals is covered.

### MpyExec and the code

Each collective operation is written once, as the sequence of message operations its
code performs on rank `r` (`Down`, `Up`, `Ring`, `Include`, and `Command` for `mp_exec`
itself). Where rank `r` is, is three numbers: the command it runs or waits for (`task`), the
operation of it (`at`, 0 for `mp_exec`), and how many message operations of that are behind it
(`done`); `Plan(r)` is the sequence, `Now(r)` the message operation, `Rest(r)` what comes after it.
`program[r]` is the command as rank `r` has *received* it, `given` is what rank 0 gave. `Advance` goes
on to the next message operation, operation or, through `mpy_idler`, command. The parts that
`mp_handin` adds up are symbolic: `sum[r][q]` says how often the part of `q` is in the sum of `r`, so
that a sum is right exactly if every rank is in it once, whatever the numbers are.
`Send` is `mpy_send`: MPI takes the messages at once, or
`mp_send` waits (`waits`) until all are received. `Get` is one turn of
`mpy_get_next` inside `mp_recv`, which may take a message of any sender, and `Take`
is `mp_recv` finding the first message of its sender in `mpy_queue` (`Oldest`). `Exec` is
`mp_exec` on rank 0; the same on other ranks starts with the receipt of the command,
after which a rank forwards it, acknowledges it and runs it. Messages carry an `id`
that says what they were sent for. No guard and no choice reads it: `Take` looks only
at the id of its *own* operation, to know what to do with the contents, and
`NoCrosstalk` compares the two. `Open` and `Load` are the two halves of
`mpy_on_include`, with a file that is found, missing or unreadable. A fault ends the task. `Recover` is a
whole recovery as one step, to what `MpyHalt` promises and `HaltCorrect` shows of `MpyRecover`. With several
faults a recovery may also end the job (`mpy.c:990`, `RecoverLateAlert`): this is `Abort`, possible
whenever more than one rank has faulted, which a missing file makes all of them do. So `AllReturn` is
"again and again everybody is idle, unless the job has been aborted". Which of the two it is depends on the
order of messages inside the recovery, which is not in this module. A `catch` in a task, and batch
mode, are left out.

### YorAfter and the code

`list` is `ym_after_list`, with `ai`, `ak` and `aj` for `ym_after_i`, `ym_after_k` and
`ym_after_j`, and `next` as in the code, -2 for a slot that waits. `call` is a
history field: which call of `after` the slot holds. `alarms` is the sorted list of
`alarms.c`; a cell of it is a time and the slot that is the context. `tasks` counts
`ym_after_work` on the task stack, all of whose entries are equal. The event loop is
`Ring` (an alarm is due), `RunTask` and `Typed` (a line from the prompt, when there is
no task); between them the running code calls `After`, `CancelAll` or `Cancel`, or
fails (`Fault`, `Runaway`, `BadLink`), which clears the three structures as `YError`
does. A cancellation walks the active list one slot per step (`WalkActive`), taking the
next slot from the field that freeing the present one has overwritten, as the code
does. `Freed` leaves the name in a slot of a function given by name, which
the code also does: the next cancellation by name may match it again. Of the argument of
such a call the name is left if it is a simple variable (`ByRef`), and nothing but a dropped
handle if it was given by value (`Dropped`), so that a request with an argument no longer
matches it. `detoured` is a history variable: since the last error, a request to cancel has
freed an active slot.

### YorSpawn and the code

`os`, `pipe` and `wrote` are the operating system's part; everything else is a
variable of the program. `phase` is where the event loop is: `pre` before the pre-poll
conditionals, `scan` before the poll, `idle` where a task or a line may be run,
`running` while it runs. `table` is `poll_fds` together with `poll_handler`;
`WithoutSource` moves the last entry but leaves `revents` where it was. `Polled` is the
poll, `Served` the search for the first entry with an event, `CalledOut` what
`u_callout` and `spawn_callback` do with it, `Released` is `u_spawf0`. `Kill` is signal
9, which `p_send` treats like an exit, and `LetGo` the freeing of the object.

A record is used after it was freed. When a process ends, `u_prechld` calls the callback, which
frees the record (`p_spawf`, `spawn.c:269`) and then allocates a string, a symbol, a function and a place
on the task stack (275-296); after that `u_prechld` calls `u_spawf0` on the same record (`uspawn.c:231`).
The same happens inside `u_spawf0` itself when it kills a process (signal 9, 183-204). What it finds there
is up to the allocator (`FreedUsed`, constant `Recycles`):

- `main` takes yorick's own (`pmain.c:21`, `mminit.c`). It keeps its link in front of a block, not in it,
  and a list of free blocks for each class of sizes. The record (48 bytes) is of the class for up to 64; what the
  callback allocates is smaller than 32 bytes or larger than 64, or comes in chunks. So the
  record is as it was left, without pid and callback, with descriptors -1 and the same successor. The second
  removal repeats the first: the process is in no list any more, there is no callback to call, and the
  descriptors that `u_spawf0` still has are closed a second time, when nothing has been opened
  since. `~Recycles` is this, and one removal stands for both.
- The default of `p_malloc` (`mm.c`), which a program without `p_mminit` gets, is the C library's, which may
  write into what is freed. Then nothing can be said: `phase` is "spoiled", and the
  process is not followed. `Recycles` allows both outcomes, so that the run covers the first as well.

A process that is let go of (`LetGo`) is not affected, since `spawn_free` forgets the record before
the callback would free it. `process=[]` kills the process, although the doc says that it goes on if it
can do without its pipes (`i0/std.i:5579-5589`); `LetGo` is what the code does.

### YetiHash and the code

A step lies between two stores to the table, because SIGALRM may abort the task
there, a second after SIGINT (`play/unix/handler.c`). `bucket[i]` is a
list, `hand` the entry that is in none while `rehash` or `h_pop` moves it, `after`
where `rehash` returns to. `Home` and `Target` are the index for the present and the
new size. The three stores of a growth (array, `new_size`, free) are one step: an
interrupt between the first two leaves the larger array with the old size, which is
the table before the growth for every operation. In the run the smallest size is
2 (32 in the code), so that three keys make the table grow twice, and `Word` is 16
(2^64 in the code): counts up to three and a few more are positive as a `long`, and a count that an interrupt
has made too small and `h_pop` brings below zero wraps. The calls that only
read the lists see the entries by list and place (`Found`).

`h_keys` and `h_stat` make an array with the count, or the count and one, as its dimension, a `long`
(`AsLong`). If that is negative, or 0 for `h_stat`, the smallest array is made and written beyond its end:
`NewArray` clears a negative number of bytes, and the first loop of `h_stat` sets as many elements as a
`size_t` can count, so that it never gets to the line that repairs the count. `ListKeys` and `Stat` are the calls
where the dimension is right (`KeysFit`, `StatFits`), `Overrun` is the others: `pc` is "overrun", and what the process
does after that is not modelled.

## Runs

| run | bounds | asks | result |
|---|---|---|---|
| `RecoverRounds` | 3 ranks, 3 data messages, one faulting rank per round, at most two rounds (of the three messages `mp_exec` takes two); sends complete early | `TypeOK`, `QuietWhenRootLeaves`, `NetExact` | holds |
| `RecoverSync` | 4 ranks (3 levels), 1 message, 1 fault; sends complete on receipt; fairness | `NeverFatal`, `Recovers` | holds |
| `RecoverTwo` | 4 ranks, 1 message, 2 faults, rank 2 catches | `ControlFollowsTree`, `FrankAgreed`, `NothingLeftToClear`, `RoundInv`, `HaltSpec` | holds |
| `Codec` | arguments of both signs, 22 sizes around the boundaries of the format | `ShortMessageArrives`, `DocumentedFormatReads` | holds |
| `Pool` | 3 slaves, nmax 2, 4 jobs, self and list on and off, 2 foreign messages which `FREAP` may take; fairness | eight properties of the pool | holds |
| `Hash` | 3 keys that collide, 1 value, sizes 2 to 8, count modulo 16, 2 interrupts; fairness | `TypeOK`, `Placed`, `MapSpec`, `CallEnds` | holds |
| `After` | 3 calls of 2 functions (one by name) in 2 slots, delays 0 and 1, 2 cancellations or errors; fairness | `TypeOK`, `SlotsPartitioned`, `ClearedStays`, `RunsInOrder`, `EveryCallRuns` | holds |
| `Exec` | 4 ranks (3 levels), 2 tasks: a hand-in and a hand-out, a ring, an include; fairness | `TypeOK`, `NoCrosstalk`, `Synchronizes`, `NothingLeft`, `TotalRight`, `AllReturn` | holds |
| `Spawn` | 2 processes of 2 chunks each, freed records left or overwritten (`Recycles`); fairness | `TypeOK`, `TablesAgree`, `PushedInOrder`, `EndIsTold`, `TextIsRead` | holds |
| `RecoverLateAlert` | 3 ranks, 2 faults | `LateAlertDiscarded` | violated |
| `PoolStale` | 2 slaves, list, 2 foreign messages | `CycleRepeats` | violated |
| `SpawnOutput` | 1 process, 2 chunks | `OutputComplete` | violated |

Why these bounds. With fan-out 2, three ranks have two staff ranks of one boss,
which is what crossing alerts and sums need; rank 3 of four ranks is on a third
level, so that a rank both reports and collects, and forwards an alert it did
not raise. Three messages let one be in transit, one be in a queue and one be
dropped while it is being counted; a second fault is enough for alerts to meet
a verdict. Two of three slaves in use leave one that is never
sown to and is still shut down; four jobs let each used slave be reaped and sown
again; two foreign messages can stand before and behind a result. The values for
`Codec` lie on both sides of 2^6, 2^7, 2^12, 2^13 and 2^20, multiples of 64 among
them. The codec is unrolled to four bytes.

For `Hash`, three keys share a list until the table has grown twice, when two of them
have moved together and one has stayed, so that an entry moves within a list from
which others move too; the second interrupt meets a table the first one has torn. For
`After`, the third call makes the array grow or run away, finds a slot freed before,
or ties with another; functions by name and by reference leave different things in a
freed slot; and the second cancellation or error meets what the first has left. For
`Exec`, with fan-out 2 rank 1 has a staff and a boss, rank 3 is a leaf two levels
down, and the second task lets a rank be one task ahead of another. For `Spawn`, two
processes let the last entry of the table take the place of the first, and a second
chunk stays in the pipe when the first is read.

`RecoverRounds`, `RecoverTwo` and the other `MpyRecover` runs start when a parallel
task is running everywhere, right after the acknowledgement of `mp_exec`. With one
rank allowed to fault per round, `faulted` is emptied when rank 0 leaves, and a second
round starts from the states the first one left; a third would take more messages than `MaxSends`.

Deadlock is checked for `MpyRecover`, except where a violation or a refinement
with a catching rank may stop: `Rest` lets the system stay where it is only when
no rank is inside `mpy_recover` or the job was aborted, so that a recovery that
cannot continue is a deadlock. The pool's `Ended` is its only stuttering;
`CHECK_DEADLOCK FALSE` is set because a result hidden by a stale `nignore`
stops it, which `PoolEnds` and `PoolStale` treat. `After` and `Exec` stop when the calls,
the clock or the tasks of the bound are used up. `Hash` and `Spawn` stop where the process is not
followed any further, in "overrun" and "spoiled", and nowhere else.

`SlotsPartitioned`, `RunsInOrder` and `EveryCallRuns` speak of the time before something
was cancelled while slots were there to be freed twice (`spoiled`), because after that
none of them holds (below). `ClearedStays` is weaker in what it says and stronger in where it
holds: errors may spoil the free list, and so may requests that free all slots or waiting ones;
only a request that has freed an active slot since the last error is excepted (`detoured`).

### What the violations show

1. `RecoverLateAlert`: the protocol comment says a boss discards an alert that
   comes after it passed on the verdict (`mpy.c:848`). The loop that waits for
   id=3 aborts the job instead (`mpy.c:990`). Two faults close in time suffice.
   `NeverFatal` holds with one fault only; with more, this assertion is the only one of
   those modelled that can fail (both proved, for jobs of up to 63 ranks and messages).
2. `PoolStale`: `nignore` is stale when `FREAP` itself receives a message that
   was counted; the result behind it is not seen, and the master waits for ever.
3. `SpawnOutput`: the exit of a process is looked for (`u_prechld`) before what it
   wrote is; what is still in the pipe is then closed away. Moreover the tasks are
   a stack (`task.c:253`), so that two chunks read in one round of events are
   handed to `on_stdout` in reverse order. `PushedInOrder` says that they are
   *asked for* in order, whatever happens.

### Further counterexamples

These configurations are not runs of `PROJECT.json`. Each gives a short
behaviour with `tlc -config X.cfg M`.

| configuration | module | violates | what happens |
|---|---|---|---|
| `RecoverCaught.cfg` | `MpyRecover` | `Recovers` | a `catch` of category 8 takes the error a control message raises before the hook that starts recovery (`task.c:1668` before 1758); its boss waits for ever |
| `RecoverIsend.cfg` | `MpyRecover` | `NoIsendAfterRecovery` | `mpy_isend_wait(s,1)` returns 0 when nothing has completed (`mpy.c:767`), and the assertion at 1051 that no isend is left does not look |
| `CodecLong.cfg` | `MCCodec` | `MessageArrives` | the 128 bit of the comment at `mpy.c:1167` is never set; from 64 on the receiver reads another number. `DocumentedFormatReads` shows that the documented format would be read, but for positive multiples of 64 |
| `PoolNmax.cfg` | `MPool` | `SlaveExists` | `nmax` above the number of slaves, without `list` (`mpool.i:252`) |
| `HashPop.cfg` | `MCHash` | `PopFinds` | `h_pop` does not resume a rehash that an interrupt has stopped, and may miss a member ("Pop member KEY out of hash table TAB", `src/yeti/core/yeti.i:1184`) |
| `HashCount.cfg` | `MCHash` | `NoOverrun` | "at most one entry could be lost in this case" (`hash.c:971`): an interrupt between the link of an entry and its count (`hash.c:998-1001`), and a pop of the entry, make the count -1; `h_keys` or `h_stat` then writes outside its array (`hash.c:465`, 551-555) |
| `SpawnFreed.cfg` | `YorSpawn` | `FreedIntact` | `u_spawf0` uses the record its callback has freed (`uspawn.c:231`, 183-204); with an allocator that overwrites it, nothing holds after that |
| `AfterCancel.cfg` | `YorAfter` | `CancelledNeverRuns` | "all pending after callbacks with the given F are cancelled" (`i0/std.i:5690`), but a waiting call with an argument is not: the `&&` of `task.c:514` |
| `AfterEarly.cfg` | `YorAfter` | `NeverEarly` | the alarm of a cancelled call rings for the new call in its slot, earlier than "at least SECS seconds from now" (`i0/std.i:5671`) |
| `AfterLost.cfg` | `YorAfter` | `NoCallLost` | cancelling all frees the free slots again, which makes the free list a cycle; two calls then get one slot |
| `AfterCleared.cfg` | `MCAfter` | `ClearedNeverRuns` | an error clears a call and makes the free list a cycle; the loop of a later request to cancel goes on along it (`task.c:499`) and links an active slot to the one of the cleared call, which then runs |

With the same cause as `AfterLost`, the loop of a cancellation over the active list may
go round the free list for ever (`task.c:499`), and a cancelled call whose task is
already pushed leaves a task that finds no function ("(BUG?) bad link in
_after_func"), which is an error that clears everything else.

### Fairness

`FairSpec` of `MpyRecover`: weak fairness of the completion of `mp_send`, of attending
to a message that has arrived, of each rank's steps inside `mpy_recover`, and of rank
0's decision. It stands for three things: processes run, MPI delivers what was sent,
and every rank calls `mp_send`, `mp_recv` or `mp_probe` again, which the README
of mpy names as its precondition. No fairness for the program: a task need not send,
fault or finish, nor rank 0 start a task. `FairSpec` of `MPool`: weak fairness of the
master and of each slave. The master's steps are one fairness condition, since it is
one process; FSOW ends after `MaxJobs` jobs. Nobody outside the pool need send, and
FREAP need not receive from them.

`FairSpec` of `MpyExec`: weak fairness of the steps of each rank, of rank 0 opening the
file, and of the recovery; nothing obliges rank 0 to give a command. `FairSpec` of
`YorAfter`: the clock goes on, and the event loop with it, alarms before tasks as in the
code; the user need not do anything. `FairSpec` of `YorSpawn`: the event loop goes
round, one fairness condition for one thread, so that the order in which it serves is the
code's and not assumed; processes need not write or exit, but a process that writes
again and again cannot keep the loop from the others for longer than its bound of
chunks. `FairSpec` of `YetiHash`: a call goes on until it returns or is aborted.

## Proofs

The proofs about `mpy` are for arbitrary `Size`, `Fan`, `MaxSends`, `MaxFaults`, `Faulters`, `Catchers`,
`SyncData`, `SyncControl`, from the assumptions the modules name
(`SizeAssumption`, `FanAssumption`, `BoundsAssumption`, `SmallAssumption`).

`MpyRecoverProofs`: `BossIsLower` and `StaffInvertsBoss` are integer arithmetic on
`(r - 1) \div Fan`; `StaffCopiesAgree` compares the three ways the code computes a
staff; `CarriedIsShort` and `CarriedIsFaithful` say that whatever is sent, a
magnitude below 64 is read, and that such a number is read as sent. The recovery
needs the first, without which a garbled argument could have any value, and the second for
ranks and counts.

`TypeCorrect` is `Spec => []TypeOK`. `FlowCorrect` is
`Spec => []ControlFollowsTree`: control messages travel only along edges of the
tree, in the direction of their id. The property is not inductive by itself, since
what a rank in the drain loop sends to its boss is the message it received last; the
invariant is

    FlowInv == TypeOK /\ ControlFollowsTree /\ AlertKept

where `AlertKept` says that a rank in the drain loop that has met no verdict yet
(`id0` is 1) has an alert in `mperr_msg`. Each action
has a step, and those that send use one of the lemmas about `Sent` and
`StaffInvertsBoss` to place the message on its edge.

`MpyRound` has the invariant from which all the other safety properties of the recovery
follow, and `RecoverTwo` checks it:

    RoundInv == LocalInv /\ EdgeInv /\ DataInv /\ FrankInv /\ WaveInv
                /\ CreditInv /\ PendingInv

`EdgeInv` is the conversation on one edge of the tree, from a rank `s` to its boss: they are
`Apart`, or `s` is being `Told` the verdict or `Aware` of it, or it is `Reporting` with its id=3 on
its way, or the boss is `Counting` on it, or both are `Clearing`; each says in which phases the
two ranks may be and what the two channels between them may hold, in which order. Whatever
holds for the whole tree is an induction from boss to staff (`TreeInduction`): when rank 0 has
all reports, every rank is in the clearing passes (`AllQuiescing`); when a rank knows the
verdict, it knows the one of rank 0 (`OneFrank`); a rank that has passed on id=5 has it from
rank 0 (`RootAck`). `FrankInv` follows the number of the fault rank through messages and locals,
`WaveInv` says that there is nothing but id=5 and id=6 once rank 0 has sent id=5.

`CreditInv` is the sum. It is not about counters but about shares: there are
`S` and `V` such that `S[r]` of the messages sent, and `V[r]` of those received, are on the account
of `r`. A rank that sends or receives enters it on its own account; id=3 moves the account of a whole
subtree to its boss, id=4 moves what was dropped since; and `AccountOf` says what the counters
of a rank are in terms of its account, phase by phase. In `clear` every account but that of rank 0 is
settled, but for what is still on its way, and all shares together are the messages sent and
received (`RootCount`). This is `NetExact`, and when the count is zero nothing is left anywhere
(`PassSettled`), which is what the step to `WaveInv` needs. That the counts fit into the codec
(`AmountShort`) follows from the accounts too, with `SmallAssumption`.

`MpyRecoverProofs` first replaces each action by what it does to the state the invariant speaks of
(`Does`, 20 kinds of steps, and `Alone`: other ranks and channels are left as they are), and
then shows every part of `RoundInv` but the sums for each kind. `MpyHaltProofs` shows the sums;
`RoundCorrect` is `Spec => [](FlowInv /\ RoundInv)`. `AgreedCorrect`, `ExactCorrect`, `ClearedCorrect` and
`QuietCorrect` are `Spec => []FrankAgreed`, `[]NetExact`, `[]NothingLeftToClear` and
`[]QuietWhenRootLeaves`, for any number of ranks and faults, with catches, with sends that complete
early or late, and for jobs that go on when a second alert would have aborted them. `HaltCorrect` is
`Spec => HaltSpec`, the whole refinement of `MpyHalt`: a rank joins in the step that enters
`mpy_recover` (`HaltEarly`); the report of rank 0 is the step after which everybody has joined
(`HaltKnown`); then messages are thrown away (`HaltClears`), and each rank but rank 0
returns with its id=6 (`HaltReturns`).

The last two theorems are about the assertions in `Reasons`, in jobs of up to 63 ranks and messages
(`SmallAssumption`). `OnlyLateAlerts` says, for any number of faults, that one of them
alone can fail: the one at `mpy.c:990`, in a rank that waits for the reports of its staff and gets
an alert (`StepSurvives`, which goes through all of them with what `EdgeInv` says of the
head of a channel). For two of them more is needed, `AssertInv == RequestInv /\ PassInv`: what
`mpy_recover` believes to be in the table of requests is there or it does not ask (`Known`), and id=5 always
comes with n1=0, so that the fault-rank protocol is never asked for. So item 1 of "What the violations
show" is the only way in which one of these assertions fails in such a job. It is not the only way in which the
protocol goes wrong: with a `catch` it may not end (`RecoverCaught.cfg`), and in larger jobs the counts may be
garbled (`CodecLong.cfg`), of which the theorems say nothing.
`NeverFatalCorrect` is `Spec => []NeverFatal` with `MaxFaults <= 1` as hypothesis, one fault from
a parallel task to the return of rank 0, any number of such rounds. It needs one more invariant,

    OneAlert

of `MpyRound`, on top of `RoundInv`: the fault has raised one alert, which is in one place, in
`mperr_msg` of a rank or on one edge, and is gone before rank 0 sends its verdict; so that no rank
can wait for reports while it is about (`RootJudging`). The step that needs most is the one
that lets rank 0 decide: the alert in its own hand was the only one (`AlertFrom`, `RootDecides`).

`YorSpawnProofs`: `SpawnTypeCorrect`, `TablesCorrect` and `OrderCorrect` are
`Spec => []TypeOK`, `[]TablesAgree` and `[]PushedInOrder` for any set of processes,
any `MaxChunks` and either kind of allocator, from `SpawnConstants`. `TablesAgree` is claimed until a freed
record that was overwritten is used; `TablesAlwaysAgree` is `~Recycles => (Spec => [](FreedIntact /\ Agree))`, so
that with yorick's own allocator the tables agree in every state. The invariant is

    SpawnInv == TypeOK /\ Agree /\ Fresh /\ Conserved /\ PushedInOrder

`Conserved` is the reason for the order: of a process that is linked, what was pushed
and what is in the pipe are together what it wrote, numbered through. `Fresh` says that
a process not yet spawned has left no trace. `Agree` is needed by both, since
only the uniqueness of entries makes "the entry of p" and "the place of p" well
defined when one is removed. The lemma `RemoveAtProperties` of `ListFacts` says what is left of a
sequence, and `PlaceGivenUp` what is left of the two tables.

`YetiHashProofs`: for any `Keys`, `Hash`, `MinSize`, `Word` and any number of interrupts, from
`HashAssumption` and `KeysAssumption` (there is no memory for as many entries as a `long` can
count, so that the entries `h_stat` finds are counted right and fit the array). `TableTypeCorrect` is `Spec => []TableTyped`, `PlacedCorrect` is
`Spec => []Placed`, and `LookupCorrect` says that `h_find` returns the value of a key exactly
if the key is in some list, with rehashes interrupted anywhere before. The invariant is

    HashInv == TableTyped /\ Once /\ InPlace /\ Passed /\ CallTyped /\ AtRest /\ Sized /\ Absent

`Once`, `InPlace` and `Passed` are the parts of `Placed`. That an entry is not linked twice
needs `Absent`: the entry in the hand of `rehash` is in no list, and neither is the key that
`h_insert` has not found while the array grows under it. That a lookup may use the present
size needs `Sized`: past the test at the head of `h_find` no growth is pending. `Passed` gives
the step where `size` becomes `new_size`: by then every list has been passed. `DroppedIs` and
`HeadedIs` say what is in the lists after an entry has left one or entered one.

The second part, on top of it: `HashTypeCorrect` is `Spec => []TypeOK`, and `MapCorrect` is
`Spec => MapSpec`, the whole refinement of `HashMap`, by one lemma for every kind of step. The
invariant is `FullInv == HashInv /\ OpInv /\ ScanInv /\ CountInv`. `OpInv` says what the call in
progress is and has done: `h_insert` has a value to store and has let go of the old one, the
entry `h_pop` has in hand is in no list, and a call that changes the table goes with the end of
any scan. The abstract map has the entry in hand, and the new value between the two stores of a
replacement, so `AbortMaps` is where an interrupt costs one entry, one value or one count.
`ScanInv` is what the promise of `h_first` and `h_next` rests on: while the scan is sound, no
growth is pending, and the keys given are those of the entries up to one place of one list
(`Upto`); `NextPlace` says that `h_next` goes on at the place that follows in this order, which
`FromListNext` proves for the next list that is not empty. `FoundIs` counts the entries, each at
one place by `Once`. Where an array is overrun the abstract map stops with it: `OverrunMaps` shows that the
step is the one `HashMap` allows, for a count below zero, `OnlyOverrun` that no other step leads there.

`YorAfterProofs`: `AfterTypeCorrect` and `ErrorsAreFinal` are `Spec => []TypeOK` and
`Spec => ClearedStays` for any functions, arguments, delays and any size of the array, from
`AfterConstants`. After an error the names of cleared calls are still in the slots, the free
list may be a cycle, and an active list that led into such a slot would run it. The invariant is

    TypeInv /\ Apart /\ StaleIsSilent

`Apart` says why it does not: an error relinks the array from its first slot, so that new
calls use it from its start. From some slot on the array is unused since and linked in order;
the slots that still hold a cleared call (`Stale`) are all there, and what is in use, freed
slots and active ones, is in front of it, in two disjoint sets. The free list leads out of
its set only to the first unused slot, the active list nowhere, and a rank of the slots in use
goes down along the one and up along the other. So the cycle closes only when no unused slot
is left, and with it no cleared call. `StaleIsSilent`: no alarm will ring for a slot of a
cleared call. A request that frees active slots breaks the disjointness, as
`AfterCleared.cfg` shows.

`AfterPartitions` and `AfterInOrder` are `Spec => []SlotsPartitioned` and
`Spec => RunsInOrder`. Neither property is inductive: that the active list ends where `ak`
says, that it agrees with the tasks, and that its calls are those that were due first, hold
only together. The invariant `LineInv` says that, unless something has been cancelled, the slots
in use stand in one line `U` and the others in one list `F`: the first `tasks` of `U` are
linked from `ai` to `ak`; the rest are the slots of `alarms`, in that order, each with
the time of its call; `F` is linked from `aj`; the calls of `U` are those that are neither run
nor cleared, each before the next by time and number, and the active ones are due. Then a step is
one change of the line: `Ring` moves the boundary between tasks and alarms (`RingLine`), `RunTask`
takes the first of `U` and puts it before `F` (`RunTaskLine`), `After` takes the first of `F`, or
lengthens the array, and inserts it in `U` behind all that are due no later
(`AfterFree`, `AlarmPlace`, `AfterLine`), and an error that finds no slot free gives all of
them to `F` (`ClearedLine`). That `Chain` returns such a list (`ChainIs`) is what the
definition of `SlotsPartitioned` needs; `Chain` is a recursive function, and that there is only one
such function is shown by the least place where two would differ (`MetOnce`).

`MPoolProofs`: `PoolTypeCorrect`, `CountCorrect` and `IdleCorrect` are `Spec => []TypeOK`,
`[]ActiveExact` and `[]SownIdle` for any number of slaves, any ranks outside the pool, any
arguments of `mpool`, any number of jobs and messages and any order in which they come, from
`SlavesAssumption`, `ForeignAssumption`, `BoundsAssumption` and `ArgsAssumption`. The invariant is

    PoolInv == TypeOK /\ OnlyPool /\ Where /\ Knowing /\ Working /\ Single /\ Selected /\ Counted

`Single` is the heart of it: the messages to and from a slave, the job in its hands and its
results in the queue are together at most one. `Counted` is `ActiveExact` at every place of
the loop: `nactive` counts the slaves that have something (`Busy`), one more between
a choice and its sow (`Promised`), one less between a choice and its reap when no more jobs
are to come (`Released`). `Selected` says that the slave chosen is the right one, `Where` which
states go with which place. A step that only passes something on leaves the loads as they are
(`Moves`); the lemma `LoadChange` and those on `From` say so of channels and queue.

The second part, on top of it and from the same assumptions: `EachJobOnce` and `CleanReturn`
are `Spec => []JobOnce` and `[]NothingLeft`, and `PoolCorrect` is `Spec => PoolSpec`, the whole
refinement of `JobPool`. The invariant is `PoolInv /\ JobInv`, where `JobInv` says

    reaped \subseteq Jobs
    pc # "error" => Placed /\ Answers /\ Outstanding /\ Stopping /\ SelfAllowed
    pc = "done" => collected = NSlaves

`Placed` is `JobOnce` with the jobs not yet defined, which are nowhere. `Alone` splits the one
place of a job into the six kinds of places, so that a step has to say only which job it moves
from where to where (`JobMoved`, `JobAdded`); a message that leaves the queue moves those behind
it, and their jobs with them (`PlaceShifted`). `Outstanding` says that as many jobs are in hand as
slaves have something, and one more while the master has a result of its own: this and `Counted` make
`nactive <= nmax` the bound on the jobs in hand that `JobPool` asks for, and `nactive = 0` the
proof that all are assimilated when the shutdown is sent. `Stopping` follows the shutdown from
there to the last timings. `JobOnce` excepts a job sown to a rank that does not exist
(`SlaveExists`, `PoolNmax.cfg`): it is lost with the call of `mp_send`.

The third part: `OthersLeftAlone` is `Spec => OthersKept`, from `PoolInv`. A step
carries the messages from outside over if there is a map from their places before it to
their places after it that keeps the messages and their order, and whose image comes before any
new ones (`Carried`). Only `Enqueue`, `Reap` and `Collect` change the queue without `FREAP`'s own
receipt; what the last two take is from the rank they ask for, and `PoolInv` has that
this is a slave whenever they do.

`MpyExecProofs`: `ExecTypeCorrect`, `NoCrosstalkCorrect`, `NothingLeftCorrect`, `SynchronizesCorrect` and
`TotalRightCorrect` are `Spec => []TypeOK`, `[]NoCrosstalk`, `[]NothingLeft`, `[]Synchronizes` and
`Spec => TotalRight`, for any `Size` and `Fan`, any set of commands (sequences of collective
operations) and any `MaxTasks`, with sends that complete at once or on receipt, with recoveries (one step here) and aborted jobs,
from `SizeAssumption`, `FanAssumption` and `ExecConstants`. Messages do not say what they are for, so
the argument has to give them a meaning. It starts with the plans alone, without any state: `Act`
says that a plan has a message operation with a given peer and id, `OneSend` and `OneReceive` that
there is at most one between two ranks in one operation, and `Matched` that each send to a rank has a
receipt on that rank, and the other way round. The invariant is

    Inv == Typed /\ (\A r \in Rank : Placed(r)) /\ (\A s, r \in Rank : Stream(s, r))

`Placed` says that a rank that runs something has received the right command, that rank 0
is at most at its last one, and that only a send waits. `Stream(s, r)` is about what is on its way from `s` to `r`, in
the channel and in the queue of `r` together: it is `Sorted` by operation; every message of it
is `Due`, that is sent for an operation whose receipt still lies before `r`; and the two are `Kept` together:
what `s` has sent and `r` not received is on its way, and `r` has received nothing that `s` has not sent.
So the first message of the stream is the one of the earliest operation the receiver has not been through, and this is
`NoCrosstalk` (`ComingIs`). When all are idle every receipt is behind its rank, nothing is due, and
this is `NothingLeft`. Each action has one lemma for the stream it changes (`GetStream`, `TakeStream`,
`SendStream`, ...), and `SameStream` for all others.

`MetInv`, on top of it, goes up the tree. `Learnt`: an acknowledgement or a part on its way is from a rank
that has reached the operation, and the part is that of its whole subtree; `Heard` the same of
what has been received; `Added` that the sum of a rank has its own part and those of the subtrees
of the staff it has heard from; `Spread` that an operation a rank has reported, its staff has reported before.
`Subtree(r)` is the least set with `r` that is closed under staff. That the subtree of rank 0 is
everything (`SubtreeRoot`) needs no induction over the tree: the least rank outside it would have its
boss, a lower rank, inside (`BossBelow`). That the subtrees of two of a staff are
disjoint (`SubtreesApart`) is why no part is added twice.

Only model-checked: whole control messages (`MCCodec`; for one number below 64 there is `CarriedIsFaithful`);
and all liveness, which the prover does not handle.

## Not modelled, and why

In `mpy`: batch mode (a fault aborts the job, there is no recovery); texts and
tracing; failures MPI itself reports; errors raised inside `mpy_recover` or inside the wait of
`mpy_send` (`mpy.c:915`, 920); what a rank would do on the fault-rank requests id=5 n1=1 and 2, which
the code does not implement (it never sends them, and has an assertion for them); receipts by MPI of another message than the one probed
(`mpy_get_next` receives from any source after probing); the table of requests of several
sends under way, and the cancelling of the control receive when a message to oneself
ends it; `mpy_on_launch`; `mpool_test`, timers and statistics. Numbers above 64*128^3 in the codec. In the interpreter and play: the
function given to `set_idler`, `suspend` and `resume`, errors inside the handling of an
error, the include stack; timeouts of the poll, sockets, `on_stderr` of a process (a
second source that is served like the first), and `p_clr_alarm` with an argument, which
nothing modelled here calls. In yeti: the eval methods, `h_copy`, symbolic links and tuples,
which hold no state that a step could leave half changed. `YorAfter` and `YorSpawn` are two
views of one event loop and one task stack and are not composed: alarms are asked for before
tasks and after events, and the calls of either push tasks that only they consume. In the rest:
floating-point numerics, graphics and formats, for which a model checker has nothing to
add, and third-party code.

## What is left

1. `MpyExchange`: `mpy_get_next` in two steps (probe, receive from any source), the
   request table of `mp_send`, `mpy_control_irecv` in its steps; abstract: one FIFO
   sequence per pair. Run: 2-3 ranks, the cancel race.
2. More of `MpyRecover`: `mid1` against the number of faults; order of alerts. `MpyExec` and
   `MpyRecover` as one module, so that `Recover` of the former is no longer a single step.
3. The stage machine of the line searches of vmlmb (`src/vmlmb/yorick/optm.i`), over an
   order instead of floating-point numbers. Its default of `smax` is
   `1/(2+2*ftol)` (line 480), where the documentation has `1/(2-2*ftol)` (line 411).
