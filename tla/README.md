# Formal model of hackriff's concurrent core

hackriff is a software-defined-radio station: a receiver front end feeds one
stream of complex samples into RAM, and everything else (detection, history,
decoding, recording, streaming to clients, plug-ins) reads from there. The
project in this directory models the parts of that program whose correctness
depends on the order in which threads, callbacks and failures meet, checks them
with TLC on small instances and proves the central results with TLAPS for every
instance. Paths below are relative to `src/`.

## The system

| Component | State | Operations | Hard behaviour |
|---|---|---|---|
| Ring (`crates/hk-core/src/ring/mod.rs`) | sample cells, record slots, four counters, provenance table, `closed`, waiters | push, reader, reader_at, read, read_timeout, read_until, shed_to_latest, drop | lock-free overwriting under readers; exact loss accounting |
| Trigger extraction (`ring/extract.rs`) | one cursor per window | TriggerStream::read, PreTriggerCapture | windows that begin in the past and end in the future |
| Transfer pool (`source/hackrf/pool.rs`) | buffers, a free and a filled index queue, a waiter slot | on_transfer, take, wait, Taken's drop | the callback must never wait; no lost wake-up |
| HackRF source (`source/hackrf.rs`) | radio settings, discard threshold, next index, time anchor | next_block, apply_pending, settle, stop | a change lands while transfers are queued and in flight |
| Control mailbox (`source/mod.rs`, `source/hackrf.rs`) | pending tune/gain request and its reply | post, apply, reply | control thread against capture thread |
| Flow gate (`hk-pipeline/src/gate.rs`) | one claim per reader, a holding count | register, set, drop, wait_for_block | lossless replay: the writer waits for the slowest reader, readers register late |
| Runtime (`hk-pipeline/src/run.rs`, `capture.rs`, `control.rs`) | thread set, stop flag, window | start, stop, window timeout, capture error | orderly shutdown under partial failure |
| Recorder and playback (`hk-pipeline`) | queue of jobs, seek position | enqueue, drain, seek | back-pressure |
| Publisher (`hk-stream/src/publisher.rs`) | per-consumer bounded queue, drop counts | publish, attach, detach, drain | drop rather than block |
| On-demand sessions (`hk-stream/src/ondemand.rs`, `gate.rs`) | session end slot, admission count | open, end, evict | the first end reason wins |
| Plugin host (`hk-plugins/src/host.rs`) | child process, backoff, health | start, supervise, restart, stop | crash loops and hangs |
| IQ buffer (`hk-store/src/iqbuffer.rs`) | segment files, journal, seals | append, seal, evict, recover | crash recovery |
| Scheduler (`hk-core/src/scheduler`) | queue of tuning work, current dwell | submit, step, preempt, resume | preemption and verification of a retune |
| Live control, scan, device gate (`hk-api`) | owner of the radio | acquire, release, take over | two owners |
| Alarms (`hk-context/src/occupancy/alarm.rs`) | alarm per band | raise, hold, clear | hysteresis across restarts |
| Tracker (`hk-detect/src/track/tracker.rs`) | tracks | associate, coast, drop | identity |
| Synthesis jobs (`hk-pipeline/src/synth/jobs.rs`), model host (`hk-ml/src/host.rs`) | job queues | submit, run, cancel | back-pressure |
| Stores, API, UI | files, database, caches | | mostly data transformation |
| DSP, demodulators, classifiers, GNSS | | | numeric, judged by signal tests |

How they meet: the capture thread is the only writer of the ring. Detection,
history, the spectrum and the survey each own a reader; recorders, decoder
chains and the disk buffer attach further ones while the program runs. Readers
share nothing with one another and never slow the writer, except under the flow
gate in a lossless replay. The control thread and the scheduler retune through
the mailbox; each retune changes the provenance handle pushed with the blocks.
Chains hand their output to publishers; plug-ins are chains in a child process.

### What makes each part correct

- **Ring.** A lookup never returns a record, a sample or a provenance handle that
  another block's push was writing; the writer never waits; each stream index is
  accounted once, as read, lost, shed or a source gap; the close is always seen.
- **Trigger extraction.** A window delivers every retained sample of its range
  once, in order, and says when it is truncated.
- **Transfer pool.** Each buffer has one holder, every accepted transfer reaches
  the capture thread whole and in order, the USB callback never waits.
- **Control mailbox, HackRF source.** The radio ends with what was last asked;
  no block mixes two settings; every sample taken is delivered or counted as
  lost; changes are flagged; block times do not go backwards.
- **Flow gate.** A claimed sample is never overwritten; capture and readers never
  wait for each other.
- **Runtime.** Every thread ends after stop, an error or the window's end, and
  nothing is pushed after the ring closes.
- **Publisher.** Per consumer: records enqueued + dropped = offered, each run of
  drops is announced by one marker at its place, a closed consumer is drained.
- **On-demand.** One end reason per session, the first; admissions never exceed
  the limit and are all given back.
- **Plugin host.** At most one child; no start after stop; a hang is detected and
  a live child is not killed for one; a crash loop is given up.
- **IQ buffer.** After a crash at any point, what is served is exactly what was
  written at its index, and never below the floor.
- **Scheduler.** A pre-empted hop is resumed or closed, never lost; dwell time is
  spent once.
- **Device gate.** One owner; a timed-out waiter leaves no trace.
- **Alarms.** An open alarm is extended, never duplicated, across restarts.

The hazards behind these, with their lines, are the `hazards` of
`PROJECT.json`. The main ones of the components not modelled are listed there too,
with the module that is to cover them.

## Modules

| Module | Models | Depends on |
|---|---|---|
| `RingLog` | the ring's writer as readers see it: a log of blocks and four counters, moved by the four visible steps of push | |
| `RingSeqlock` | the ring atomic by atomic; implements `RingLog` | `RingLog` (INSTANCE) |
| `RingSeqlockInv` | its inductive invariant, in named parts | `RingSeqlock` |
| `RingSeqlockProofs` | the proofs: records, samples, the refinement, handles and the table | `RingSeqlockInv` |
| `RingReader`, `RingReaderProofs` | one reader's cursor and accounting; the proofs | `RingLog` (EXTENDS) |
| `TransferQueue` | what the pool promises: a FIFO of whole transfers that drops at the door | |
| `TransferPool`, `TransferPoolProofs` | `pool.rs`, atomic by atomic; implements `TransferQueue`; the proofs | `TransferQueue` (INSTANCE) |
| `HackRfSource`, `HackRfSourceProofs` | control threads, mailbox, capture thread, radio; the proofs | `TransferQueue` (EXTENDS) |
| `FlowGate`, `FlowGateProofs` | the gate, the capture loop, readers and chains; the proofs | `RingLog` (EXTENDS) |
| `Publisher`, `PublisherProofs` | `hk-stream/src/publisher.rs`: one stream's fan-out to its consumers; the proofs | |
| `CaptureLog` | what the disk ring promises: samples leave oldest first, seals survive a crash | |
| `IqBuffer`, `IqBufferProofs` | `hk-store/src/iqbuffer.rs`: slots, journal, checkpoints, clips, crashes and recovery; implements `CaptureLog`; the proofs | `CaptureLog` (INSTANCE) |
| `PluginHost`, `PluginHostProofs` | `hk-plugins/src/host.rs`: supervisor, watchdogs, readers, owner; the proofs | |

Three abstract modules carry the structure: `RingSeqlock` implements `RingLog`,
`TransferPool` implements `TransferQueue`, `IqBuffer` implements `CaptureLog`. `RingReader`, `FlowGate` and
`HackRfSource` use the abstract ones and stay small. `MC*` modules declare
model values, symmetry and function-valued constants. An operator called `Bug_X` is a plausible
mistake in `X` (a dropped guard, an off-by-one, a swapped order); no next-state relation uses it.
`PROJECT.json` pairs each property with one that breaks it.

### RingSeqlock

State: the fields of `Shared` and `RingWriter` under their own names; `wpc`,
`record`, `stored` are push's frame; `rpc`, `block`, `loaded`, `from`, `count`,
`out`, `handle`, `head`, `write_end` a lookup's. Each action is one `SeqCst`
load or store of `push` (begin, provenance slot, stream start, record fields one
by one, cells one by one, the four counters), or of `read_meta`, `copy_out`,
`provenance`, `meta_counters`. All accesses of the code are `SeqCst`, so
interleaving is the memory model. A cell holds the index of its sample, which
makes a foreign sample visible. Kept out: `host_time_ns`, `flags` and
`dropped_before` are stored and loaded exactly as the five fields kept; the
writer's cache of the last provenance key changes no shared state. Waking waiters
is in `RingReader`. `log` is a ghost.

### RingReader

State: `ReaderState`'s cursor, policy and counts; `rpc` and the frame say where
a call is. Every load of shared state is a step, with the writer in between.
`read_meta`, `copy_out` and `provenance` take effect at the load that decides
them, which `MetaIsAbstractMeta` justifies. `locate` takes its snapshot in one
step and answers in another if the answer is still retained. `wait_for_data`
joins the waiters, looks at the head and at `closed` holding `wake_lock`, and
parks; with `read`, it is the loop of `read_timeout`. After a push the writer
only tries the lock, and another waiter may hold it too, so `PushNotifies` may
always miss; the drop waits for it (`DropNotifies`). Ghosts: `start`
and `unknown_gaps`, the one case where the documentation says a gap is counted as lost.

### TransferPool, TransferQueue

State: both index queues with head, tail and slots; each buffer's stamps and
bytes, written in two steps with `Torn` between; the waiter mutex, its handle and
the park token. `Succ` is `(p + 1) % slots.len()`. The refinement maps a push to
the store of `tail`, a take to the store of `head`. Left out: depth and truncation
statistics and the arrival time.

### HackRfSource

State: the radio (its settings, those in force during the transfer being filled
and during the filled ones whose callback is still to run), the mailbox, the
control threads, the capture thread. `ApplyCall` is one device call of
`apply_pending`, `ApplyFails` its error path; knob values are abstract, with the
bandwidth filter derived from the rate by a function. Validation of a request
is out (only valid ones are posted); a posted change is applied in the order of
the code. Filling a transfer (`CompleteTransfer`) and the start of its callback, which
counts it (`TransferArrives`), are two steps: in between it is in `completed`, where up
to `CallbackLag` transfers wait, at least one. `held_back`, a ghost, is how many did
when the last change was made. `stop_rx` waits for a callback under way, as libhackrf does. The
times of blocks are out: nothing but the arrival stamps decides them.

### FlowGate

State: `cursors`, a set, and each one's cell, `holding`, the capture thread's
block, its view of the ring, and the scan of `min_needed`, cell by cell in any
order (the code's is that of registration, on which nothing depends). Reader threads of `AlwaysOn` register when they get there, those of
`Early` before capture starts; `Chains` attach at any retained sample. A push
and a read are one step each. `spared` is a ghost, the first sample a reader
could have had when it registered. The coverage wait, `wait_for_room` (used by
tests only) and a disabled gate (a no-op) are out.

### Publisher

State: the producer's own fields (`nextSeq`, the `withheld` run, its snapshot of
the consumers), `Shared`'s list and generation, and per consumer the fields of
`Inner`, the closed flag, the closer, its writer thread and what its transport
was given. Each critical section of `Consumer::inner` and of `Shared::list` is an
action. `Consumer::close` is three: the part under the lock, the flag with the
notify, the closer. Bytes are units: a header and a marker are one, a record
three, so that a pop can split one. `Recorders` are the consumers of
`subscribe_recorder`: never closed for being slow, and their transport is a
`CaptureWriter` (`hk-store/src/decoded.rs`), whose counts are `capture`: what it has
parsed, what its segment counts in memory, what the entry got at the last commit, what
earlier segments were filed with. Its operations are operators that return the counts, or
the set of what they may be: a frame is stored or dropped for the quota (`Payload`), a
segment may roll before it (`Rolled`), a write may fail at any payload of a chunk, in
a roll, or in its commit (`CaptureFails`). When dropped, it adds what the closer told it (`slot`)
beyond what it parsed to its segment, if it has one, and finishes it (`WithLost`,
`Finished`, `Catalogued`): after a failed write that commit may fail too, the entry
then keeps the counts of the one before, and a capture without frames is deleted.
`books` keeps the outcome. Records are frames; status and edit records, which
the code stores and counts in neither number, are out, and so is what users delete or the
quota evicts of finished captures.
Which of the disconnect budgets expires is a choice. A subscriber whose second
check fails may already have had its header written; no property says otherwise.

### IqBuffer, CaptureLog

State: the ring file three times (what a read returns, what the disk holds, which
cells an fsync would write); the journal as the state its records replay to, and
the records in flight; `Inner::state` (`slots`, `free`, `segments`, `floor`,
`end`); the writer's cursor and step; one clip. A sample is its stream index, a
log position counts samples, a CRC is the sequence of samples it was computed
over. One action per step between two effects on disk: a write, the index update
with its eviction (`Count`), a slot's record appended and made durable
(`Advance`, `Opened`), the ring's fsync (`Sync`), the seal's (`SealDone`), or,
when the journal is due for compaction, the snapshot that takes its place (a
snapshot that cannot be written leaves the old journal and fails the checkpoint,
`CompactionFails`). A failed fsync writes any of the dirty cells and calls all of them clean, the case
that `iqbuffer.rs:2615` provides for; `Poison` is the code's answer. `Restart` keeps
any prefix of the records in flight, and after a power cut any of the unsynced
cells. `Selectable(segments)`, `SealedIndices` and `poisoned` are the refinement
mapping to `CaptureLog`.

Assumed: a journal append that fails leaves no record (the code truncates it);
one block of a clip is read in one step; stream indices do not start again after
a restart; a clip does not outlive its process; the ring is not resized; a
compacted journal that was renamed into place can be opened again
(`iqbuffer.rs:1489` to `1503` handle the failure).

### PluginHost

State: `Proc` (`pid`, `state`) and its mutex, `Shared`'s flags, where the
supervisor, the owner and each run's watchdog and reader are. A process is named
by the run that started it. The condition variable is modelled with its mutex:
`ChecksBackoff` evaluates the condition holding it, `Sleeps` gives it up and
sleeps at once, `Wakes` takes it again, so that a notification between the check
and the sleep is possible only for a thread that does not take the mutex.
`Escapes` lets a run's readers outlive their join (a descendant holds the pipe);
`Stalls` lets the publisher's backstop close the consumer and kill.

## Runs

| Run | Question | Bounds |
|---|---|---|
| `seqlock` | Can a lookup see a torn record, a foreign sample or another block's handle; can push find no slot? Does the code implement `RingLog`? | 2 cells, 2 records, 3 handles and no spare slot, stream of 5, blocks of 0 to 3 (3 is refused) |
| `reader` | Is a reader's accounting exact; is the close always noticed, also by a reader that parks just then? | stream of 5, both policies, limits, partial reads, waits, shed, starts past and future |
| `pool` | Is a buffer ever shared, a wake-up or a transfer lost? Does it implement `TransferQueue`? | 3 buffers, 5 transfers, one short, one too long |
| `hackrf` | Which blocks can mix two settings? Are gaps and changes reported exactly? | 1 buffer, 3 transfers that are cut, 1 held back, 2 changes of rate, clipping, 1 device error |
| `hackrf_lag` (violation) | Does no block mix two settings? | 1 change of rate, 2 transfers, 1 held back |
| `hackrf_control` | Which gains win; is a post taken up; does stop end the stream? | 2 control threads, 2 posts, silent radio, empty transfers, 1 transfer held back |
| `gate` | Is a claim ever overwritten; do capture and readers wait for each other? | ring of 3, slack 1, blocks 1, 2, 4, gaps |
| `publisher` | Does a consumer lose a number uncounted; is the limit kept; does a finished stream close everyone? | 2 consumers for one place, one a recorder, queue of 6 units, chunk of 2 |
| `publisher_books` (violation) | Do a recorder's books balance while the disk works? | the same |
| `iqbuffer` | Does the index name what the ring holds, through failures, crashes and recovery? Does it implement `CaptureLog`? | 2 slots of 2, stream of 5, 2 opens, every fault but a lost ring file |
| `iqbuffer_lost` (violation) | Is the floor within the log after the ring file was lost? | stream of 6, 2 opens |
| `plugin` | Can a kill reach a stranger, or a plugin outlive stop; does stop return? | 2 restarts, one exit forgotten, the backstop |

Why the bounds are enough. *Ring*: what can go wrong is a slot reused while a
lookup holds it, so the stream is longer than the cells and has more blocks than
records; the table has no spare slot (the code has 8), which is the harder case.
Handles are interchangeable, and the run has no liveness property, so symmetry
over them is sound. Lookups only read, except for a table slot's in-use count,
and readers share nothing else, so one is run; the proofs hold for any number.
*Reader*: the stream laps the reader at every point of a call, across a gap.
*Pool*: each of the four slots of a queue is reused, the pool runs dry and
refills. *HackRF*: a change needs one transfer before, one during and one after;
two posts make a second overtake the first, and a rate change is two device
calls, so that an error can fall between them; one transfer held back is what mixes
settings. The other knobs change in the same way with one call (gains in three): the
theorems hold for all of them. *Gate*: blocks shorter than,
longer than the slack, and longer than the ring; a chain that claims behind the
slowest reader. *Publisher*: the queue is the smallest the code accepts, a second
record finds it full, and a withheld run, a drop and their shared marker happen;
more subscribers leave fewer records (`BoundsBySubscribers`). *IqBuffer*: the
log laps both slots, so each position is overwritten in place; a gap, a rollback
and a crash at every step fall in one behaviour. *PluginHost*: two restarts let
a thread of one run be late for the next two; the proofs remove the bound.

### Fairness

- `reader`: weak fairness of the call's own steps, and of attaching; strong
  fairness of an unlimited read, that is, the caller keeps calling `read`.
  Without it a reader may simply stop. The writer has none, but its drop gets as
  far as its notification. No slice of a wait need end, so that `DrainsToClosed`
  does not lean on `WAIT_SLICE`, which only bounds what a push missed.
- `pool`: weak fairness of the callback's steps (it runs to its return) and of the
  capture thread's, *except* the timeout of its park, so that a lost wake-up
  would not be hidden by the timeout.
- `hackrf_control`: the pipeline calls `next_block` again, and the capture
  thread, a control thread inside a post and a callback under way proceed.
  The radio has none: it may fall silent, which is when the stall check ends the stream.
- `publisher`: the threads run, except that a transport's write may never return:
  only a socket's closer makes it. Nobody has to publish or subscribe.
- `plugin`: threads run, a *killed* process dies and its pipes close. A process
  may otherwise live for ever and a back-off need never end, so `StopEnds` does
  not lean on either.
- The gate has none. That a held writer is let through is stated as safety
  (`HoldHasACause`): it is never held when nobody can move. `IqBuffer` has none
  either: its properties are of safety.

## Proofs

### The ring

`RingSeqlockProofs`, for every capacity, table size, limit on the sample counter, set of block lengths, provenances and readers, from
`SeqlockAssumption` alone (both capacities at least 1, the rest natural numbers):

- `ReadMetaNeverTorn`: `Spec => []NoTornRecord`: what `read_meta` returns is one
  block's record.
- `CopiesAreExact`: `Spec => []CopiedSamplesExact`: what `copy_out` returns are the
  samples it was asked for.
- `HandleIsExact`: `Spec => []HandleIsTheBlocks`, and `MissOnlyWhenLapped`: a lookup
  that finds no handle was overtaken.
- `RingImplementsLog`: `Spec => ImplementsRingLog`: the ring, access by access,
  implements the log of `RingLog`; `LookupsAreAbstract`: `Spec =>
  MetaIsAbstractMeta`: a record is found exactly when `RingLog` has it. With these
  and `CopiesAreExact`, what is proved of readers over `RingLog` is true of readers over the atomics.
- `PushFindsASlot`: `Spec => []PushNeverWaits` if there are finitely many readers, fewer
  than `BlockCap + TableSlack`, the slots the table has beyond the retained blocks' own (the
  comment at `ring/mod.rs:665` gives the condition informally). Each lookup holds at most
  one slot and each retained block names at most one, so one is left. When the hypothesis is exceeded,
  `claim_slot` (`ring/mod.rs:670`) goes round the table again until a lookup ends.
- `RingInvariant`: `Spec => []RingInv`, the inductive invariant of all of these.

None of the safety properties is inductive: they speak of a finished lookup, and the steps
before it matter. `RingInv` says where push is and how far the counters have
come (`CountersInv`); that each record (`RecordsIntact`), sample and
handle still acceptable is intact in its slot; and that what a lookup has loaded so far is its
block's, or the block is already invalid. The argument is the
seqlock's: `push` raises `meta_write_end` (for samples, `sample_write_end`) before the first store into a slot, so
a block whose slot is being overwritten is already below `oldest_valid_block`;
`DistinctSlots` says that two blocks in the same slot are at least `block_capacity`
apart; and a lookup that loaded a mixture finds its block invalid at the
final check. The writer's part and the reader's are separate lemmas. For the
handles it is added that a table slot named by a retained record, or in use by a
lookup that has not been overtaken, keeps its contents.

### The reader

`RingReaderProofs`, from `RingConfigAssumption` and `ReaderAssumption`, for every
capacity and every reader call the model has:

- `EveryIndexIsAccounted`: `Spec => []EveryIndexAccounted`: delivered, overrun, shed,
  skipped and gap counts add up to the reader's position less where it started.
- `ClosedIsDrained`: `Spec => []ClosedMeansDrained`: `Closed` is answered only when
  nothing retained is left.
- `ChunksAreNext`: `Spec => ChunkIsNext`, a chunk is the next part of one block;
  `OverrunsAreReal`: `Spec => OverrunOnlyIfGone`, an overrun is reported only of what
  was overwritten; `SamplesAreCommittedFirst`: the samples of a committed block are committed.
- `GapCountsNeverSaturate`: the saturating subtractions of the gap counters
  never saturate.
- `ReaderInvariant`: `Spec => []ReaderInv`.

`EveryIndexAccounted` is not inductive because a read moves its counts at several
steps. `ReaderInv` is `LogInv` (blocks in order, each one's gap count the sum of
the gaps before it), `ReaderType`, `CursorInv` (the cursor names the first block
that ends after the position, and its gap count is that of the part of the stream already behind it),
`EveryIndexAccounted` and `StageInv`, which says at each step of a call what the
counts are still to receive. The `debug_assert`s at `ring/mod.rs:1124`, `1195`, `1207` and `1309` are
part of it, hence proved. A consequence: in the step that follows `read_meta`, the branch that
advances past a block ending at or before the position is never taken.

### The transfer pool

`TransferPoolProofs`, for any number of buffers and transfers, from the module's assumption:

- `EveryBufferHasOneHolder`: `Spec => []OneHolder`.
- `PushesNeverRefused`: neither index queue is ever full when it is pushed to.
- `TakenTransfersAreWhole`: `Spec => []TakenIsIntact`.
- `WakeupsAreNotLost`: `Spec => []NoLostWakeup`.
- `PoolImplementsQueue`: `Spec => ImplementsTransferQueue`, the refinement.
- `PoolInvariant`: `Spec => []PoolInv`.

`PoolInv` lists the buffers the two queues hold in order, says that they and the two
threads' hands hold each buffer exactly once, ties the bytes of every filled
buffer to the transfer it took, and says which steps have a wake-up under way. The capacity
argument follows: a queue with one slot more than there are buffers cannot be full.

### The plug-in host

`PluginHostProofs`, for any number of restarts and of forgotten exits, with
escaping descendants and the backstop or without, from `PluginAssumption`:

- `PidOurs`: `Spec => []PidIsOurs`.
- `WatchdogKillsOnlyItsRun`: `Spec => []WatchdogKillsItsRun`.
- `NothingLeftAfterStop`: `Spec => []NothingLivesAfterStop`.

None of the three is inductive. `HostInv` ties everything to the supervisor's
step: the exits in the window bound the runs (`RunInv`); the pid is the run's
between its registration and the kill of its group, and none at any other step
(`PidInv`); only the run's own process can be living, and only until it is
reaped, so until then it is there (`ProcInv`); a watchdog is busy only while the
supervisor waits for its run, because it is joined before the pid is given up
(`WatchInv`); and the owner is gone only after the supervisor (`OwnerInv`). A kill
changes no process into or out of the living (`KillKeepsLiving`), which
settles every kill at once. There is one lemma for the supervisor's steps and
one for everybody else's.

### The publisher

`PublisherProofs`, for any limit, any queue size the code accepts and any finite
set of consumers, from `PublisherConfig`:

- `LimitKept`: `Spec => []AtMostMaxConsumers`.
- `StreamsAreComplete`: `Spec => []StreamIsComplete`: a consumer's transport
  was given a header, then records and markers in which each number offered to it
  occurs, or is within a marker's run of drops, once and in order.
- `SleepersAreIdle`: `Spec => []SleepersHaveNothingToDo`: a writer thread asleep
  has an empty queue and an open consumer, or a notification under way.
- `PublisherInvariant`: `Spec => []PublisherInv`.

An admission re-checks the limit in the critical section that
inserts (`AdmitTakesOne`), and every other step only closes or prunes (`FewerOpen`);
that settles the first. The second is a statement about bytes that have left and
says nothing of those still queued, so it is not inductive. `PublisherInv` speaks of the
whole `Stream(c)`: what the transport was given, what its writer holds and what is
queued. It is well formed at every step and, while the consumer is open, ends
with the number before the one the producer owes it (`NextFor`). The producer's own steps
leave `NextFor` unchanged, because a withheld run, a snapshot and the announcement of a new generation
always describe the same consumers (`ProducerInv`, `FrameInv`, `MembersInv`). A new consumer
starts at the next number, and everything else either moves units along the stream or drops whole records and widens the
marker that stands for them.

### The HackRF source

`HackRfSourceProofs`, for any control threads, operations, knob values, pool,
transfer lengths, posts and device errors, from the modules' assumptions:

- `RadioHasWhatWasAsked`: `Spec => []RadioIsAsRequested`.
- `BlocksKeepOneSetting`: `Spec => MixedOnlyIfHeldBack`. However many filled
  transfers wait for their callback, only the first blocks after a change can mix
  settings, and only as many as waited when it was made; if none did, none can.
- `BlocksTellChanges`: `Spec => ChangesAreFlagged`, and `GapsAreCounted`: `Spec =>
  GapsAreExact`.
- `KnobsAreOnTheirWay`: `Spec => []KnobInv`.

`RadioIsAsRequested` speaks only of moments when nothing is left to apply. `KnobInv`
says at every step where each knob is going (`Becomes`): to its value in the mailbox, else to
the last device call left for it, else it is there. That is the value
last posted (`PostedInv`) and, unless a thread holds the lock on the requested gains and has
not posted yet, the gains last requested (`RequestedInv`). `CallsOfAChange` shows what
the calls of a change leave behind: the filter is the knob that a change of another one
resets, and it survives a change of rate because the posted filter made it explicit or is itself still to come.

For `MixedOnlyIfHeldBack`, `CleanFrom` is the first transfer that began after the last
change: `discard_below_seq` and, beyond it, one more for each transfer held back.
`SettingsInv` says that every transfer from there on was taken wholly under the stream's
settings: those in the pool, those that wait (the `i`th will be number `next_seq + i - 1`)
and the one filling. While device calls are made it says only that sequence numbers
are below `next_seq`; `Settle` leaves all that exist by then behind `CleanFrom`. `FlagsInv` says that
the difference between the last block's provenance and the next one's is among the pending
flags (`BetweenThree`: differences show at one of two steps). For the gaps, `ChainInv`
says that the transfers in the pool follow one another without a hole but for what the pool had lost when each
arrived, beginning where the capture thread is.

### The flow gate

`FlowGateProofs`, for every ring, set of readers and chains, source gap and stop:

- `ClaimsKept`: `Spec => []ClaimsAreKept`, if some `min_block` has `SampleCap <=
  min_block * BlockCap` and no block pushed is shorter.
- `HeldWriterHasACause`: `Spec => []HoldHasACause`, from the module's assumptions alone.
- `AttachedWithinSlack`: `Spec => AttachWithinSlackIsKept`, under the hypothesis of
  `ClaimsKept` and `SampleCap > 1`.
- `GateInvariant`: `Spec => []GateInv`.

The first hypothesis is how `RingConfig::for_duration` sizes a ring. It is needed: the gate
counts samples only, and a ring that receives shorter blocks runs out of records before
it runs out of cells, whatever readers claim (the hazard at `hk-pipeline/src/run.rs:1669`).
It gives `RecordsLast`: a sample not yet overwritten still has its record. With one
cell, the gate's slack is the whole ring, and the last theorem would be about nothing.

The scan of `min_needed` loads one cell at a time while readers move their claims. It is a bound
all the same (`ScanInv`) because claims only grow and registration waits for the lock of the
scan. A reader that is not registered claims nothing, and `spared` is what was lost, or let through, when it
registered; `KeptInv` is then about the block let through
as well as those written, which makes it inductive: nothing a reader has yet to read is below `Dropped`. For the slack,
`SlackInv` remembers why the latest block was admitted (`Within`): a claim had caught up with the block before it, or the
block is within the slack of the claim, or of a block after a gap. `Ordinary`, in the property, excludes the last.

### The disk buffer

`IqBufferProofs`, for any number of slots and samples in one, any retention, append and gap, and
any verification depth, from `SizesAssumption` (sizes positive, at least two slots) and
`NoneAssumption` (no cursor or sample is `None`):

- `AlwaysIndexIsExact`: `Spec => []IndexIsExact`, and `AlwaysPositionsArePartitioned`, whatever
  fails, a lost ring file included.
- `AlwaysFloorWithinLog`: `Spec => []FloorWithinLog`, if no ring file is lost. The run
  `iqbuffer_lost` refutes it otherwise (finding 3).
- `AlwaysClipExact`: `Spec => []ClipExactUnlessRolledBack`.
- `AlwaysImplementsCaptureLog`: `Spec => ImplementsCaptureLog`, if no ring file is lost: an
  append, a seal, a rollback and a crash are `CaptureLog`'s, and every other step is a stutter.
  With a lost ring file, what was sealed is gone and `Crash` does not allow that.
- `AlwaysInv`: `Spec => [](Inv /\ Whole)`.

None of these is inductive: the index in memory is rebuilt from the journal after a crash, so
that it is right depends on the journal, the records in flight and three versions
of the ring file. `Inv` is ten parts. `SlotInv` and `SegInv` say that the slots follow one
another, that the segments tile the log from the floor to the end (`Chained`), and which
positions are free; `ValueInv` that each retained cell holds its index. `CurInv` and `StepInv` say
what a step under way has written and what it is about to journal. `PersistInv`, `JournalInv` and
`LinkInv` tie the journal to the index: all it names is on disk whatever a crash drops (`Durable`),
it knows each settled slot and persisted segment, and what it knows besides is at
most the slot just evicted. `FloorInv` bounds the floor by the end, and the journal's by what is sealed,
unless a ring file may be lost.
`Whole` says that only the ring's very first slot is without a seal before it and that a persisted
segment holds a sample.

The recovery is the longest part. `RecoveredOk` takes any journal that is well formed and durable
and shows that `recover` builds an index of the shape `Inv` asks for (`Rebuilt`) that
forgets no live slot (`Recalled`). `RestartIs` shows that every prefix of the records in
flight, torn anywhere, replays to such a journal. The order in which the code sorts
slots and segments is taken from the minima and maxima of finite sets, so that no induction
over the journal is needed.

The clip's invariant (`ClipInv`) says of every span planned that its slot still holds it or that the floor
has passed it; every step but a rollback carries that over (`Carries`). The refinement needs
`OrderInv` besides: the stream indices at which segments start leave room for those before them
(`StartsAscend`), nothing that was rolled back is under a seal or the cursor
(`NothingPoisoned`), and what is sealed is older than what is not (`SealsAreOlder`). One lemma per action
shows that the action preserves it and is a step of `CaptureLog` (`Obeys`).

### Only model-checked

- Liveness under fairness, which is out of the prover's reach: `DrainsToClosed`, `AcceptedIsTaken`, `FinishClosesEveryone`,
  `StopEnds`, `PostedIsApplied`.
- `BooksOnceTold`: what a `CaptureWriter` has counted is a fold over the units written
  to it, and what a fold computes is an induction over data, which the installed provers
  cannot do.

## Findings

1. `publisher_books`. `Consumer::close` (`hk-stream/src/publisher.rs:544`) marks
   a consumer closed and only later runs the closer that tells a recorder its
   final counters. A writer thread in between drops its `CaptureWriter` untold
   and the discarded records are counted nowhere; `hk-store/src/decoded.rs:852`
   says the sum still adds up. The disk works throughout. When the closer came first and
   the last segment was committed and has an entry, it does add up (`BooksOnceTold`).
2. `hackrf_lag`. `apply_pending` (`hk-core/src/source/hackrf.rs:720`) discards the
   transfers below `next_seq() + 1`, the last of them meant to be the one in flight. But
   `next_seq` counts callbacks that have run: a transfer filled whose callback has
   not takes that place, and the one really in flight is delivered, half under the old
   settings. `hackrf.rs:29` says that no block mixes two settings. It is one
   block for each transfer held back and no more (`MixedOnlyIfHeldBack`).
3. `iqbuffer_lost`. `recover` (`iqbuffer.rs:1760`) keeps the journal's floor when
   no slot survives, over a log that starts again at 0: what is appended is
   evicted until it has outgrown the old floor, and `status` (`:2046`) underflows.

### What the properties and the bounds leave out

- `BooksOnceTold` excepts a recorder whose last commit failed. `drop` adds the loss to the
  last segment and `finish_segment` commits it (`decoded.rs:765`); after a failed
  write that can fail again, and the entry keeps the counts of the commit before, although
  `decoded.rs:30` says that the sum is what was published "whatever ended the capture".
  A loss is in no entry either when there is no segment (`decoded.rs:868`) or the capture
  holds no frame and is deleted. And the frame at which a roll failed has been
  received but is in no segment.
- `ClipExactUnlessRolledBack` excepts a clip that met a rollback. `ClipPlan::copy`
  (`iqbuffer.rs:1424`) re-checks only the floor: a clip planned over unsealed samples,
  rolled back by a failed fsync and overwritten, is served with the new samples
  under the old indices, although `iqbuffer.rs:1411` says that such data is never served.
- `gate` speaks of registered claims. Reader threads register on their own
  (`hk-pipeline/src/detect.rs:1516`) and capture does not wait for them, so a
  late one may be lapped in a lossless replay before it has claimed anything.
- `plugin`: with `Escapes`, the abandoned reader of an earlier run can be the
  first to report life in the next; and the backstop's kill may reach the run
  after the one whose stall it reported. Neither is stated as a property. The
  proved theorems hold with both.

## Not modelled, and why

Of the components modelled in part: the HackRF source's block times and statistics; the plug-in
data plane of the publisher, its status messages and metadata reduction; the files,
index, sizes and recovery of decoded captures; the disk buffer's allocation, resizing, locks, mixed runs and
rates; the plug-in host's counters, log, ready line and output parsing.

Signal processing, classifiers, estimators, GNSS, simulation and demodulators
compute on numbers and are judged by signal tests. HTTP, database, command line
and UI are I/O and data transformation. The RTL-SDR source has the HackRF
source's logic over another driver. liquid-dsp is vendored. libusb, libhackrf,
the radio, the file system and the operating system's processes are external and
appear only as the steps `src/` relies on.

## Plan

In order, the most important first. The runs are as many as the project keeps: a
later module takes the place of a run whose question it subsumes.

1. `TriggerStream` on `RingLog`: windows and pre-trigger captures.
2. `OnDemand`: the first end reason wins, admissions are all given back.
3. `Capture` (stream axis over looping sources, coverage wait) and `Run`.
4. `Scheduler`, `DeviceGate`, `AlarmEngine`.

Theorems left: none of a safety property, but for `BooksOnceTold`; what is next to prove are
the invariants of the modules above.
