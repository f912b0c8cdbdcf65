----------------------------- MODULE RingReader -----------------------------
(***************************************************************************)
(* One reader's cursor over the ring: RingReader::read (and read_until),   *)
(* with its loop over ReaderState::resolve, step and lapped, and           *)
(* shed_to_latest, of hk-core/src/ring/mod.rs.  Every load of shared state *)
(* is a step of its own, and the writer of RingLog runs between any two.   *)
(* read_meta, copy_out and provenance take effect at the load that decides *)
(* them (RingSeqlock); locate takes its counter snapshot in one step and   *)
(* answers in another, provided the answer is still retained then.         *)
(* wait_for_data parks the reader until the writer notifies it.            *)
(* Readers share only the waiters' lock, so one is enough: another waiter  *)
(* that holds the lock is a push that could not notify.                    *)
(***************************************************************************)
EXTENDS RingLog, FiniteSets

CONSTANTS
  OutLens,    \* lengths of the buffers handed to read
  Limits,     \* limits handed to read_until (NoLimit: read)
  NoLimit,    \* u64::MAX as read's limit
  Starts      \* samples handed to RingHandle::reader_at

ASSUME ReaderAssumption ==
  /\ OutLens \subseteq Nat \ {0}
  /\ Limits \subseteq Nat \cup {NoLimit}
  /\ NoLimit \in Nat /\ NoLimit > MaxIndex
  /\ Starts \subseteq Nat

VARIABLES
  cursor,        \* Cursor::Unresolved / Cursor::At
  policy,        \* ResyncPolicy
  samples_read, lost_samples, gap_samples, shed_samples,
  rpc,           \* where the current call is
  args,          \* the current call's buffer length and limit
  closed_seen, head_seen, oldest_seen,  \* what it has loaded
  search,        \* the locate under way: sample and counter snapshot
  outcome,       \* what the last call returned
  seen_head,     \* the head when read last found nothing
  notify,        \* the writer: what its last call still has to notify
  start,         \* ghost: first index this reader accounts for
  unknown_gaps   \* ghost: gap indices counted as lost when the start was already gone

readerVars == <<cursor, policy, samples_read, lost_samples, gap_samples, shed_samples, rpc,
                args, closed_seen, head_seen, oldest_seen, search, outcome, seen_head, start,
                unknown_gaps>>
counters == <<samples_read, lost_samples, gap_samples, shed_samples>>
frame == <<args, closed_seen, head_seen, oldest_seen, search>>
writerVars == <<ringVars, notify>>
vars == <<writerVars, readerVars>>

Unresolved(from) == [at |-> FALSE, sample |-> from, block |-> 0, gaps |-> 0]

At(sample, block, gaps) == [at |-> TRUE, sample |-> sample, block |-> block, gaps |-> gaps]

NoArgs == [len |-> 0, limit |-> 0]

NoSearch == [sample |-> 0, lo |-> 0, head |-> 0]

pos == cursor.sample

MaxOf(a, b) == IF a >= b THEN a ELSE b
MinOf(a, b) == IF a <= b THEN a ELSE b

(* The source-gap indices of the stream in lo..hi-1: produced by no announced block. *)
Produced(i) == \E b \in DOMAIN log : i >= log[b].first_sample /\ i < EndOf(log[b])
GapIndices(lo, hi) == {i \in lo..(hi - 1) : ~Produced(i)}

-----------------------------------------------------------------------------
(* Returning from a call, and going round read's loop *)

Return(result) ==
  /\ rpc' = "idle"
  /\ outcome' = result
  /\ args' = NoArgs /\ closed_seen' = FALSE /\ head_seen' = 0 /\ oldest_seen' = 0
  /\ search' = NoSearch

Loop ==
  /\ rpc' = "read"
  /\ closed_seen' = FALSE /\ head_seen' = 0 /\ oldest_seen' = 0
  /\ search' = NoSearch
  /\ UNCHANGED <<args, outcome, seen_head>>

GoTo(pc) == rpc' = pc /\ UNCHANGED <<outcome, seen_head>>

(* The block is to be read, or is gone: the head is not looked at any more. *)
GoToBlock(pc) ==
  /\ GoTo(pc)
  /\ head_seen' = 0
  /\ UNCHANGED <<args, closed_seen, oldest_seen, search>>

Bug_Nothing(closed_before, head) ==
  /\ seen_head' = head
  /\ Return(IF closed THEN "Closed" ELSE "Empty")

Nothing(closed_before, head) ==
  /\ seen_head' = head
  /\ Return(IF closed_before THEN "Closed" ELSE "Empty")

Bug_Overrun(lost, gap, target, block, gaps) ==
  /\ cursor' = At(target, block, gaps)
  /\ lost_samples' = lost_samples + lost + gap
  /\ gap_samples' = gap_samples + gap
  /\ Return("Overrun")
  /\ UNCHANGED <<samples_read, shed_samples, seen_head>>

(* report_overrun: the cursor jumps to target, the first sample of what survives. *)
Overrun(lost, gap, target, block, gaps) ==
  /\ cursor' = At(target, block, gaps)
  /\ lost_samples' = lost_samples + lost
  /\ gap_samples' = gap_samples + gap
  /\ Return("Overrun")
  /\ UNCHANGED <<samples_read, shed_samples, seen_head>>

KeepCounters == UNCHANGED <<counters, policy>>

NoGhosts == UNCHANGED <<start, unknown_gaps>>

-----------------------------------------------------------------------------
(* Shared::locate(sample) *)

BeginLocate(sample, pc) ==
  /\ search' = [sample |-> sample, lo |-> 0, head |-> 0]
  /\ GoTo(pc)

(* meta_counters; a snapshot in which no record is retained is taken again. *)
LocateSnapshot ==
  /\ rpc \in {"lap_locate", "resync_locate", "resolve_locate"} /\ search.head = 0
  /\ oldest_valid_block < meta_head
  /\ search' = [search EXCEPT !.lo = oldest_valid_block, !.head = meta_head]
  /\ UNCHANGED <<writerVars, cursor, policy, counters, rpc, args, closed_seen, head_seen,
                 oldest_seen, outcome, seen_head, start, unknown_gaps>>

(* b is the first block of the snapshot ending after the sample, or its head. *)
LocateTarget(b) ==
  LET after == {c \in search.lo..(search.head - 1) : EndOf(Meta(c)) > search.sample}
  IN  \/ b \in after /\ \A c \in after : b <= c
      \/ after = {} /\ b = search.head

(* The binary search ends by reading the answer's record (head - 1's for None). *)
Located(b) ==
  /\ search.head > 0
  /\ LocateTarget(b)
  /\ HasMeta(IF b = search.head THEN b - 1 ELSE b)

LocatedNone(b) == b = search.head

(* A probed record that was overwritten starts the search over. *)
LocateRetry ==
  /\ rpc \in {"lap_locate", "resync_locate", "resolve_locate"} /\ search.head > 0
  /\ oldest_valid_block > search.lo
  /\ search' = [search EXCEPT !.lo = 0, !.head = 0]
  /\ UNCHANGED <<writerVars, cursor, policy, counters, rpc, args, closed_seen, head_seen,
                 oldest_seen, outcome, seen_head, start, unknown_gaps>>

-----------------------------------------------------------------------------
(* Attaching: RingHandle::reader and reader_at *)

AttachLive ==
  /\ rpc = "detached"
  /\ meta_head > 0 => HasMeta(meta_head - 1)
  /\ LET m == Meta(meta_head - 1)
     IN  cursor' = IF meta_head = 0 THEN Unresolved(0)
                   ELSE At(EndOf(m), meta_head, m.gaps_total)
  /\ start' = cursor'.sample
  /\ GoTo("idle")
  /\ KeepCounters /\ UNCHANGED <<writerVars, frame, unknown_gaps>>

AttachAt(sample) ==
  /\ rpc = "detached"
  /\ cursor' = Unresolved(sample)
  /\ start' = sample
  /\ GoTo("idle")
  /\ KeepCounters /\ UNCHANGED <<writerVars, frame, unknown_gaps>>

(* read(out) and read_until(out, limit). *)
BeginRead(n, limit) ==
  /\ rpc = "idle"
  /\ args' = [len |-> n, limit |-> limit]
  /\ rpc' = "read" /\ outcome' = "none"
  /\ KeepCounters /\ NoGhosts
  /\ seen_head' = 0   \* only looked at after a read that found nothing and set it
  /\ UNCHANGED <<writerVars, cursor, closed_seen, head_seen, oldest_seen, search>>

-----------------------------------------------------------------------------
(* ReaderState::resolve *)

ResolveClosed ==
  /\ rpc = "read" /\ ~cursor.at
  /\ closed_seen' = closed
  /\ GoTo("resolve_head")
  /\ KeepCounters /\ NoGhosts
  /\ UNCHANGED <<writerVars, cursor, args, head_seen, oldest_seen, search>>

ResolveHead ==
  /\ rpc = "resolve_head"
  /\ \/ /\ meta_head = 0
        /\ Nothing(closed_seen, 0)
        /\ UNCHANGED <<cursor, start>>
     \/ /\ meta_head > 0 /\ pos <= stream_start
        /\ cursor' = At(stream_start, 0, 0)
        /\ start' = stream_start
        /\ Loop
     \/ /\ meta_head > 0 /\ pos > stream_start
        /\ BeginLocate(pos, "resolve_locate")
        /\ UNCHANGED <<cursor, start, args, closed_seen, head_seen, oldest_seen>>
  /\ KeepCounters /\ UNCHANGED <<writerVars, unknown_gaps>>

ResolveLocated ==
  /\ rpc = "resolve_locate"
  /\ \E b \in 0..meta_head :
       /\ Located(b)
       /\ \/ /\ LocatedNone(b)
             /\ Nothing(closed_seen, b)
             /\ UNCHANGED cursor
          \/ /\ ~LocatedNone(b) /\ Meta(b).first_sample <= pos
             /\ cursor' = At(pos, b, Meta(b).gaps_total)
             /\ Loop
          \/ /\ ~LocatedNone(b) /\ Meta(b).first_sample > pos
             /\ head_seen' = b
             /\ GoTo("resolve_previous") /\ search' = NoSearch
             /\ UNCHANGED <<cursor, args, closed_seen, oldest_seen>>
  /\ KeepCounters /\ NoGhosts /\ UNCHANGED writerVars

(* The start lies before block head_seen: in a source gap if the block before is known. *)
ResolvePrevious ==
  /\ rpc = "resolve_previous"
  /\ LET b == head_seen
         m == Meta(b)
         gap == m.first_sample - pos
     IN \/ /\ HasMeta(b - 1)
           /\ cursor' = At(pos, b, SatSub(m.gaps_total, gap))
           /\ Loop
           /\ UNCHANGED <<counters, unknown_gaps>>
        \/ /\ ~HasMeta(b - 1)
           /\ Overrun(gap, 0, m.first_sample, b, m.gaps_total)
           /\ unknown_gaps' = Cardinality(GapIndices(pos, m.first_sample))
  /\ UNCHANGED <<writerVars, policy, start>>

-----------------------------------------------------------------------------
(* ReaderState::step *)

StepAtLimit ==
  /\ rpc = "read" /\ cursor.at /\ pos >= args.limit
  /\ Nothing(FALSE, meta_head)
  /\ KeepCounters /\ NoGhosts /\ UNCHANGED <<writerVars, cursor>>

StepClosed ==
  /\ rpc = "read" /\ cursor.at /\ pos < args.limit
  /\ closed_seen' = closed
  /\ GoTo("step_head")
  /\ KeepCounters /\ NoGhosts
  /\ UNCHANGED <<writerVars, cursor, args, head_seen, oldest_seen, search>>

StepHead ==
  /\ rpc = "step_head"
  /\ \/ cursor.block >= meta_head /\ Nothing(closed_seen, meta_head)
     \/ /\ cursor.block < meta_head
        /\ head_seen' = meta_head
        /\ closed_seen' = FALSE   \* not looked at any more
        /\ GoTo("step_meta")
        /\ UNCHANGED <<args, oldest_seen, search>>
  /\ KeepCounters /\ NoGhosts /\ UNCHANGED <<writerVars, cursor>>

StepMeta ==
  /\ rpc = "step_meta"
  /\ IF HasMeta(cursor.block) /\ pos >= EndOf(Meta(cursor.block))
     THEN /\ cursor' = [cursor EXCEPT !.block = @ + 1]
          /\ Loop
     ELSE /\ IF HasMeta(cursor.block) THEN GoTo("step_oldest") /\ UNCHANGED frame
                                     ELSE GoToBlock("lapped")
          /\ UNCHANGED cursor
  /\ KeepCounters /\ NoGhosts /\ UNCHANGED writerVars

(* The first sample wanted of the cursor's block, and how many fit. *)
From == MaxOf(pos, Meta(cursor.block).first_sample)

Bug_Fits == MinOf(args.len, args.limit - From)

Fits == MinOf(args.len, MinOf(EndOf(Meta(cursor.block)), args.limit) - From)

(* Only stored samples can be overwritten: a source gap before From never was one. *)
Bug_Overwritten == pos < oldest_valid_sample

Overwritten == From < oldest_valid_sample

StepOldest ==
  /\ rpc = "step_oldest"
  /\ \/ /\ Overwritten
        /\ GoToBlock("lapped")
        /\ UNCHANGED <<cursor, gap_samples>>
     \/ /\ ~Overwritten /\ From >= args.limit
        /\ gap_samples' = gap_samples + (args.limit - pos)
        /\ cursor' = At(args.limit, cursor.block, cursor.gaps + (args.limit - pos))
        /\ Nothing(FALSE, head_seen)
     \/ /\ ~Overwritten /\ From < args.limit
        /\ GoToBlock("step_copy")
        /\ UNCHANGED <<cursor, gap_samples>>
  /\ NoGhosts /\ UNCHANGED <<writerVars, policy, samples_read, lost_samples, shed_samples>>

StepCopy ==
  /\ rpc = "step_copy"
  /\ GoTo(IF From + Fits > sample_commit_end THEN "not_committed"
          ELSE IF From >= oldest_valid_sample THEN "step_provenance" ELSE "lapped")
  /\ KeepCounters /\ NoGhosts /\ UNCHANGED <<writerVars, cursor, frame>>

BlockStart == pos <= Meta(cursor.block).first_sample

(* The provenance lookup succeeds and the chunk is delivered: only now the cursor moves. *)
StepDeliver ==
  /\ rpc = "step_provenance"
  /\ LET m == Meta(cursor.block)
         end == From + Fits
     IN cursor' = At(end, IF end = EndOf(m) THEN cursor.block + 1 ELSE cursor.block,
                     IF BlockStart THEN m.gaps_total ELSE cursor.gaps)
  /\ samples_read' = samples_read + Fits
  /\ gap_samples' = gap_samples + (From - pos)
  /\ Return("Data")
  /\ NoGhosts /\ UNCHANGED <<writerVars, policy, lost_samples, shed_samples, seen_head>>

(* The handle's table slot was reused, so the record is stale (RingSeqlock). *)
StepNoHandle ==
  /\ rpc = "step_provenance" /\ cursor.block < oldest_valid_block
  /\ GoTo("lapped")
  /\ KeepCounters /\ NoGhosts /\ UNCHANGED <<writerVars, cursor, frame>>

-----------------------------------------------------------------------------
(* ReaderState::lapped *)

LapOldest ==
  /\ rpc = "lapped"
  /\ oldest_seen' = oldest_valid_sample
  /\ BeginLocate(pos, "lap_locate")
  /\ KeepCounters /\ NoGhosts
  /\ UNCHANGED <<writerVars, cursor, args, closed_seen, head_seen>>

(* The next samples the reader needs are still stored. *)
Lossless(b) ==
  \/ LocatedNone(b) /\ pos >= oldest_seen
  \/ /\ ~LocatedNone(b)
     /\ MaxOf(pos, Meta(b).first_sample) >= oldest_seen
     /\ \/ Meta(b).first_sample <= pos
        \/ Meta(b).gaps_total - cursor.gaps = Meta(b).first_sample - pos

LapLocated ==
  /\ rpc = "lap_locate"
  /\ \E b \in 0..meta_head :
       /\ Located(b)
       /\ IF Lossless(b)
          THEN /\ cursor' = At(pos, b, cursor.gaps)
               /\ Loop
          ELSE /\ GoTo(IF policy = "Latest" THEN "lap_head" ELSE "resync_oldest")
               /\ search' = NoSearch
               /\ UNCHANGED <<cursor, args, closed_seen, head_seen, oldest_seen>>
  /\ KeepCounters /\ NoGhosts /\ UNCHANGED writerVars

(* ResyncPolicy::Latest: the head, then the newest block's record, until it is retained. *)
LapHead ==
  /\ rpc = "lap_head"
  /\ head_seen' = meta_head
  /\ GoTo("lap_newest")
  /\ KeepCounters /\ NoGhosts
  /\ UNCHANGED <<writerVars, cursor, args, closed_seen, oldest_seen, search, seen_head>>

(* Source-gap indices among those skipped up to target in block b. *)
SkippedGap(b, target) == MinOf(SatSub(Meta(b).gaps_total, cursor.gaps), target - pos)

Resync(b, target) ==
  IF target <= pos
  THEN /\ cursor' = At(pos, b, cursor.gaps)
       /\ Loop
       /\ UNCHANGED counters
  ELSE Overrun(target - pos - SkippedGap(b, target), SkippedGap(b, target), target, b,
               Meta(b).gaps_total)

LapNewest ==
  /\ rpc = "lap_newest"
  /\ \/ /\ HasMeta(head_seen - 1)
        /\ Resync(head_seen - 1, Meta(head_seen - 1).first_sample)
     \/ /\ ~HasMeta(head_seen - 1)
        /\ GoTo("lap_head")
        /\ UNCHANGED <<cursor, counters, frame>>
  /\ NoGhosts /\ UNCHANGED <<writerVars, policy>>

(* ResyncPolicy::Oldest: locate the oldest sample still valid. *)
ResyncOldest ==
  /\ rpc = "resync_oldest"
  /\ BeginLocate(MaxOf(oldest_valid_sample, pos), "resync_locate")
  /\ KeepCounters /\ NoGhosts
  /\ UNCHANGED <<writerVars, cursor, args, closed_seen, head_seen, oldest_seen>>

ResyncLocated ==
  /\ rpc = "resync_locate"
  /\ \E b \in 0..meta_head :
       /\ Located(b)
       /\ \/ LocatedNone(b) /\ Nothing(FALSE, b) /\ UNCHANGED <<cursor, counters>>
          \/ ~LocatedNone(b) /\ Resync(b, MaxOf(Meta(b).first_sample, search.sample))
  /\ NoGhosts /\ UNCHANGED <<writerVars, policy>>

-----------------------------------------------------------------------------
(* RingReader::shed_to_latest *)

ShedHead ==
  /\ rpc = "idle" /\ cursor.at
  /\ meta_head > 0
  /\ head_seen' = meta_head
  /\ rpc' = "shed" /\ outcome' = "none"
  /\ KeepCounters /\ NoGhosts
  /\ UNCHANGED <<writerVars, cursor, args, closed_seen, oldest_seen, search, seen_head>>

ShedToLatest ==
  /\ rpc = "shed"
  /\ LET b == head_seen - 1
         m == Meta(b)
         skipped == m.first_sample - pos
         gap == SkippedGap(b, m.first_sample)
         sheds == HasMeta(b) /\ m.first_sample > pos
     IN /\ cursor' = IF sheds THEN At(m.first_sample, b, m.gaps_total) ELSE cursor
        /\ gap_samples' = IF sheds THEN gap_samples + gap ELSE gap_samples
        /\ shed_samples' = IF sheds THEN shed_samples + (skipped - gap) ELSE shed_samples
  /\ Return("Shed")
  /\ NoGhosts /\ UNCHANGED <<writerVars, policy, samples_read, lost_samples, seen_head>>

-----------------------------------------------------------------------------
(* RingReader::wait_for_data, after a read that found nothing, until the caller's deadline *)

waitFrame == <<writerVars, cursor, counters, policy, frame, seen_head, start, unknown_gaps>>

(* The reader joins the waiters; from now on a push that is over tries to notify it. *)
BeginWait ==
  /\ rpc = "idle" /\ outcome = "Empty"
  /\ rpc' = "wait_head" /\ outcome' = "none"
  /\ UNCHANGED waitFrame

(* With wake_lock held: the head, then closed. *)
WaitHead ==
  /\ rpc = "wait_head"
  /\ rpc' = IF meta_head <= seen_head THEN "wait_closed" ELSE "idle"
  /\ UNCHANGED <<waitFrame, outcome>>

WaitClosed ==
  /\ rpc = "wait_closed"
  /\ rpc' = IF closed THEN "idle" ELSE "parking"
  /\ UNCHANGED <<waitFrame, outcome>>

HoldsWakeLock == rpc \in {"wait_closed", "parking"}

Park ==
  /\ rpc = "parking"
  /\ rpc' = "parked"
  /\ UNCHANGED <<waitFrame, outcome>>

(* WAIT_SLICE is over. *)
SliceEnds ==
  /\ rpc = "parked"
  /\ rpc' = "idle"
  /\ UNCHANGED <<waitFrame, outcome>>

WaitStep == WaitHead \/ WaitClosed \/ Park

-----------------------------------------------------------------------------
(* The writer, and what it notifies when it has pushed or is dropped *)

Write ==
  /\ notify = "none"
  /\ WriterNext
  /\ notify' = CASE meta_head' # meta_head -> "push" [] closed' # closed -> "drop" [] OTHER -> "none"
  /\ UNCHANGED readerVars

Notify(woken) ==
  /\ notify' = "none"
  /\ rpc' = IF woken /\ rpc = "parked" THEN "idle" ELSE rpc
  /\ UNCHANGED <<ringVars, cursor, counters, policy, frame, outcome, seen_head, start, unknown_gaps>>

(* push: try_lock fails while this reader, or another waiter, holds the lock. *)
PushNotifies == notify = "push" /\ (Notify(FALSE) \/ (~HoldsWakeLock /\ Notify(TRUE)))

Bug_DropNotifies == notify = "drop" /\ Notify(~HoldsWakeLock)

(* Drop waits for the lock. *)
DropNotifies == notify = "drop" /\ ~HoldsWakeLock /\ Notify(TRUE)

-----------------------------------------------------------------------------

Init ==
  /\ RingInit
  /\ cursor = Unresolved(0)
  /\ policy \in {"Latest", "Oldest"}
  /\ samples_read = 0 /\ lost_samples = 0 /\ gap_samples = 0 /\ shed_samples = 0
  /\ rpc = "detached" /\ args = NoArgs
  /\ closed_seen = FALSE /\ head_seen = 0 /\ oldest_seen = 0 /\ search = NoSearch
  /\ outcome = "none" /\ seen_head = 0 /\ notify = "none"
  /\ start = 0 /\ unknown_gaps = 0

Attach == AttachLive \/ \E s \in Starts : AttachAt(s)

(* A step inside a call already begun. *)
CallStep ==
  \/ ResolveClosed \/ ResolveHead \/ ResolveLocated \/ ResolvePrevious
  \/ StepAtLimit \/ StepClosed \/ StepHead \/ StepMeta \/ StepOldest \/ StepCopy
  \/ StepDeliver \/ StepNoHandle
  \/ LapOldest \/ LapLocated \/ LapHead \/ LapNewest \/ ResyncOldest \/ ResyncLocated
  \/ LocateSnapshot \/ LocateRetry
  \/ ShedToLatest \/ WaitStep

ReadCall == \E n \in OutLens, limit \in Limits : BeginRead(n, limit)

ReaderNext == Attach \/ CallStep \/ ReadCall \/ ShedHead \/ BeginWait \/ SliceEnds

Next == Write \/ PushNotifies \/ DropNotifies \/ ReaderNext

Spec == Init /\ [][Next]_vars

(* The reader's thread runs, and its caller keeps calling read; a writer being dropped gets *)
(* as far as its notification.  No slice of a wait need ever end.                          *)
FairSpec ==
  /\ Spec
  /\ WF_vars(Attach) /\ WF_vars(CallStep) /\ WF_vars(DropNotifies)
  /\ SF_vars(\E n \in OutLens : BeginRead(n, NoLimit))

-----------------------------------------------------------------------------
(* Correctness *)

(* "Every stream index between a reader's start and its position is accounted exactly once
   as read, lost, a source gap" or shed (ring/mod.rs, Loss accounting), and what is counted
   as a gap is exactly what the source never produced; the one exception the docs name is
   the span before a start that was already gone.  The cursor's own gap count is the
   stream's. *)
EveryIndexAccounted ==
  cursor.at => /\ samples_read + lost_samples + gap_samples + shed_samples = pos - start
               /\ gap_samples + unknown_gaps = Cardinality(GapIndices(start, pos))
               /\ cursor.gaps = Cardinality(GapIndices(stream_start, pos))

(* Closed is only returned when the writer is gone and everything it committed has been
   accounted for: nothing pushed just before the drop is missed. *)
ClosedMeansDrained == outcome = "Closed" => closed /\ pos >= StreamEnd

(* A chunk holds the next samples produced, in one block, and its block_start gap agrees
   with the record's cumulative count (step's debug_assert). *)
ChunkIsNext ==
  [][StepDeliver =>
       /\ Fits > 0 /\ From + Fits <= EndOf(Meta(cursor.block))
       /\ \A i \in pos..(From - 1) : ~Produced(i)
       /\ BlockStart => cursor.gaps + (From - pos) = Meta(cursor.block).gaps_total]_vars

(* Index i was produced, and its samples or its block's record can no longer be read. *)
Gone(i) == \E b \in DOMAIN log :
  /\ i >= log[b].first_sample /\ i < EndOf(log[b])
  /\ i + SampleCap < sample_write_end \/ b + BlockCap <= meta_write_end

(* A positioned reader reports no overrun while the next sample it needs is still readable
   (T-072: one parked at a source gap was once resynced past retained blocks), and neither
   ResyncPolicy::Oldest nor a start already gone skips anything still readable. *)
OverrunOnlyIfGone ==
  [][outcome # "Overrun" /\ outcome' = "Overrun" =>
       /\ cursor.at => \E i \in pos..MaxIndex :
            Gone(i) /\ \A j \in pos..(i - 1) : ~Produced(j)
       /\ policy = "Oldest" \/ ~cursor.at =>
            \A i \in pos..(cursor'.sample - 1) : Produced(i) => Gone(i)]_vars

(* Once the writer is gone, a caller that keeps reading and waiting drains the ring and sees
   Closed: read's loop through lapped, locate and back cannot go round forever, and a reader
   that parks as the writer goes is notified, though a push may miss it (WAIT_SLICE bounds
   only that). *)
DrainsToClosed == closed ~> outcome = "Closed"
=============================================================================
