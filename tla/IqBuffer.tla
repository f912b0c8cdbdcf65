------------------------------- MODULE IqBuffer -------------------------------
(* The IQ capture ring on disk (hk-store/src/iqbuffer.rs): one writer that     *)
(* appends samples to slots overwritten in place, checkpoints them with an     *)
(* fsync of the ring and a journalled seal, and rolls back what an fsync       *)
(* failed to make durable; clips planned under the index lock and read without *)
(* it; crashes and the recovery of the next open.                              *)
(*                                                                             *)
(* A sample is its stream index.  The log counts samples, not bytes.  A CRC is *)
(* the sequence of samples it is computed over.  The journal is what replaying *)
(* its records gives; records being appended are kept apart until their fsync. *)
EXTENDS Integers, Sequences, FiniteSets, SequencesExt, FiniteSetsExt

CONSTANTS
  Slots,        \* slot_count
  SlotSamples,  \* slot_bytes, in samples
  Retention,    \* retention_s, in samples of the stream
  VerifySlots,  \* RECOVERY_VERIFY_SLOTS
  MaxAppend,    \* samples of one append
  MaxGap,       \* samples lost to ring overruns between two appends
  Faults,       \* what may fail, of AllFaults
  None,         \* no slot, no clip, nothing written
  MaxClip,      \* stream indices a clip may span
  MaxIndex,     \* bound: stream indices
  MaxRuns       \* bound: opens of the ring

AllFaults == {"write", "fsync", "journal", "space", "power", "lost"}

ASSUME SizesAssumption ==
  /\ {Slots, SlotSamples, Retention, VerifySlots, MaxAppend} \subseteq Nat \ {0}
  /\ Slots > 1 /\ Faults \subseteq AllFaults /\ MaxGap \in Nat

\* The writer's cursor.
Cursor == [l : Nat, pos : 0..(Slots - 1), crc : Seq(Nat), sealed : Nat]

\* No sample and no cursor is None.
ASSUME NoneAssumption == None \notin Nat /\ None \notin Cursor

VARIABLES
  \* the ring file: what a read returns, what the disk holds, what fsync would write
  ring, disk, dirty,
  \* the journal, and the records whose fsync has not returned
  journal, pending,
  \* Inner::state
  slots, free, segments, floor, end, open,
  \* IqBufferWriter: the cursor, the step it is at, what append has left to store
  cur, pc, rest, backoff,
  run, stream,
  \* a clip, and the samples rolled back in all runs (history)
  clip, poisoned

ringVars   == <<ring, disk, dirty>>
fileVars   == <<ring, disk, dirty, journal, pending>>
logVars    == <<segments, floor, end>>
indexVars  == <<slots, free, segments, floor, end, open>>
writerVars == <<cur, pc, rest, backoff>>
inputVars  == <<run, stream>>
clipVars   == <<clip, poisoned>>
vars == <<ring, disk, dirty, journal, pending, slots, free, segments, floor, end, open,
          cur, pc, rest, backoff, run, stream, clip, poisoned>>

-----------------------------------------------------------------------------
(* The log and its places *)

Positions == 0..(Slots - 1)
Cells     == Positions \X (0..(SlotSamples - 1))

FirstOf(l) == l * SlotSamples

\* The slot that holds logical sample p, and its place in the ring file.
Holding(p) == {i \in DOMAIN slots : slots[i].l = p \div SlotSamples}
CellOf(p)  == LET i == CHOOSE i \in Holding(p) : TRUE
              IN <<slots[i].pos, p % SlotSamples>>

Content(r, pos, n) == [i \in 1..n |-> r[<<pos, i - 1>>]]

IndexAt(seg, p) == seg.first + (p - seg.start)
LogEnd(seg)     == seg.log + seg.n
EndIndex(seg)   == IndexAt(seg, LogEnd(seg))

-----------------------------------------------------------------------------
(* Eviction *)

\* A plausible bug: a segment keeps the slot that was overwritten.
Bug_Trim(segs, f, isOpen) ==
  LET kept == {i \in DOMAIN segs : segs[i].log >= f \/ LogEnd(segs[i]) > f \/ (isOpen /\ i = Len(segs))}
  IN IF kept = {} THEN <<>> ELSE SubSeq(segs, Min(kept), Len(segs))

\* A segment without the samples below f.
CutBelow(g, f) ==
  LET k == Max({0, Min({f, LogEnd(g)}) - g.log})
  IN [g EXCEPT !.log = @ + k, !.n = @ - k]

\* What is left of the segments above a floor: the oldest go, and the samples of
\* the next below it.  The last one stays while it is open.
Trim(segs, f, isOpen) ==
  LET kept   == {i \in DOMAIN segs : segs[i].log >= f \/ LogEnd(segs[i]) > f \/ (isOpen /\ i = Len(segs))}
      oldest == Min(kept)
  IN IF kept = {} THEN <<>>
     ELSE [i \in 1..(Len(segs) - oldest + 1) |->
             IF i = 1 THEN CutBelow(segs[oldest], f) ELSE segs[oldest + i - 1]]

\* The floor that duration eviction asks for: what is older than Retention.
AgeFloor(segs) ==
  LET limit == EndIndex(segs[Len(segs)]) - Retention
      young == {i \in DOMAIN segs : segs[i].n > 0 /\ EndIndex(segs[i]) > limit}
      seg   == segs[Min(young)]
      k     == Min({Max({0, limit - IndexAt(seg, seg.log)}), seg.n})
  IN seg.log + k

-----------------------------------------------------------------------------
(* The journal *)

NoRec                  == [k |-> "none"]
Open(l, pos)           == [k |-> "open", l |-> l, pos |-> pos]
Sealed(l, n, crc, f)   == [k |-> "seal", l |-> l, n |-> n, crc |-> crc, floor |-> f]
Segment(seg)           == [start |-> seg.start, first |-> seg.first]

EmptyJournal == [slots |-> {}, floor |-> 0, segs |-> {}]

\* One append to the journal: new segments, then a slot's record.
NoRecords == [segs |-> {}, rec |-> NoRec]

\* The replay of an append: the latest slot at each position, its longest seal.
Reopened(ss, r) ==
  {s \in ss : s.l # r.l /\ s.pos # r.pos}
    \cup {[l |-> r.l, pos |-> r.pos, n |-> 0, sealed |-> 0, crc |-> <<>>]}

Resealed(ss, r) ==
  {IF s.l = r.l /\ r.n >= s.sealed /\ r.n <= SlotSamples
   THEN [s EXCEPT !.n = r.n, !.sealed = r.n, !.crc = r.crc] ELSE s : s \in ss}

Replay(j, recs) ==
  [slots |-> CASE recs.rec.k = "open" -> Reopened(j.slots, recs.rec)
               [] recs.rec.k = "seal" -> Resealed(j.slots, recs.rec)
               [] recs.rec.k = "none" -> j.slots,
   floor |-> IF recs.rec.k = "seal" THEN Max({j.floor, recs.rec.floor}) ELSE j.floor,
   segs  |-> j.segs \cup recs.segs]

\* What a crash may leave of an append: the segments up to one, or all and the record.
Torn(recs) ==
  {[segs |-> {g \in recs.segs : g.start < h.start}, rec |-> NoRec] : h \in recs.segs}
    \cup {[recs EXCEPT !.rec = NoRec], recs}

\* The whole journal describing an index.
Snapshot(ss, segs, f) ==
  [slots |-> {[ss[i] EXCEPT !.n = ss[i].sealed] : i \in DOMAIN ss},
   floor |-> IF \E i \in DOMAIN ss : ss[i].sealed > 0 THEN f ELSE 0,
   segs  |-> {Segment(segs[i]) : i \in {x \in DOMAIN segs : segs[x].persisted /\ segs[x].n > 0}}]

-----------------------------------------------------------------------------
(* The writer.  pc: <<"idle">>, <<"write">> (some of an append is left),       *)
(* <<"count">> (bytes written, not yet indexed), <<"open">> (a slot's record   *)
(* is being journalled), <<"sync", k>> and <<"seal", k>>: the checkpoint on    *)
(* the way to k, "advance", "append" (its end) or "end" (of the segment).      *)

Full == cur # None /\ Len(cur.crc) = SlotSamples

\* Starts a segment at the end of the log; an empty last one is replaced.
BeginSegment(first) ==
  LET old == IF segments # <<>> /\ Last(segments).n = 0 THEN Front(segments) ELSE segments
  IN Append(old, [start |-> end, log |-> end, n |-> 0, first |-> first, persisted |-> FALSE])

\* The feeder has k samples: a new segment after a gap, a change of provenance
\* or a segment that ended, then append; nothing is stored during a back-off.
Feed(k, gap) ==
  /\ pc = <<"idle">> /\ stream + gap + k <= MaxIndex
  /\ \E begins \in {TRUE, ~open \/ gap > 0}, waiting \in {FALSE, backoff} :
       /\ segments' = IF begins THEN BeginSegment(stream + gap) ELSE segments
       /\ open' = ~waiting
       /\ pc' = IF waiting THEN <<"idle">> ELSE <<"write">>
       /\ rest' = IF waiting THEN 0 ELSE k
       /\ backoff' = waiting
  /\ stream' = IF rest' = 0 THEN stream + gap + k ELSE stream + gap
  /\ UNCHANGED <<slots, free, floor, end, cur, run, fileVars, clipVars>>

\* fail: the rest of the append is lost, the segment ends, writes back off.
Fail ==
  /\ pc' = <<"idle">> /\ rest' = 0 /\ stream' = stream + rest
  /\ open' = FALSE /\ backoff' = TRUE

\* A sparse ring near the free-space floor starts no slot.
Pause ==
  /\ "space" \in Faults
  /\ pc = <<"write">> /\ (cur = None \/ Full)
  /\ pc' = <<"idle">> /\ rest' = 0 /\ stream' = stream + rest
  /\ open' = FALSE
  /\ UNCHANGED <<slots, free, cur, backoff, run, fileVars, logVars, clipVars>>

\* Part of the rest goes to the slot; a write may fail half way.
WriteCells(n) == [c \in Cells |->
  IF cur.pos = c[1] /\ c[2] \in Len(cur.crc) .. (Len(cur.crc) + n - 1)
  THEN stream + c[2] - Len(cur.crc) ELSE ring[c]]

Room == Min({SlotSamples - Len(cur.crc), rest})

Write ==
  /\ pc = <<"write">> /\ cur # None /\ ~Full
  /\ ring' = WriteCells(Room)
  /\ dirty' = dirty \cup {<<cur.pos, Len(cur.crc) + i - 1>> : i \in 1..Room}
  /\ pc' = <<"count">>
  /\ UNCHANGED <<disk, journal, pending, cur, rest, backoff, indexVars, inputVars, clipVars>>

WriteFails ==
  /\ "write" \in Faults
  /\ pc = <<"write">> /\ cur # None /\ ~Full
  /\ \E n \in 0..(Room - 1) :
       /\ ring' = WriteCells(n)
       /\ dirty' = dirty \cup {<<cur.pos, Len(cur.crc) + i - 1>> : i \in 1..n}
  /\ Fail
  /\ UNCHANGED <<disk, journal, pending, slots, free, cur, run, logVars, clipVars>>

\* What was written joins the index, and duration eviction runs.  An append
\* that has stored everything may be due a checkpoint.
Count ==
  /\ pc = <<"count">>
  /\ LET n    == Room
         at   == Len(slots)
         grew == [segments EXCEPT ![Len(segments)].n = @ + n]
     IN /\ slots' = [slots EXCEPT ![at].n = @ + n]
        /\ end' = end + n
        /\ floor' = Max({floor, AgeFloor(grew)})
        /\ segments' = Trim(grew, floor', open)
        /\ cur' = [cur EXCEPT !.crc = @ \o [i \in 1..n |-> stream + i - 1]]
        /\ stream' = stream + n
        /\ rest' = rest - n
  /\ IF rest' > 0 THEN pc' = <<"write">> /\ backoff' = backoff
     ELSE backoff' = FALSE /\ pc' \in {<<"idle">>, <<"sync", "append">>}
  /\ UNCHANGED <<free, open, run, fileVars, clipVars>>

\* The next slot takes a free position, or evicts the oldest slot for its own;
\* its record is journalled before any of its bytes is written.
Advance ==
  /\ pc = <<"write">> /\ (cur = None \/ (Full /\ cur.sealed = SlotSamples))
  /\ LET l     == IF slots = <<>> THEN end \div SlotSamples ELSE Last(slots).l + 1
         evict == free = {}
         pos   == IF evict THEN Head(slots).pos ELSE Min(free)
         older == IF evict THEN Tail(slots) ELSE slots
         above == IF evict THEN Max({floor, FirstOf(Head(slots).l + 1)}) ELSE floor
         front == IF older = <<>> THEN l ELSE Head(older).l
     IN /\ slots' = Append(older, [l |-> l, pos |-> pos, n |-> 0, sealed |-> 0, crc |-> <<>>])
        /\ free' = free \ {pos}
        /\ segments' = IF evict THEN Trim(segments, above, open) ELSE segments
        /\ end' = Max({end, FirstOf(l)})
        /\ floor' = Max({above, FirstOf(front)})
        /\ pending' = [segs |-> {}, rec |-> Open(l, pos)]
  /\ pc' = <<"open">>
  /\ UNCHANGED <<journal, open, cur, rest, backoff, ringVars, inputVars, clipVars>>

Opened ==
  /\ pc = <<"open">>
  /\ journal' = Replay(journal, pending) /\ pending' = NoRecords
  /\ cur' = [l |-> Last(slots).l, pos |-> Last(slots).pos, crc |-> <<>>, sealed |-> 0]
  /\ pc' = <<"write">>
  /\ UNCHANGED <<rest, backoff, indexVars, ringVars, inputVars, clipVars>>

\* A plausible bug: the position of the slot that was not opened is forgotten.
Bug_OpenFails ==
  /\ "journal" \in Faults
  /\ pc = <<"open">>
  /\ pending' = NoRecords /\ slots' = Front(slots)
  /\ Fail
  /\ UNCHANGED <<journal, free, cur, run, ringVars, logVars, clipVars>>

\* The record is cut off the journal again and the position given back.
OpenFails ==
  /\ "journal" \in Faults
  /\ pc = <<"open">>
  /\ pending' = NoRecords
  /\ slots' = Front(slots)
  /\ free' = free \cup {Last(slots).pos}
  /\ Fail
  /\ UNCHANGED <<journal, cur, run, ringVars, logVars, clipVars>>

-----------------------------------------------------------------------------
(* Checkpoints *)

Unpersisted == {i \in DOMAIN segments : ~segments[i].persisted /\ segments[i].n > 0}

NothingToDo ==
  cur # None => (Unpersisted = {} /\ Len(cur.crc) = cur.sealed)

\* The slot must be sealed before the next one is taken.
SealFull ==
  /\ pc = <<"write">> /\ Full /\ cur.sealed < SlotSamples
  /\ pc' = <<"sync", "advance">>
  /\ UNCHANGED <<cur, rest, backoff, indexVars, fileVars, inputVars, clipVars>>

\* The feeder's ring closed: the segment ends with a checkpoint.
EndSegment ==
  /\ pc = <<"idle">>
  /\ open' = FALSE
  /\ pc' = <<"sync", "end">>
  /\ UNCHANGED <<slots, free, cur, rest, backoff, fileVars, logVars, inputVars, clipVars>>

Resume(k) == IF k = "advance" THEN <<"write">> ELSE <<"idle">>

\* A failed checkpoint fails the append, but not the end of a segment.
FailUnlessEnd(k) ==
  IF k = "end" THEN pc' = <<"idle">> /\ open' = FALSE /\ UNCHANGED <<rest, stream, backoff>> ELSE Fail

CheckpointSkips(k) ==
  /\ pc = <<"sync", k>> /\ NothingToDo
  /\ pc' = Resume(k)
  /\ UNCHANGED <<cur, rest, backoff, indexVars, fileVars, inputVars, clipVars>>

\* A plausible bug: the seal is journalled without waiting for the ring's fsync.
Bug_Sync(k) ==
  /\ pc = <<"sync", k>> /\ ~NothingToDo
  /\ pending' = [segs |-> {Segment(segments[i]) : i \in Unpersisted},
                 rec  |-> Sealed(cur.l, Len(cur.crc), cur.crc, floor)]
  /\ pc' = <<"seal", k>>
  /\ UNCHANGED <<journal, cur, rest, backoff, indexVars, ringVars, inputVars, clipVars>>

\* The ring is on disk: the new segment starts and the seal are journalled.
Sync(k) ==
  /\ pc = <<"sync", k>> /\ ~NothingToDo
  /\ disk' = [c \in Cells |-> IF c \in dirty THEN ring[c] ELSE disk[c]]
  /\ dirty' = {}
  /\ pending' = [segs |-> {Segment(segments[i]) : i \in Unpersisted},
                 rec  |-> Sealed(cur.l, Len(cur.crc), cur.crc, floor)]
  /\ pc' = <<"seal", k>>
  /\ UNCHANGED <<ring, journal, cur, rest, backoff, indexVars, inputVars, clipVars>>

\* The segments of a log cut at p: the newest go, and the samples of the next
\* from p on.
CutAt(segs, p) ==
  LET kept == {i \in DOMAIN segs : LogEnd(segs[i]) <= p \/ segs[i].log < p}
      last == Max(kept)
  IN IF kept = {} THEN <<>>
     ELSE [i \in 1..last |-> IF i = last THEN [segs[i] EXCEPT !.n = Min({@, p - segs[i].log})]
                             ELSE segs[i]]

Selectable(segs) == UNION {{IndexAt(segs[i], p) : p \in segs[i].log .. (LogEnd(segs[i]) - 1)}
                           : i \in DOMAIN segs}

\* A plausible bug: the floor stays where duration eviction had put it.
Bug_Poison ==
  LET cut == FirstOf(cur.l) + cur.sealed
  IN IF Len(cur.crc) = cur.sealed
     THEN UNCHANGED <<slots, cur, logVars, clipVars>>
     ELSE /\ slots' = [slots EXCEPT ![Len(slots)].n = cur.sealed]
          /\ cur' = [cur EXCEPT !.crc = SubSeq(@, 1, cur.sealed)]
          /\ end' = Min({end, cut}) /\ UNCHANGED floor
          /\ segments' = CutAt(segments, cut)
          /\ poisoned' = poisoned \cup (Selectable(segments) \ Selectable(segments'))
          /\ clip' = IF clip = None THEN clip ELSE [clip EXCEPT !.rolled = TRUE]

\* poison: the current slot goes back to its last seal.
Poison ==
  LET cut == FirstOf(cur.l) + cur.sealed
  IN IF Len(cur.crc) = cur.sealed
     THEN UNCHANGED <<slots, cur, logVars, clipVars>>
     ELSE /\ slots' = [slots EXCEPT ![Len(slots)].n = cur.sealed]
          /\ cur' = [cur EXCEPT !.crc = SubSeq(@, 1, cur.sealed)]
          /\ end' = Min({end, cut})
          /\ floor' = Min({floor, cut})
          /\ segments' = CutAt(segments, cut)
          /\ poisoned' = poisoned \cup (Selectable(segments) \ Selectable(segments'))
          /\ clip' = IF clip = None THEN clip ELSE [clip EXCEPT !.rolled = TRUE]

\* A failed fsync drops pages as it likes and calls them all clean.
SyncFails(k) ==
  /\ "fsync" \in Faults
  /\ pc = <<"sync", k>> /\ ~NothingToDo
  /\ \E reached \in SUBSET dirty : disk' = [c \in Cells |-> IF c \in reached THEN ring[c] ELSE disk[c]]
  /\ dirty' = {}
  /\ Poison
  /\ FailUnlessEnd(k)
  /\ UNCHANGED <<ring, journal, pending, free, run>>

\* The seal is durable.  An outgrown journal is replaced by a snapshot; when that
\* cannot be written, the journal stays as it is and the checkpoint fails.
Seal ==
  /\ segments' = [i \in 1..Len(segments) |-> [segments[i] EXCEPT !.persisted = @ \/ segments[i].n > 0]]
  /\ slots' = [slots EXCEPT ![Len(slots)].sealed = Len(cur.crc), ![Len(slots)].crc = cur.crc]
  /\ cur' = [cur EXCEPT !.sealed = Len(cur.crc)]
  /\ pending' = NoRecords
  /\ UNCHANGED <<free, floor, end, run, ringVars, clipVars>>

SealDone(k) ==
  /\ pc = <<"seal", k>>
  /\ Seal
  /\ journal' \in {Replay(journal, pending), Snapshot(slots', segments', floor)}
  /\ pc' = Resume(k)
  /\ UNCHANGED <<open, rest, backoff, stream>>

CompactionFails(k) ==
  /\ "journal" \in Faults
  /\ pc = <<"seal", k>>
  /\ Seal
  /\ journal' = Replay(journal, pending)
  /\ FailUnlessEnd(k)

SealFails(k) ==
  /\ "journal" \in Faults
  /\ pc = <<"seal", k>>
  /\ pending' = NoRecords
  /\ FailUnlessEnd(k)
  /\ UNCHANGED <<journal, slots, free, cur, run, ringVars, logVars, clipVars>>

-----------------------------------------------------------------------------
(* Recovery *)

\* The newest sealed slots without a hole, every older one full.
Contiguous(live) ==
  {s \in live : \A m \in (s.l + 1) .. Max({t.l : t \in live}) :
                  \E t \in live : t.l = m /\ \E u \in live : u.l = m - 1 /\ u.sealed = SlotSamples}

\* The newest of the last VerifySlots whose bytes have the CRC of their seal,
\* and all that is older.
Verified(kept, r) ==
  LET top  == Max({s.l : s \in kept})
      good == {s \in kept : s.l > top - VerifySlots /\ Content(r, s.pos, s.sealed) = s.crc}
  IN {s \in kept : \E t \in good : s.l <= t.l}

Kept(j, r) ==
  LET live == {s \in j.slots : s.sealed > 0}
  IN IF live = {} THEN {} ELSE Verified(Contiguous(live), r)

\* Segments in the order of the log.
InLogOrder(S) ==
  CHOOSE q \in [1..Cardinality(S) -> S] :
    Range(q) = S /\ \A i, j \in DOMAIN q : i < j => q[i].log < q[j].log

\* recover: the index a journal and a ring file give.  A segment ends where the
\* next one starts; the starts differ.
Recovered(j, r) ==
  LET kept == Kept(j, r)
      low  == Min({s.l : s \in kept})
      high == Max({s.l : s \in kept})
      seq  == [i \in 1..(high - low + 1) |-> CHOOSE s \in kept : s.l = low + i - 1]
      e    == FirstOf(high) + seq[Len(seq)].sealed
      f    == Min({Max({j.floor, FirstOf(low)}), e})
      stop(g)  == Min({e} \cup {h.start : h \in {x \in j.segs : x.start > g.start}})
      above(g) == Max({g.start, f})
      all  == {[start |-> g.start, log |-> above(g), n |-> stop(g) - above(g),
                first |-> g.first, persisted |-> TRUE] : g \in {x \in j.segs : above(x) < stop(x)}}
  IN IF kept = {} THEN [slots |-> <<>>, segments |-> <<>>, floor |-> j.floor, end |-> 0]
     ELSE [slots |-> seq, segments |-> InLogOrder(all), floor |-> f, end |-> e]

\* The ring file after a crash: as the process left it, or after a power cut
\* with some of the unsynced bytes, or lost and allocated again.
AfterCrash ==
  LET left(reached) == [c \in Cells |-> IF c \in reached THEN ring[c] ELSE disk[c]]
      new == [c \in Cells |-> None]
  IN {[ring |-> ring, disk |-> disk, dirty |-> dirty]}
     \cup {[ring |-> left(r), disk |-> left(r), dirty |-> {}] :
              r \in IF "power" \in Faults THEN SUBSET dirty ELSE {}}
     \cup {[ring |-> r, disk |-> r, dirty |-> {}] :
              r \in IF "lost" \in Faults THEN {new} ELSE {}}

\* A crash at any point, then the next open: of the records in flight a prefix
\* is in the journal, which is rewritten whole.
Restart ==
  /\ run < MaxRuns /\ run' = run + 1
  /\ clip = None  \* a clip ends with its process and has changed nothing
  /\ \E f \in AfterCrash, recs \in Torn(pending) :
       /\ ring' = f.ring /\ disk' = f.disk /\ dirty' = f.dirty
       /\ \E rec \in {Recovered(Replay(journal, recs), f.ring)} :
            /\ slots' = rec.slots /\ segments' = rec.segments
            /\ floor' = rec.floor /\ end' = rec.end
            /\ free' = Positions \ {rec.slots[i].pos : i \in DOMAIN rec.slots}
            /\ cur' = IF rec.slots = <<>> \/ Last(rec.slots).sealed = SlotSamples THEN None
                      ELSE [l |-> Last(rec.slots).l, pos |-> Last(rec.slots).pos,
                            crc |-> Last(rec.slots).crc, sealed |-> Last(rec.slots).sealed]
            /\ journal' = Snapshot(rec.slots, rec.segments, rec.floor)
  /\ pending' = NoRecords /\ open' = FALSE /\ pc' = <<"idle">> /\ rest' = 0 /\ backoff' = FALSE
  /\ stream' = stream + rest
  /\ UNCHANGED clipVars

-----------------------------------------------------------------------------
(* Clips *)

\* The part of segment g between stream indices a and b that slot s holds.
Span(g, s, a, b) ==
  LET lo == Max({g.log + Max({0, a - IndexAt(g, g.log)}), FirstOf(s.l)})
      hi == Min({g.log + Min({g.n, Max({0, b - IndexAt(g, g.log)})}), FirstOf(s.l + 1)})
  IN [log |-> lo, index |-> IndexAt(g, lo), len |-> hi - lo, pos |-> s.pos, off |-> lo - FirstOf(s.l)]

Plan(a, b) ==
  {s \in {Span(segments[i], slots[x], a, b) : i \in DOMAIN segments, x \in DOMAIN slots} : s.len > 0}

\* The spans are read in the order of the log.
NextSpan(plan) == CHOOSE s \in plan : \A t \in plan : s.log <= t.log

\* plan_clip: under the lock.
PlanClip ==
  /\ clip = None
  /\ \E a \in Selectable(segments), b \in Selectable(segments) :
       /\ b - a \in 0..(MaxClip - 1)
       /\ clip' = [plan |-> Plan(a, b + 1), block |-> <<>>, out |-> <<>>, rolled |-> FALSE]
  /\ UNCHANGED <<poisoned, indexVars, fileVars, writerVars, inputVars>>

\* copy: a block is read without the lock.
ReadBlock ==
  /\ clip # None /\ clip.plan # {} /\ clip.block = <<>>
  /\ LET s == NextSpan(clip.plan)
     IN clip' = [clip EXCEPT !.block = [i \in 1..s.len |-> ring[<<s.pos, s.off + i - 1>>]]]
  /\ UNCHANGED <<poisoned, indexVars, fileVars, writerVars, inputVars>>

\* A plausible bug: the floor is not looked at again.
Bug_CheckBlock ==
  /\ clip # None /\ clip.block # <<>>
  /\ LET s == NextSpan(clip.plan)
     IN clip' = [clip EXCEPT !.plan = @ \ {s}, !.block = <<>>,
                   !.out = [i \in 1..s.len |-> [want |-> s.index + i - 1, got |-> clip.block[i]]]]
  /\ UNCHANGED <<poisoned, indexVars, fileVars, writerVars, inputVars>>

\* The block is served unless the floor has passed its start meanwhile.
CheckBlock ==
  /\ clip # None /\ clip.block # <<>>
  /\ LET s == NextSpan(clip.plan)
     IN clip' = IF floor > s.log THEN None
                ELSE [clip EXCEPT !.plan = @ \ {s}, !.block = <<>>,
                        !.out = [i \in 1..s.len |-> [want |-> s.index + i - 1, got |-> clip.block[i]]]]
  /\ UNCHANGED <<poisoned, indexVars, fileVars, writerVars, inputVars>>

ClipDone ==
  /\ clip # None /\ clip.plan = {}
  /\ clip' = None
  /\ UNCHANGED <<poisoned, indexVars, fileVars, writerVars, inputVars>>

-----------------------------------------------------------------------------
Init ==
  /\ ring = [c \in Cells |-> None] /\ disk = ring /\ dirty = {}
  /\ journal = EmptyJournal /\ pending = NoRecords
  /\ slots = <<>> /\ free = Positions /\ segments = <<>> /\ floor = 0 /\ end = 0 /\ open = FALSE
  /\ cur = None /\ pc = <<"idle">> /\ rest = 0 /\ backoff = FALSE
  /\ run = 1 /\ stream = 0
  /\ clip = None /\ poisoned = {}

Checkpoint(k) ==
  CheckpointSkips(k) \/ Sync(k) \/ SyncFails(k) \/ SealDone(k) \/ CompactionFails(k) \/ SealFails(k)

Writer ==
  \/ \E k \in 1..MaxAppend, gap \in 0..MaxGap : Feed(k, gap)
  \/ Pause \/ Write \/ WriteFails \/ Count
  \/ Advance \/ Opened \/ OpenFails
  \/ SealFull \/ EndSegment
  \/ \E k \in {"advance", "append", "end"} : Checkpoint(k)

Clip == PlanClip \/ ReadBlock \/ CheckBlock \/ ClipDone

Next == Writer \/ Clip \/ Restart

Spec == Init /\ [][Next]_vars

-----------------------------------------------------------------------------
(* Properties *)

\* What the index says is in the ring is there: the slot that holds a retained
\* sample holds that very sample, whatever was overwritten in place, rolled back,
\* torn by a crash and recovered (write_some, advance, poison, recover).
IndexIsExact ==
  \A i \in DOMAIN segments : \A p \in segments[i].log .. (LogEnd(segments[i]) - 1) :
    /\ Cardinality(Holding(p)) = 1
    /\ ring[CellOf(p)] = IndexAt(segments[i], p)

\* Every position of the ring is free or belongs to one slot: a failed record of
\* an open slot, an eviction and a recovery neither leak one nor give it twice.
PositionsArePartitioned ==
  LET held == [i \in DOMAIN slots |-> slots[i].pos]
  IN /\ IsInjective(held)
     /\ free = Positions \ Range(held)

\* The floor never passes the end of the log: status subtracts one from the other
\* (iqbuffer.rs:2046), and what is written below the floor is evicted at once.
FloorWithinLog == floor <= end

\* A clip serves the samples it planned, although the ring is overwritten while
\* it reads: the floor checked after each block refuses what was evicted
\* (iqbuffer.rs:1411).  It does not see a rollback: a clip that met one may serve
\* the samples that have replaced its own.
ClipExactUnlessRolledBack ==
  clip # None /\ ~clip.rolled => \A i \in DOMAIN clip.out : clip.out[i].got = clip.out[i].want

\* The samples of persisted segments that a seal covers.
SealedIndices ==
  UNION {{IndexAt(g, p) : p \in {q \in g.log .. (LogEnd(g) - 1) :
            \E i \in DOMAIN slots : slots[i].l = q \div SlotSamples
                                     /\ q < FirstOf(slots[i].l) + slots[i].sealed}}
         : g \in {h \in Range(segments) : h.persisted}}

Log == INSTANCE CaptureLog
         WITH stored <- Selectable(segments), durable <- SealedIndices,
              discarded <- poisoned, boots <- run

\* The ring keeps CaptureLog's promises: samples leave oldest first, a seal makes
\* all that is stored survive any crash, and what a failed fsync discarded is
\* never sealed nor recovered.
ImplementsCaptureLog == Log!Spec
=============================================================================
