---------------------------- MODULE RingSeqlock ----------------------------
(***************************************************************************)
(* The lock-free ring of hk-core/src/ring/mod.rs, one atomic load or store *)
(* per step: RingWriter::push against readers that are in the middle of    *)
(* Shared::read_meta, Shared::copy_out, Shared::provenance and             *)
(* Shared::meta_counters.  Every access is SeqCst, so steps interleave.    *)
(*                                                                         *)
(* Abstracted: host_time_ns, flags and dropped_before of a record are      *)
(* stored and loaded like the five fields kept here.  A cell holds the     *)
(* stream index of the sample stored in it.  `log' is a ghost: the blocks  *)
(* as push decided to record them.                                         *)
(***************************************************************************)
EXTENDS Integers, Sequences

CONSTANTS
  SampleCap,    \* RingConfig.sample_capacity: cells
  BlockCap,     \* RingConfig.block_capacity: metadata records
  TableSlack,   \* spare provenance table slots: 8 in the code
  MaxIndex,     \* u64::MAX: the largest value of the sample counter
  BlockLens,    \* lengths of the sample slices handed to push
  Provenances,  \* distinct ProvenanceHandle values
  Readers       \* threads inside a lookup

ASSUME SeqlockAssumption ==
  /\ SampleCap \in Nat \ {0}
  /\ BlockCap \in Nat \ {0}
  /\ TableSlack \in Nat
  /\ MaxIndex \in Nat
  /\ BlockLens \subseteq Nat

MetaFields == {"first_sample", "len", "gaps_total", "provenance_key", "provenance_slot"}

(* The order push stores, and read_meta loads, a record's fields. *)
FieldOrder == <<"first_sample", "len", "gaps_total", "provenance_key", "provenance_slot">>

MetaSlots == 0..(BlockCap - 1)

Cells == 0..(SampleCap - 1)

provenance_table_len == 2 * BlockCap + TableSlack

TableSlots == 0..(provenance_table_len - 1)

NoEntry == [key |-> -1]     \* a table slot's None

NoHandle == "none"          \* no ProvenanceHandle (yet)

NoProvenance == [key |-> -1] \* RingWriter::current_provenance = None

VARIABLES
  \* Shared
  cells, meta, sample_write_end, sample_commit_end, meta_write_end, meta_head,
  stream_start, provenance, closed,
  \* RingWriter
  next_block, stream_end, gaps_total, next_provenance_key, current_provenance,
  live_provenance, slot_in_use, slot_cursor,
  \* push's frame: where it is, the record it writes, fields or samples stored
  wpc, record, stored,
  \* ghost
  log,
  \* one reader's lookup: where it is, its argument, what it has loaded
  rpc, block, loaded, from, count, out, handle, head, write_end

sharedVars == <<cells, meta, sample_write_end, sample_commit_end, meta_write_end,
                meta_head, stream_start, provenance, closed>>
writerVars == <<next_block, stream_end, gaps_total, next_provenance_key,
                current_provenance, live_provenance, slot_in_use, slot_cursor,
                wpc, record, stored, log>>
readerVars == <<rpc, block, loaded, from, count, out, handle, head, write_end>>
vars == <<sharedVars, writerVars, readerVars>>

SatSub(a, b) == IF a >= b THEN a - b ELSE 0

EndOf(m) == m.first_sample + m.len

Bug_oldest_valid_sample == SatSub(sample_write_end, SampleCap + 1)

oldest_valid_sample == SatSub(sample_write_end, SampleCap)

Bug_oldest_valid_block == SatSub(meta_write_end, BlockCap + 1)

oldest_valid_block == SatSub(meta_write_end, BlockCap)

(* Before the first push there is no frame. *)
NoRecord == [first_sample |-> 0, len |-> 0, gaps_total |-> 0, provenance |-> NoHandle,
             provenance_key |-> 0, provenance_slot |-> 0]

(* A record's fields in load order. *)
Fields(m) == [i \in 1..Len(FieldOrder) |-> m[FieldOrder[i]]]

(* The loaded record of reader r, while it has one. *)
FirstSample(r) == loaded[r][1]
RecordLen(r) == loaded[r][2]
ProvenanceKey(r) == loaded[r][4]
ProvenanceSlot(r) == loaded[r][5]

(* Table slots whose mutex a lookup holds. *)
Held == {ProvenanceSlot(r) : r \in {q \in Readers : rpc[q] = "lookup"}}

-----------------------------------------------------------------------------
(* The writer *)

(* push's argument tests, in its order. *)
PushError(first, n) ==
  CASE n = 0                                      -> "EmptyBlock"
    [] n > SampleCap                              -> "BlockTooLarge"
    [] first + n > MaxIndex                       -> "IndexOverflow"
    [] stream_end # -1 /\ first < stream_end      -> "NonMonotonic"
    [] OTHER                                      -> "Ok"

Bug_GapsTotal(first) == IF stream_end = -1 THEN 0 ELSE first - stream_end

(* Source-gap indices up to and including the jump to first. *)
GapsTotal(first) == gaps_total + (IF stream_end = -1 THEN 0 ELSE first - stream_end)

(* Entry of push: gap and gap count, then the record write is announced. *)
BeginPush(first, n, p) ==
  /\ wpc = "idle" /\ ~closed
  /\ PushError(first, n) = "Ok"
  /\ record' = [first_sample |-> first, len |-> n, gaps_total |-> GapsTotal(first),
                provenance |-> p, provenance_key |-> 0, provenance_slot |-> 0]
  /\ meta_write_end' = next_block + 1
  /\ wpc' = "provenance"
  /\ UNCHANGED <<cells, meta, sample_write_end, sample_commit_end, meta_head,
                 stream_start, provenance, closed, next_block, stream_end, gaps_total,
                 next_provenance_key, current_provenance, live_provenance,
                 slot_in_use, slot_cursor, stored, log, readerVars>>

UseRecord(key, slot) ==
  /\ record' = [record EXCEPT !.provenance_key = key, !.provenance_slot = slot]
  /\ log' = Append(log, record')
  /\ wpc' = "stream_start"

SameProvenance ==
  /\ current_provenance # NoProvenance
  /\ current_provenance.provenance = record.provenance

(* provenance_for, first return: the handle did not change. *)
KeepProvenance ==
  /\ wpc = "provenance"
  /\ SameProvenance
  /\ UseRecord(current_provenance.key, current_provenance.slot)
  /\ UNCHANGED <<sharedVars, next_block, stream_end, gaps_total, next_provenance_key,
                 current_provenance, live_provenance, slot_in_use, slot_cursor,
                 stored, readerVars>>

Bug_Evicts(n) == n = 0

(* provenance_for's eviction loop pops the n oldest live keys: a key goes while the next one starts
   at or before the oldest block still valid. *)
Evicts(n) ==
  LET oldest == SatSub(next_block + 1, BlockCap)
      Gone(i) == i < Len(live_provenance) /\ live_provenance[i + 1].first_block <= oldest
  IN  (\A i \in 1..n : Gone(i)) /\ ~Gone(n + 1)

(* provenance_for, past its first return: evict the keys no retained block uses and number
   the new one. *)
NewProvenance ==
  /\ wpc = "provenance"
  /\ ~SameProvenance
  /\ \E n \in 0..Len(live_provenance) :
       /\ Evicts(n)
       /\ live_provenance' = SubSeq(live_provenance, n + 1, Len(live_provenance))
       /\ slot_in_use' = slot_in_use \ {live_provenance[i].slot : i \in 1..n}
  /\ next_provenance_key' = next_provenance_key + 1
  /\ wpc' = "claim"
  /\ UNCHANGED <<sharedVars, next_block, stream_end, gaps_total, current_provenance,
                 slot_cursor, record, stored, log, readerVars>>

(* claim_slot tries one slot per step, and waits for none that a lookup holds. *)
Claimable(slot) == slot \notin slot_in_use /\ slot \notin Held

AdvanceCursor == slot_cursor' = (slot_cursor + 1) % provenance_table_len

Entry(key) == [key |-> key, provenance |-> record.provenance]

SkipSlot ==
  /\ wpc = "claim" /\ ~Claimable(slot_cursor)
  /\ AdvanceCursor
  /\ UNCHANGED <<sharedVars, next_block, stream_end, gaps_total, next_provenance_key,
                 current_provenance, live_provenance, slot_in_use, wpc, record, stored,
                 log, readerVars>>

ClaimSlot ==
  /\ wpc = "claim" /\ Claimable(slot_cursor)
  /\ LET key == next_provenance_key - 1
         slot == slot_cursor
     IN /\ provenance' = [provenance EXCEPT ![slot] = Entry(key)]
        /\ slot_in_use' = slot_in_use \cup {slot}
        /\ live_provenance' =
             Append(live_provenance, [key |-> key, first_block |-> next_block, slot |-> slot])
        /\ current_provenance' =
             [key |-> key, slot |-> slot, provenance |-> record.provenance]
        /\ UseRecord(key, slot)
  /\ AdvanceCursor
  /\ UNCHANGED <<cells, meta, sample_write_end, sample_commit_end, meta_write_end,
                 meta_head, stream_start, closed, next_block, stream_end, gaps_total,
                 next_provenance_key, stored, readerVars>>

Bug_StreamStart == record.first_sample

StreamStart == IF next_block = 0 THEN record.first_sample ELSE stream_start

StoreStreamStart ==
  /\ wpc = "stream_start"
  /\ stream_start' = StreamStart
  /\ wpc' = "record"
  /\ stored' = 0
  /\ UNCHANGED <<cells, meta, sample_write_end, sample_commit_end, meta_write_end,
                 meta_head, provenance, closed, next_block, stream_end, gaps_total,
                 next_provenance_key, current_provenance, live_provenance,
                 slot_in_use, slot_cursor, record, log, readerVars>>

StoreField ==
  /\ wpc = "record" /\ stored < Len(FieldOrder)
  /\ meta' = [meta EXCEPT ![next_block % BlockCap][FieldOrder[stored + 1]] =
                record[FieldOrder[stored + 1]]]
  /\ stored' = stored + 1
  /\ UNCHANGED <<cells, sample_write_end, sample_commit_end, meta_write_end, meta_head,
                 stream_start, provenance, closed, next_block, stream_end, gaps_total,
                 next_provenance_key, current_provenance, live_provenance,
                 slot_in_use, slot_cursor, wpc, record, log, readerVars>>

AnnounceSamples ==
  /\ wpc = "record" /\ stored = Len(FieldOrder)
  /\ sample_write_end' = EndOf(record)
  /\ wpc' = "samples"
  /\ stored' = 0
  /\ UNCHANGED <<cells, meta, sample_commit_end, meta_write_end, meta_head, stream_start,
                 provenance, closed, next_block, stream_end, gaps_total,
                 next_provenance_key, current_provenance, live_provenance,
                 slot_in_use, slot_cursor, record, log, readerVars>>

(* copy_in, one cell. *)
StoreSample ==
  /\ wpc = "samples" /\ stored < record.len
  /\ cells' = [cells EXCEPT ![(record.first_sample + stored) % SampleCap] =
                 record.first_sample + stored]
  /\ stored' = stored + 1
  /\ UNCHANGED <<meta, sample_write_end, sample_commit_end, meta_write_end, meta_head,
                 stream_start, provenance, closed, next_block, stream_end, gaps_total,
                 next_provenance_key, current_provenance, live_provenance,
                 slot_in_use, slot_cursor, wpc, record, log, readerVars>>

CommitSamples ==
  /\ wpc = "samples" /\ stored = record.len
  /\ sample_commit_end' = EndOf(record)
  /\ wpc' = "head"
  /\ stored' = 0
  /\ UNCHANGED <<cells, meta, sample_write_end, meta_write_end, meta_head, stream_start,
                 provenance, closed, next_block, stream_end, gaps_total,
                 next_provenance_key, current_provenance, live_provenance,
                 slot_in_use, slot_cursor, record, log, readerVars>>

(* The head store, and the writer's own fields after it.  (Waking waiters changes no
   state here: see RingReader.) *)
CommitHead ==
  /\ wpc = "head"
  /\ meta_head' = next_block + 1
  /\ next_block' = next_block + 1
  /\ stream_end' = EndOf(record)
  /\ gaps_total' = record.gaps_total
  /\ wpc' = "idle"
  /\ UNCHANGED <<cells, meta, sample_write_end, sample_commit_end, meta_write_end,
                 stream_start, provenance, closed, next_provenance_key,
                 current_provenance, live_provenance, slot_in_use, slot_cursor,
                 record, stored, log, readerVars>>

(* Drop for RingWriter. *)
Close ==
  /\ wpc = "idle" /\ ~closed
  /\ closed' = TRUE
  /\ UNCHANGED <<cells, meta, sample_write_end, sample_commit_end, meta_write_end,
                 meta_head, stream_start, provenance, writerVars, readerVars>>

WriterNext ==
  \/ \E first \in 0..MaxIndex, n \in BlockLens, p \in Provenances : BeginPush(first, n, p)
  \/ KeepProvenance \/ NewProvenance \/ SkipSlot \/ ClaimSlot \/ StoreStreamStart \/ StoreField
  \/ AnnounceSamples \/ StoreSample \/ CommitSamples \/ CommitHead \/ Close

-----------------------------------------------------------------------------
(* The readers.  Reader r is idle between calls; a call that returns None (or
   Overwritten) leaves it idle, one that succeeds leaves its result in place. *)

Forget(r) ==
  /\ rpc' = [rpc EXCEPT ![r] = "idle"]
  /\ block' = [block EXCEPT ![r] = 0]
  /\ loaded' = [loaded EXCEPT ![r] = <<>>]
  /\ from' = [from EXCEPT ![r] = 0]
  /\ count' = [count EXCEPT ![r] = 0]
  /\ out' = [out EXCEPT ![r] = <<>>]
  /\ handle' = [handle EXCEPT ![r] = NoHandle]
  /\ head' = [head EXCEPT ![r] = 0]
  /\ write_end' = [write_end EXCEPT ![r] = 0]

(* read_meta(b): the head load. *)
LoadHead(r, b) ==
  /\ rpc[r] = "idle"
  /\ b < meta_head
  /\ rpc' = [rpc EXCEPT ![r] = "fields"]
  /\ block' = [block EXCEPT ![r] = b]
  /\ UNCHANGED <<sharedVars, writerVars, loaded, from, count, out, handle, head, write_end>>

LoadField(r) ==
  /\ rpc[r] = "fields" /\ Len(loaded[r]) < Len(FieldOrder)
  /\ loaded' = [loaded EXCEPT ![r] =
       Append(@, meta[block[r] % BlockCap][FieldOrder[Len(@) + 1]])]
  /\ UNCHANGED <<sharedVars, writerVars, rpc, block, from, count, out, handle, head, write_end>>

Bug_ReturnMeta(r) ==
  /\ rpc[r] = "fields" /\ Len(loaded[r]) = Len(FieldOrder)
  /\ rpc' = [rpc EXCEPT ![r] = "meta"]
  /\ UNCHANGED <<sharedVars, writerVars, block, loaded, from, count, out, handle, head, write_end>>

(* read_meta: the write-end load decides whether the fields are one record's. *)
ReturnMeta(r) ==
  /\ rpc[r] = "fields" /\ Len(loaded[r]) = Len(FieldOrder)
  /\ block[r] >= oldest_valid_block
  /\ rpc' = [rpc EXCEPT ![r] = "meta"]
  /\ UNCHANGED <<sharedVars, writerVars, block, loaded, from, count, out, handle, head, write_end>>

RejectMeta(r) ==
  /\ rpc[r] = "fields" /\ Len(loaded[r]) = Len(FieldOrder)
  /\ block[r] < oldest_valid_block
  /\ Forget(r)
  /\ UNCHANGED <<sharedVars, writerVars>>

(* copy_out(first, n) inside the block just looked up, as ReaderState::step calls it:
   the commit-end load. *)
BeginCopy(r, first, n) ==
  /\ rpc[r] = "meta"
  /\ first >= FirstSample(r) /\ n > 0 /\ first + n <= FirstSample(r) + RecordLen(r)
  /\ rpc' = [rpc EXCEPT ![r] = IF first + n > sample_commit_end THEN "uncommitted" ELSE "copy"]
  /\ from' = [from EXCEPT ![r] = first]
  /\ count' = [count EXCEPT ![r] = n]
  /\ UNCHANGED <<sharedVars, writerVars, block, loaded, out, handle, head, write_end>>

LoadSample(r) ==
  /\ rpc[r] = "copy" /\ Len(out[r]) < count[r]
  /\ out' = [out EXCEPT ![r] = Append(@, cells[(from[r] + Len(@)) % SampleCap])]
  /\ UNCHANGED <<sharedVars, writerVars, rpc, block, loaded, from, count, handle, head, write_end>>

ReturnCopied(r) ==
  /\ rpc[r] = "copy" /\ Len(out[r]) = count[r]
  /\ from[r] >= oldest_valid_sample
  /\ rpc' = [rpc EXCEPT ![r] = "copied"]
  /\ UNCHANGED <<sharedVars, writerVars, block, loaded, from, count, out, handle, head, write_end>>

ReturnOverwritten(r) ==
  /\ rpc[r] = "copy" /\ Len(out[r]) = count[r]
  /\ from[r] < oldest_valid_sample
  /\ Forget(r)
  /\ UNCHANGED <<sharedVars, writerVars>>

(* provenance(key, slot): take the slot's mutex, compare, release. *)
LockEntry(r) ==
  /\ rpc[r] = "copied"
  /\ ProvenanceSlot(r) \notin Held
  /\ rpc' = [rpc EXCEPT ![r] = "lookup"]
  /\ UNCHANGED <<sharedVars, writerVars, block, loaded, from, count, out, handle, head, write_end>>

Bug_ReturnHandle(r) ==
  /\ rpc[r] = "lookup"
  /\ provenance[ProvenanceSlot(r)] # NoEntry
  /\ rpc' = [rpc EXCEPT ![r] = "chunk"]
  /\ handle' = [handle EXCEPT ![r] = provenance[ProvenanceSlot(r)].provenance]
  /\ UNCHANGED <<sharedVars, writerVars, block, loaded, from, count, out, head, write_end>>

ReturnHandle(r) ==
  /\ rpc[r] = "lookup"
  /\ provenance[ProvenanceSlot(r)].key = ProvenanceKey(r)
  /\ rpc' = [rpc EXCEPT ![r] = "chunk"]
  /\ handle' = [handle EXCEPT ![r] = provenance[ProvenanceSlot(r)].provenance]
  /\ UNCHANGED <<sharedVars, writerVars, block, loaded, from, count, out, head, write_end>>

ReturnNoHandle(r) ==
  /\ rpc[r] = "lookup"
  /\ provenance[ProvenanceSlot(r)].key # ProvenanceKey(r)
  /\ Forget(r)
  /\ UNCHANGED <<sharedVars, writerVars>>

(* meta_counters: head, write_end, head again, write_end again; disagreement retries. *)
CountersHead(r) ==
  /\ rpc[r] = "idle"
  /\ rpc' = [rpc EXCEPT ![r] = "counters_end"]
  /\ head' = [head EXCEPT ![r] = meta_head]
  /\ UNCHANGED <<sharedVars, writerVars, block, loaded, from, count, out, handle, write_end>>

CountersEnd(r) ==
  /\ rpc[r] = "counters_end"
  /\ rpc' = [rpc EXCEPT ![r] = "counters_head_again"]
  /\ write_end' = [write_end EXCEPT ![r] = meta_write_end]
  /\ UNCHANGED <<sharedVars, writerVars, block, loaded, from, count, out, handle, head>>

CountersHeadAgain(r) ==
  /\ rpc[r] = "counters_head_again" /\ head[r] = meta_head
  /\ rpc' = [rpc EXCEPT ![r] = "counters_end_again"]
  /\ UNCHANGED <<sharedVars, writerVars, block, loaded, from, count, out, handle, head, write_end>>

CountersEndAgain(r) ==
  /\ rpc[r] = "counters_end_again" /\ write_end[r] = meta_write_end
  /\ rpc' = [rpc EXCEPT ![r] = "counters"]
  /\ UNCHANGED <<sharedVars, writerVars, block, loaded, from, count, out, handle, head, write_end>>

(* A retry starts over from the first load, as an idle reader may. *)
CountersRetry(r) ==
  /\ \/ rpc[r] = "counters_head_again" /\ head[r] # meta_head
     \/ rpc[r] = "counters_end_again" /\ write_end[r] # meta_write_end
  /\ Forget(r)
  /\ UNCHANGED <<sharedVars, writerVars>>

(* The caller is done with a result. *)
Done(r) ==
  /\ rpc[r] \in {"meta", "uncommitted", "copied", "chunk", "counters"}
  /\ Forget(r)
  /\ UNCHANGED <<sharedVars, writerVars>>

ReaderNext(r) ==
  \/ \E b \in 0..MaxIndex : LoadHead(r, b)
  \/ LoadField(r) \/ ReturnMeta(r) \/ RejectMeta(r)
  \/ \E first \in 0..MaxIndex, n \in 1..SampleCap : BeginCopy(r, first, n)
  \/ LoadSample(r) \/ ReturnCopied(r) \/ ReturnOverwritten(r)
  \/ LockEntry(r) \/ ReturnHandle(r) \/ ReturnNoHandle(r)
  \/ CountersHead(r) \/ CountersEnd(r) \/ CountersHeadAgain(r) \/ CountersEndAgain(r)
  \/ CountersRetry(r)
  \/ Done(r)

Init ==
  /\ cells = [i \in Cells |-> -1]
  /\ meta = [s \in MetaSlots |-> [f \in MetaFields |-> 0]]
  /\ sample_write_end = 0 /\ sample_commit_end = 0
  /\ meta_write_end = 0 /\ meta_head = 0
  /\ stream_start = 0
  /\ provenance = [s \in TableSlots |-> NoEntry]
  /\ closed = FALSE
  /\ next_block = 0 /\ stream_end = -1 /\ gaps_total = 0
  /\ next_provenance_key = 0 /\ current_provenance = NoProvenance
  /\ live_provenance = <<>> /\ slot_in_use = {} /\ slot_cursor = 0
  /\ wpc = "idle" /\ record = NoRecord /\ stored = 0
  /\ log = <<>>
  /\ rpc = [r \in Readers |-> "idle"]
  /\ block = [r \in Readers |-> 0]
  /\ loaded = [r \in Readers |-> <<>>]
  /\ from = [r \in Readers |-> 0]
  /\ count = [r \in Readers |-> 0]
  /\ out = [r \in Readers |-> <<>>]
  /\ handle = [r \in Readers |-> NoHandle]
  /\ head = [r \in Readers |-> 0]
  /\ write_end = [r \in Readers |-> 0]

Next == WriterNext \/ \E r \in Readers : ReaderNext(r)

Spec == Init /\ [][Next]_vars

-----------------------------------------------------------------------------
(* Correctness *)

WriterPCs == {"idle", "provenance", "claim", "stream_start", "record", "samples", "head"}

(* States of a reader that holds (or is using) a record read_meta returned. *)
HasRecord == {"meta", "uncommitted", "copy", "copied", "lookup", "chunk"}

HasSamples == {"copied", "lookup", "chunk"}

ReaderPCs == HasRecord \cup {"idle", "fields", "counters_end", "counters_head_again",
                             "counters_end_again", "counters"}

Handles == Provenances \cup {NoHandle}

Record == [first_sample : Nat, len : Nat, gaps_total : Nat,
           provenance : Handles,
           provenance_key : Nat, provenance_slot : TableSlots]

LiveKey == [key : Nat, first_block : Nat, slot : TableSlots]

SharedType ==
  /\ cells \in [Cells -> Int]
  /\ meta \in [MetaSlots -> [MetaFields -> Nat]]
  /\ sample_write_end \in Nat /\ sample_commit_end \in Nat
  /\ meta_write_end \in Nat /\ meta_head \in Nat
  /\ stream_start \in Nat
  /\ provenance \in [TableSlots -> [key : Nat, provenance : Handles] \cup {NoEntry}]
  /\ closed \in BOOLEAN

WriterType ==
  /\ next_block \in Nat /\ stream_end \in Nat \cup {-1} /\ gaps_total \in Nat
  /\ next_provenance_key \in Nat /\ (wpc = "claim" => next_provenance_key > 0)
  /\ current_provenance \in
       [key : Nat, slot : TableSlots, provenance : Handles] \cup {NoProvenance}
  /\ live_provenance \in Seq(LiveKey)
  /\ slot_in_use \subseteq TableSlots /\ slot_cursor \in TableSlots
  /\ wpc \in WriterPCs /\ record \in Record /\ stored \in Nat
  /\ log \in Seq(Record)

ReaderType ==
  /\ rpc \in [Readers -> ReaderPCs]
  /\ block \in [Readers -> Nat]
  /\ loaded \in [Readers -> Seq(Nat)]
  /\ from \in [Readers -> Nat] /\ count \in [Readers -> Nat]
  /\ out \in [Readers -> Seq(Int)]
  /\ DOMAIN handle = Readers
  /\ head \in [Readers -> Nat] /\ write_end \in [Readers -> Nat]

(* Every counter, record and frame has the type the code declares. *)
TypeOK == SharedType /\ WriterType /\ ReaderType

(* A record read_meta returns is one block's, whole, whatever the writer stored into
   the slot while it was loaded field by field. *)
NoTornRecord ==
  \A r \in Readers : rpc[r] \in HasRecord =>
    /\ block[r] < Len(log)
    /\ loaded[r] = Fields(log[block[r] + 1])

(* Samples copy_out returns as Copied are the stream's, each at its own index: none was
   overwritten by a later block and none is from before the block was stored. *)
CopiedSamplesExact ==
  \A r \in Readers : rpc[r] \in HasSamples =>
    out[r] = [i \in 1..count[r] |-> from[r] + i - 1]

(* The handle a lookup returns is the one in force when the block was recorded, even
   though its table slot may have been reused since. *)
HandleIsTheBlocks ==
  \A r \in Readers : rpc[r] = "chunk" => handle[r] = log[block[r] + 1].provenance

(* push never waits on readers: at most block_capacity + 1 live keys, so claim_slot
   finds a slot no lookup holds. *)
PushNeverWaits ==
  /\ Len(live_provenance) <= BlockCap + 1
  /\ wpc = "claim" => TableSlots \ (slot_in_use \cup Held) # {}

(* The ring implements the abstract log: records being written count as announced. *)
Published(m) == [first_sample |-> m.first_sample, len |-> m.len,
                 gaps_total |-> m.gaps_total, provenance |-> m.provenance]

AnnouncedLog ==
  LET blocks == IF wpc \in {"provenance", "claim"} THEN Append(log, record) ELSE log
  IN  [i \in 1..Len(blocks) |-> Published(blocks[i])]

Phase == CASE wpc = "idle"                                   -> "idle"
           [] wpc \in {"provenance", "claim", "stream_start", "record"} -> "recording"
           [] wpc = "samples"                                -> "storing"
           [] OTHER                                          -> "committing"

RL == INSTANCE RingLog WITH log <- AnnouncedLog, phase <- Phase

(* Each step of push is a step of the abstract log or none. *)
ImplementsRingLog == RL!RingSpec

(* read_meta succeeds and fails exactly where the abstract lookup does at the load that
   decides it, and the stream start it goes with is block 0's. *)
MetaIsAbstractMeta ==
  [][\A r \in Readers :
       /\ ReturnMeta(r) => /\ RL!HasMeta(block[r])
                           /\ RL!Meta(block[r]).first_sample = FirstSample(r)
                           /\ stream_start = RL!stream_start
       /\ RejectMeta(r) => ~RL!HasMeta(block[r])]_vars
=============================================================================
