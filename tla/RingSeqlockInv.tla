--------------------------- MODULE RingSeqlockInv --------------------------
(* The inductive invariant behind RingSeqlock's safety properties: the records, the samples *)
(* and the provenance table, each with what a reader in the middle of a lookup knows of it. *)
EXTENDS RingSeqlock

-----------------------------------------------------------------------------
(* Records *)

(* push has not added its block to the ghost log yet. *)
Unlogged == {"idle", "provenance", "claim"}

(* Where push is decides how far the counters and the ghost log have come. *)
CountersInv ==
  /\ next_block = meta_head
  /\ meta_write_end = IF wpc = "idle" THEN meta_head ELSE meta_head + 1
  /\ Len(log) = IF wpc \in Unlogged THEN meta_head ELSE meta_head + 1
  /\ wpc \notin Unlogged => log[Len(log)] = record
  /\ wpc = "record" => stored <= Len(FieldOrder)

(* Field i of the block being pushed is in its slot. *)
FieldStored(i) == wpc \in {"samples", "head"} \/ (wpc = "record" /\ i <= stored)

(* Every record that a lookup would still accept is intact in its slot. *)
RecordsIntact ==
  \A b \in 0..(Len(log) - 1) : b >= oldest_valid_block =>
    \A i \in 1..Len(FieldOrder) : b < meta_head \/ FieldStored(i) =>
      meta[b % BlockCap][FieldOrder[i]] = log[b + 1][FieldOrder[i]]

(* What a lookup has loaded so far is its block's, or the block is already invalid. *)
LoadedInv(r) ==
  /\ rpc[r] \in HasRecord \cup {"fields"} => block[r] < meta_head
  /\ rpc[r] = "idle" => loaded[r] = <<>>
  /\ rpc[r] = "fields" =>
       /\ Len(loaded[r]) <= Len(FieldOrder)
       /\ \/ block[r] < oldest_valid_block
          \/ \A i \in 1..Len(loaded[r]) : loaded[r][i] = log[block[r] + 1][FieldOrder[i]]
  /\ rpc[r] \in HasRecord =>
       /\ Len(loaded[r]) = Len(FieldOrder)
       /\ \A i \in 1..Len(FieldOrder) : loaded[r][i] = log[block[r] + 1][FieldOrder[i]]

RecordInv == TypeOK /\ CountersInv /\ RecordsIntact /\ \A r \in Readers : LoadedInv(r)

-----------------------------------------------------------------------------
(* Samples *)

(* Where the samples end while push is outside the given stages: with the last block. *)
EndDuring(stages) ==
  IF wpc \in stages THEN EndOf(record)
  ELSE IF meta_head = 0 THEN 0 ELSE EndOf(log[meta_head])

(* The writer's own fields describe the last committed block, no block reaches past its end, *)
(* and a push begins there or later.                                                         *)
StreamInv ==
  /\ stream_end = IF meta_head = 0 THEN -1 ELSE EndOf(log[meta_head])
  /\ gaps_total = IF meta_head = 0 THEN 0 ELSE log[meta_head].gaps_total
  /\ \A b \in 1..meta_head : EndOf(log[b]) <= stream_end
  /\ wpc # "idle" => record.first_sample >= stream_end
  /\ sample_write_end = EndDuring({"samples", "head"})
  /\ sample_commit_end = EndDuring({"head"})

(* Sample i of the block being pushed is in its cell. *)
SampleStored(i) == wpc = "head" \/ (wpc = "samples" /\ i < record.first_sample + stored)

SamplesOf(m) == m.first_sample..(EndOf(m) - 1)

(* Every sample a copy would still accept is in its cell. *)
SamplesIntact ==
  \A b \in 0..(Len(log) - 1) : \A i \in SamplesOf(log[b + 1]) :
    i >= oldest_valid_sample /\ (b < meta_head \/ SampleStored(i)) => cells[i % SampleCap] = i

(* What a copy has loaded so far is the stream's, or its first sample is already invalid. *)
CopyInv(r) ==
  /\ rpc[r] # "uncommitted"
  /\ rpc[r] \notin {"copy"} \cup HasSamples => out[r] = <<>>
  /\ rpc[r] = "copy" =>
       /\ log[block[r] + 1].first_sample <= from[r]
       /\ from[r] + count[r] <= EndOf(log[block[r] + 1])
       /\ Len(out[r]) <= count[r]
       /\ \/ from[r] < oldest_valid_sample
          \/ \A i \in 1..Len(out[r]) : out[r][i] = from[r] + i - 1
  /\ rpc[r] \in HasSamples =>
       /\ Len(out[r]) = count[r]
       /\ \A i \in 1..count[r] : out[r][i] = from[r] + i - 1

(* The stream starts where block 0 does, from the store that push makes for block 0. *)
StreamStartInv ==
  meta_head > 0 \/ wpc \in {"record", "samples", "head"} => stream_start = log[1].first_sample

SampleInv == StreamInv /\ SamplesIntact /\ \A r \in Readers : CopyInv(r)

-----------------------------------------------------------------------------
(* Provenances *)

(* Keys handed out so far, the one being claimed left out. *)
UsedKeys == 0..((IF wpc = "claim" THEN next_provenance_key - 1 ELSE next_provenance_key) - 1)

(* A key names one handle for good: in the log, in the table and in the writer's hands. *)
KeysNameHandles ==
  /\ \A b \in 1..Len(log) : log[b].provenance_key \in UsedKeys
  /\ \A s \in TableSlots : provenance[s] # NoEntry =>
       /\ provenance[s].key \in UsedKeys
       /\ \A b \in 1..Len(log) :
            provenance[s].key = log[b].provenance_key =>
              provenance[s].provenance = log[b].provenance
  /\ current_provenance # NoProvenance =>
       /\ current_provenance.key \in UsedKeys
       /\ provenance[current_provenance.slot] =
            [key |-> current_provenance.key, provenance |-> current_provenance.provenance]
       /\ \A s \in TableSlots :
            provenance[s].key = current_provenance.key =>
              provenance[s].provenance = current_provenance.provenance

HandleInv == KeysNameHandles /\ HandleIsTheBlocks

LiveKeys == 1..Len(live_provenance)

(* The live keys, oldest first: each with a slot of its own and a later first block than the *)
(* one before, the last being the current one.                                               *)
LiveOrder ==
  /\ slot_in_use = {live_provenance[i].slot : i \in LiveKeys}
  /\ \A i, j \in LiveKeys : live_provenance[i].slot = live_provenance[j].slot => i = j
  /\ \A i, j \in LiveKeys : i <= j =>
       live_provenance[i].first_block + (j - i) <= live_provenance[j].first_block
  /\ \A i \in LiveKeys :
       /\ live_provenance[i].first_block < Len(log)
       /\ provenance[live_provenance[i].slot].key = live_provenance[i].key
  /\ current_provenance # NoProvenance =>
       /\ live_provenance # <<>>
       /\ LET last == live_provenance[Len(live_provenance)]
          IN  last.key = current_provenance.key /\ last.slot = current_provenance.slot
  /\ Len(live_provenance) <= IF wpc = "claim" THEN BlockCap ELSE BlockCap + 1

(* Live key i is the one block b was recorded with. *)
KeyOf(i, b) ==
  /\ live_provenance[i].first_block <= b
  /\ i < Len(live_provenance) => b < live_provenance[i + 1].first_block
  /\ live_provenance[i].key = log[b + 1].provenance_key
  /\ live_provenance[i].slot = log[b + 1].provenance_slot

(* The key of every block still retained is live. *)
RetainedLive ==
  \A b \in 0..(Len(log) - 1) : b >= oldest_valid_block => \E i \in LiveKeys : KeyOf(i, b)

TableInv == LiveOrder /\ RetainedLive

-----------------------------------------------------------------------------

RingInv == RecordInv /\ SampleInv /\ StreamStartInv /\ HandleInv /\ TableInv
=============================================================================
