------------------------- MODULE RingSeqlockProofs -------------------------
(***************************************************************************)
(* Proofs about RingSeqlock for every capacity, every set of readers and   *)
(* every counter width.                                                    *)
(***************************************************************************)
EXTENDS RingSeqlockInv, SequenceTheorems, FiniteSetTheorems, TLAPS

USE SeqlockAssumption

(* Two block (or sample) indices less than a capacity apart use different slots. *)
LEMMA DistinctSlots ==
  ASSUME NEW c \in Nat \ {0}, NEW a \in Nat, NEW b \in Nat, a < b, b < a + c
  PROVE  a % c # b % c
<1>1. a = c * (a \div c) + (a % c) /\ a % c \in 0..(c - 1) /\ a \div c \in Nat
  OBVIOUS
<1>2. b = c * (b \div c) + (b % c) /\ b % c \in 0..(c - 1) /\ b \div c \in Nat
  OBVIOUS
<1>3. SUFFICES ASSUME a % c = b % c PROVE FALSE
  OBVIOUS
<1>4. b - a = c * ((b \div c) - (a \div c))
  BY <1>1, <1>2, <1>3
<1>5. (b \div c) - (a \div c) > 0
  BY <1>1, <1>2, <1>3, <1>4
<1>6. c * ((b \div c) - (a \div c)) >= c
  BY <1>5, <1>1, <1>2
<1> QED BY <1>4, <1>6

(* A slot index is in range. *)
LEMMA SlotRange ==
  ASSUME NEW c \in Nat \ {0}, NEW a \in Nat
  PROVE  a % c \in 0..(c - 1)
  OBVIOUS

(* The retained windows only move forward. *)
LEMMA SatSubMonotone ==
  ASSUME NEW a \in Nat, NEW b \in Nat, NEW c \in Nat, a <= b
  PROVE  SatSub(a, c) \in Nat /\ SatSub(a, c) <= SatSub(b, c)
  BY DEF SatSub

(* FieldOrder lists five distinct metadata fields. *)
LEMMA FieldOrderFacts ==
  /\ Len(FieldOrder) = 5
  /\ \A i \in 1..5 : FieldOrder[i] \in MetaFields
  /\ \A i, j \in 1..5 : i # j => FieldOrder[i] # FieldOrder[j]
  BY DEF FieldOrder, MetaFields

(* Every metadata field of a record is a number. *)
LEMMA RecordFieldNat ==
  ASSUME NEW m \in Record, NEW f \in MetaFields
  PROVE  m[f] \in Nat
<1>1. CASE f = "first_sample"  BY <1>1 DEF Record
<1>2. CASE f = "len"  BY <1>2 DEF Record
<1>3. CASE f = "gaps_total"  BY <1>3 DEF Record
<1>4. CASE f = "provenance_key"  BY <1>4 DEF Record
<1>5. CASE f = "provenance_slot"
  BY <1>5 DEF Record, TableSlots, provenance_table_len
<1> QED BY <1>1, <1>2, <1>3, <1>4, <1>5 DEF MetaFields

LEMMA TypeInit == Init => TypeOK
<1> SUFFICES ASSUME Init PROVE TypeOK
  OBVIOUS
<1> USE DEF Init
<1>1. SharedType
  <2>1. meta \in [MetaSlots -> [MetaFields -> Nat]]
    OBVIOUS
  <2>2. provenance \in [TableSlots -> [key : Nat, provenance : Handles] \cup {NoEntry}]
    OBVIOUS
  <2>3. cells \in [Cells -> Int]
    OBVIOUS
  <2> QED BY <2>1, <2>2, <2>3 DEF SharedType
<1>2. WriterType
  <2>1. 0 \in TableSlots
    BY DEF TableSlots, provenance_table_len
  <2>2. record \in Record
    BY <2>1 DEF Record, NoRecord, Handles
  <2>3. live_provenance \in Seq(LiveKey) /\ log \in Seq(Record)
    OBVIOUS
  <2>4. current_provenance \in {NoProvenance} /\ wpc \in WriterPCs
    BY DEF WriterPCs
  <2> QED BY <2>1, <2>2, <2>3, <2>4 DEF WriterType
<1>3. ReaderType
  BY DEF ReaderType, ReaderPCs, NoHandle
<1> QED BY <1>1, <1>2, <1>3 DEF TypeOK

LEMMA WriterTypeStep == TypeOK /\ WriterNext => TypeOK'
<1> SUFFICES ASSUME TypeOK, WriterNext PROVE TypeOK'
  OBVIOUS
<1> USE DEF TypeOK, SharedType, WriterType
<1>r. ReaderType'
  <2>1. UNCHANGED readerVars
    BY DEF WriterNext, BeginPush, KeepProvenance, NewProvenance, SkipSlot, ClaimSlot,
           StoreStreamStart, StoreField,
           AnnounceSamples, StoreSample, CommitSamples, CommitHead, Close
  <2> QED BY <2>1 DEF ReaderType, readerVars
<1> SUFFICES SharedType' /\ WriterType'
  BY <1>r
<1>1. ASSUME NEW first \in 0..MaxIndex, NEW n \in BlockLens, NEW p \in Provenances,
             BeginPush(first, n, p)
      PROVE  SharedType' /\ WriterType'
  <2>1. stream_end # -1 => first >= stream_end
    BY <1>1 DEF BeginPush, PushError
  <2>2. record' \in Record
    <3>1. 0 \in TableSlots /\ p \in Handles
      BY DEF TableSlots, provenance_table_len, Handles
    <3>2. first \in Nat /\ n \in Nat
      OBVIOUS
    <3>3. GapsTotal(first) \in Nat
      BY <2>1, <3>2 DEF GapsTotal
    <3> QED BY <1>1, <3>1, <3>2, <3>3 DEF BeginPush, Record
  <2> QED BY <1>1, <2>2 DEF BeginPush, WriterPCs
<1>2. CASE KeepProvenance
  <2>1. current_provenance \in [key : Nat, slot : TableSlots, provenance : Handles]
    BY <1>2 DEF KeepProvenance, SameProvenance
  <2>2. record' \in Record
    BY <1>2, <2>1 DEF KeepProvenance, UseRecord, Record
  <2>3. /\ wpc' \in WriterPCs /\ wpc' # "claim" /\ log' = Append(log, record')
        /\ UNCHANGED <<sharedVars, next_block, stream_end, gaps_total, next_provenance_key,
                       current_provenance, live_provenance, slot_in_use, slot_cursor, stored>>
    BY <1>2 DEF KeepProvenance, UseRecord, WriterPCs
  <2>4. log' \in Seq(Record)
    BY <2>2, <2>3
  <2> QED BY <2>2, <2>3, <2>4 DEF sharedVars
<1>3. CASE NewProvenance
  <2>1. PICK n \in 0..Len(live_provenance) :
          /\ live_provenance' = SubSeq(live_provenance, n + 1, Len(live_provenance))
          /\ slot_in_use' = slot_in_use \ {live_provenance[i].slot : i \in 1..n}
    BY <1>3 DEF NewProvenance
  <2>2. live_provenance' \in Seq(LiveKey) /\ slot_in_use' \subseteq TableSlots
    BY <2>1
  <2>3. next_provenance_key' \in Nat /\ next_provenance_key' > 0 /\ wpc' \in WriterPCs
    BY <1>3 DEF NewProvenance, WriterPCs
  <2> QED BY <1>3, <2>2, <2>3 DEF NewProvenance, sharedVars
<1>a. AdvanceCursor => slot_cursor' \in TableSlots
  <2>1. provenance_table_len \in Nat \ {0} /\ slot_cursor + 1 \in Nat
    BY DEF provenance_table_len, TableSlots
  <2>2. (slot_cursor + 1) % provenance_table_len \in 0..(provenance_table_len - 1)
    BY <2>1, SlotRange
  <2> QED BY <2>2 DEF AdvanceCursor, TableSlots
<1>11. CASE SkipSlot
  BY <1>11, <1>a DEF SkipSlot, sharedVars
<1>12. CASE ClaimSlot
  <2> DEFINE key == next_provenance_key - 1
             slot == slot_cursor
  <2>1. /\ key \in Nat /\ slot \in TableSlots
        /\ record.provenance \in Handles
    BY <1>12 DEF ClaimSlot, Record
  <2>2. /\ provenance' = [provenance EXCEPT ![slot] =
                            [key |-> key, provenance |-> record.provenance]]
        /\ slot_in_use' = slot_in_use \cup {slot}
        /\ live_provenance' =
             Append(live_provenance, [key |-> key, first_block |-> next_block, slot |-> slot])
        /\ current_provenance' =
             [key |-> key, slot |-> slot, provenance |-> record.provenance]
        /\ UseRecord(key, slot)
    BY <1>12 DEF ClaimSlot, Entry
  <2> HIDE DEF key, slot
  <2>3. record' \in Record /\ log' \in Seq(Record) /\ wpc' \in WriterPCs /\ wpc' # "claim"
    <3>1. record' = [record EXCEPT !.provenance_key = key, !.provenance_slot = slot]
      BY <2>2 DEF UseRecord
    <3>2. record' \in Record
      BY <2>1, <3>1 DEF Record
    <3>3. log' = Append(log, record')
      BY <2>2 DEF UseRecord
    <3> QED BY <2>2, <3>2, <3>3 DEF UseRecord, WriterPCs
  <2>4. slot_cursor' \in TableSlots
    BY <1>12, <1>a DEF ClaimSlot
  <2>5. live_provenance' \in Seq(LiveKey)
    <3>1. [key |-> key, first_block |-> next_block, slot |-> slot] \in LiveKey
      BY <2>1 DEF LiveKey
    <3> QED BY <2>2, <3>1
  <2>6. provenance' \in [TableSlots -> [key : Nat, provenance : Handles] \cup {NoEntry}]
    BY <2>1, <2>2
  <2>7. current_provenance' \in [key : Nat, slot : TableSlots, provenance : Handles]
    BY <2>1, <2>2
  <2>8. slot_in_use' \subseteq TableSlots
    BY <2>1, <2>2
  <2>9. UNCHANGED <<cells, meta, sample_write_end, sample_commit_end, meta_write_end,
                    meta_head, stream_start, closed, next_block, stream_end, gaps_total,
                    next_provenance_key, stored>>
    BY <1>12 DEF ClaimSlot
  <2> QED BY <2>3, <2>4, <2>5, <2>6, <2>7, <2>8, <2>9
<1>4. CASE StoreStreamStart
  BY <1>4 DEF StoreStreamStart, StreamStart, WriterPCs, Record
<1>5. CASE StoreField
  <2>1. FieldOrder[stored + 1] \in MetaFields /\ next_block % BlockCap \in MetaSlots
    <3>1. stored + 1 \in 1..5
      BY <1>5, FieldOrderFacts DEF StoreField
    <3>2. next_block % BlockCap \in 0..(BlockCap - 1)
      BY SlotRange
    <3> QED BY <3>1, <3>2, FieldOrderFacts DEF MetaSlots
  <2>2. record[FieldOrder[stored + 1]] \in Nat
    BY <2>1, RecordFieldNat
  <2> QED BY <1>5, <2>1, <2>2 DEF StoreField
<1>6. CASE AnnounceSamples
  BY <1>6 DEF AnnounceSamples, EndOf, Record, WriterPCs
<1>7. CASE StoreSample
  <2>1. record.first_sample + stored \in Int
    BY DEF Record
  <2>2. cells' \in [Cells -> Int]
    BY <1>7, <2>1 DEF StoreSample
  <2> QED BY <1>7, <2>2 DEF StoreSample
<1>8. CASE CommitSamples
  BY <1>8 DEF CommitSamples, EndOf, Record, WriterPCs
<1>9. CASE CommitHead
  BY <1>9 DEF CommitHead, EndOf, Record, WriterPCs
<1>10. CASE Close
  BY <1>10 DEF Close, writerVars
<1> QED BY <1>r, <1>1, <1>2, <1>3, <1>4, <1>5, <1>6, <1>7, <1>8, <1>9, <1>10, <1>11, <1>12
        DEF WriterNext

LEMMA ReaderTypeStep ==
  ASSUME TypeOK, NEW r \in Readers, ReaderNext(r)
  PROVE  TypeOK'
<1> USE DEF TypeOK, ReaderType
<1>s. SharedType' /\ WriterType'
  <2>1. UNCHANGED <<sharedVars, writerVars>>
    BY DEF ReaderNext, LoadHead, LoadField, ReturnMeta, RejectMeta, BeginCopy, LoadSample,
           ReturnCopied, ReturnOverwritten, LockEntry, ReturnHandle, ReturnNoHandle,
           CountersHead, CountersEnd, CountersHeadAgain, CountersEndAgain, CountersRetry, Done
  <2> QED BY <2>1 DEF SharedType, WriterType, sharedVars, writerVars
<1> SUFFICES ReaderType'
  BY <1>s
<1> USE DEF ReaderPCs, HasRecord
<1>f. ASSUME Forget(r) PROVE ReaderType'
  BY <1>f DEF Forget
<1>1. ASSUME NEW b \in 0..MaxIndex, LoadHead(r, b) PROVE ReaderType'
  BY <1>1 DEF LoadHead
<1>2. CASE LoadField(r)
  <2> DEFINE i == Len(loaded[r]) + 1
             s == block[r] % BlockCap
             v == meta[s][FieldOrder[i]]
  <2>1. block[r] \in Nat /\ loaded[r] \in Seq(Nat)
    OBVIOUS
  <2>2. i \in 1..5
    <3>1. Len(loaded[r]) < 5 /\ Len(loaded[r]) \in Nat
      BY <1>2, <2>1, FieldOrderFacts DEF LoadField
    <3>2. ASSUME NEW k \in Nat, k < 5 PROVE k + 1 \in 1..5
      BY <3>2
    <3> QED BY <3>1, <3>2
  <2>3. s \in MetaSlots
    BY <2>1, SlotRange DEF MetaSlots
  <2>4. v \in Nat
    <3> HIDE DEF i, s
    <3> QED BY <2>2, <2>3, FieldOrderFacts DEF SharedType
  <2>5. loaded' = [loaded EXCEPT ![r] = Append(loaded[r], v)]
    BY <1>2 DEF LoadField
  <2>6. Append(loaded[r], v) \in Seq(Nat)
    <3> HIDE DEF v
    <3> QED BY <2>1, <2>4
  <2>7. loaded' \in [Readers -> Seq(Nat)]
    <3> HIDE DEF v
    <3> QED BY <2>5, <2>6
  <2> QED BY <1>2, <2>7 DEF LoadField
<1>3. CASE ReturnMeta(r)
  BY <1>3 DEF ReturnMeta
<1>4. CASE RejectMeta(r)
  BY <1>4, <1>f DEF RejectMeta
<1>5. ASSUME NEW first \in 0..MaxIndex, NEW n \in 1..SampleCap, BeginCopy(r, first, n)
      PROVE  ReaderType'
  BY <1>5 DEF BeginCopy
<1>6. CASE LoadSample(r)
  <2> DEFINE c == (from[r] + Len(out[r])) % SampleCap
  <2>1. from[r] + Len(out[r]) \in Nat /\ out[r] \in Seq(Int)
    OBVIOUS
  <2>2. c \in Cells
    BY <2>1, SlotRange DEF Cells
  <2>3. cells[c] \in Int
    <3> HIDE DEF c
    <3> QED BY <2>2 DEF SharedType
  <2>4. out' = [out EXCEPT ![r] = Append(out[r], cells[c])]
    BY <1>6 DEF LoadSample
  <2>5. out' \in [Readers -> Seq(Int)]
    <3> HIDE DEF c
    <3>1. Append(out[r], cells[c]) \in Seq(Int)
      BY <2>1, <2>3
    <3> QED BY <2>4, <3>1
  <2> QED BY <1>6, <2>5 DEF LoadSample
<1>7. CASE ReturnCopied(r)
  BY <1>7 DEF ReturnCopied
<1>8. CASE ReturnOverwritten(r)
  BY <1>8, <1>f DEF ReturnOverwritten
<1>9. CASE LockEntry(r)
  BY <1>9 DEF LockEntry
<1>10. CASE ReturnHandle(r)
  BY <1>10 DEF ReturnHandle
<1>11. CASE ReturnNoHandle(r)
  BY <1>11, <1>f DEF ReturnNoHandle
<1>12. CASE CountersHead(r)
  BY <1>12 DEF CountersHead, SharedType
<1>13. CASE CountersEnd(r)
  BY <1>13 DEF CountersEnd, SharedType
<1>14. CASE CountersHeadAgain(r)
  BY <1>14 DEF CountersHeadAgain
<1>15. CASE CountersEndAgain(r)
  BY <1>15 DEF CountersEndAgain
<1>16. CASE CountersRetry(r)
  BY <1>16, <1>f DEF CountersRetry
<1>17. CASE Done(r)
  BY <1>17, <1>f DEF Done
<1> QED BY <1>1, <1>2, <1>3, <1>4, <1>5, <1>6, <1>7, <1>8, <1>9, <1>10, <1>11, <1>12, <1>13,
           <1>14, <1>15, <1>16, <1>17 DEF ReaderNext

LEMMA TypeStep == TypeOK /\ [Next]_vars => TypeOK'
<1> SUFFICES ASSUME TypeOK, [Next]_vars PROVE TypeOK'
  OBVIOUS
<1>1. CASE WriterNext
  BY <1>1, WriterTypeStep
<1>2. ASSUME NEW r \in Readers, ReaderNext(r) PROVE TypeOK'
  BY <1>2, ReaderTypeStep
<1>3. CASE UNCHANGED vars
  BY <1>3 DEF vars, sharedVars, writerVars, readerVars, TypeOK, SharedType, WriterType, ReaderType
<1> QED BY <1>1, <1>2, <1>3 DEF Next

(* Every counter, record, table entry and reader frame of the ring has its type. *)
THEOREM RingTyped == Spec => []TypeOK
  BY TypeInit, TypeStep, PTL DEF Spec

-----------------------------------------------------------------------------
(* The record half of the seqlock *)

LEMMA RecordInit == Init => RecordInv
<1> SUFFICES ASSUME Init PROVE RecordInv
  OBVIOUS
<1>1. TypeOK
  BY TypeInit
<1>2. CountersInv
  BY DEF Init, CountersInv, Unlogged
<1>3. RecordsIntact
  BY DEF Init, RecordsIntact
<1>4. \A r \in Readers : LoadedInv(r)
  BY DEF Init, LoadedInv, HasRecord
<1> QED BY <1>1, <1>2, <1>3, <1>4 DEF RecordInv

(* push only moves the counters up and only appends to the log. *)
LEMMA WriterGrows ==
  ASSUME TypeOK, CountersInv, WriterNext
  PROVE  /\ CountersInv'
         /\ meta_head' >= meta_head /\ meta_write_end' >= meta_write_end
         /\ oldest_valid_block' >= oldest_valid_block
         /\ Len(log) <= Len(log')
         /\ \A i \in 1..Len(log) : log'[i] = log[i]
<1> USE DEF CountersInv, Unlogged
<1> USE FieldOrderFacts
<1>t. /\ log \in Seq(Record) /\ meta_head \in Nat /\ meta_write_end \in Nat
      /\ next_block \in Nat /\ stored \in Nat /\ record' \in Record
  BY WriterTypeStep DEF TypeOK, SharedType, WriterType
<1> SUFFICES /\ CountersInv'
             /\ meta_head' >= meta_head /\ meta_write_end' >= meta_write_end
             /\ Len(log) <= Len(log')
             /\ \A i \in 1..Len(log) : log'[i] = log[i]
  <2>1. meta_write_end' \in Nat
    BY WriterTypeStep DEF TypeOK, SharedType
  <2>2. ASSUME meta_write_end' >= meta_write_end
        PROVE  oldest_valid_block' >= oldest_valid_block
    <3>1. SatSub(meta_write_end, BlockCap) <= SatSub(meta_write_end', BlockCap)
      BY <1>t, <2>1, <2>2, SatSubMonotone
    <3> QED BY <3>1, <1>t, <2>1 DEF oldest_valid_block, SatSub
  <2> QED BY <2>2
<1>1. ASSUME NEW first \in 0..MaxIndex, NEW n \in BlockLens, NEW p \in Provenances,
             BeginPush(first, n, p)
      PROVE  /\ CountersInv'
             /\ meta_head' >= meta_head /\ meta_write_end' >= meta_write_end
             /\ log' = log
  BY <1>t, <1>1 DEF BeginPush
<1>2. CASE KeepProvenance \/ ClaimSlot
  <2>1. /\ wpc \in {"provenance", "claim"} /\ wpc' = "stream_start"
        /\ log' = Append(log, record')
        /\ UNCHANGED <<meta_head, meta_write_end, next_block>>
    BY <1>2 DEF KeepProvenance, ClaimSlot, UseRecord, sharedVars
  <2> QED BY <1>t, <2>1
<1>10. CASE NewProvenance \/ SkipSlot
  <2>1. /\ wpc \in {"provenance", "claim"} /\ wpc' = "claim"
        /\ UNCHANGED <<log, meta_head, meta_write_end, next_block>>
    BY <1>10 DEF NewProvenance, SkipSlot, sharedVars
  <2> QED BY <1>t, <2>1
<1>3. CASE StoreStreamStart
  BY <1>t, <1>3 DEF StoreStreamStart
<1>4. CASE StoreField
  BY <1>t, <1>4 DEF StoreField
<1>5. CASE AnnounceSamples
  BY <1>t, <1>5 DEF AnnounceSamples
<1>6. CASE StoreSample
  BY <1>t, <1>6 DEF StoreSample
<1>7. CASE CommitSamples
  BY <1>t, <1>7 DEF CommitSamples
<1>8. CASE CommitHead
  BY <1>t, <1>8 DEF CommitHead
<1>9. CASE Close
  BY <1>t, <1>9 DEF Close, writerVars
<1> QED BY <1>t, <1>1, <1>2, <1>3, <1>4, <1>5, <1>6, <1>7, <1>8, <1>9, <1>10 DEF WriterNext

(* A push spoils no record that would still be accepted: the slot it writes belongs to the
   block its announcement just invalidated. *)
LEMMA WriterKeepsRecords ==
  ASSUME RecordInv, WriterNext
  PROVE  RecordsIntact'
<1> USE DEF RecordInv
<1>t. /\ log \in Seq(Record) /\ meta_head \in Nat /\ meta_write_end \in Nat
      /\ next_block \in Nat /\ stored \in Nat
      /\ meta \in [MetaSlots -> [MetaFields -> Nat]]
  BY DEF TypeOK, SharedType, WriterType
<1>g. /\ CountersInv'
      /\ meta_head' >= meta_head /\ meta_write_end' >= meta_write_end
      /\ oldest_valid_block' >= oldest_valid_block
      /\ Len(log) <= Len(log')
      /\ \A i \in 1..Len(log) : log'[i] = log[i]
  BY WriterGrows
<1>h. /\ meta_head' \in Nat /\ log' \in Seq(Record)
      /\ oldest_valid_block \in Nat /\ oldest_valid_block' \in Nat
  BY <1>t, WriterTypeStep DEF TypeOK, SharedType, WriterType, oldest_valid_block, SatSub
<1> SUFFICES ASSUME NEW b \in 0..(Len(log') - 1), b >= oldest_valid_block',
                    NEW i \in 1..5, b < meta_head' \/ FieldStored(i)'
             PROVE  meta'[b % BlockCap][FieldOrder[i]] = log'[b + 1][FieldOrder[i]]
  BY FieldOrderFacts DEF RecordsIntact
<1>b. b \in Nat /\ b >= oldest_valid_block
  BY <1>g, <1>h
<1>o. ASSUME b < Len(log), b < meta_head \/ FieldStored(i)
      PROVE  /\ log'[b + 1] = log[b + 1]
             /\ meta[b % BlockCap][FieldOrder[i]] = log[b + 1][FieldOrder[i]]
  <2>1. b \in 0..(Len(log) - 1) /\ b + 1 \in 1..Len(log)
    BY <1>o, <1>b, <1>t
  <2> QED BY <2>1, <1>o, <1>b, <1>g, FieldOrderFacts DEF RecordsIntact
<1>1. ASSUME NEW first \in 0..MaxIndex, NEW n \in BlockLens, NEW p \in Provenances,
             BeginPush(first, n, p)
      PROVE  meta'[b % BlockCap][FieldOrder[i]] = log'[b + 1][FieldOrder[i]]
  <2>1. log' = log /\ meta' = meta /\ meta_head' = meta_head /\ ~FieldStored(i)'
    BY <1>1 DEF BeginPush, FieldStored
  <2> QED BY <2>1, <1>o, <1>b
<1>2. CASE KeepProvenance \/ NewProvenance \/ SkipSlot \/ ClaimSlot
  <2>1. /\ wpc \in {"provenance", "claim"} /\ meta' = meta /\ meta_head' = meta_head
        /\ ~FieldStored(i)'
    BY <1>2 DEF KeepProvenance, NewProvenance, SkipSlot, ClaimSlot, UseRecord, sharedVars,
       FieldStored
  <2>2. b < Len(log)
    BY <2>1, <1>t DEF CountersInv, Unlogged
  <2> QED BY <2>1, <2>2, <1>o
<1>3. CASE StoreStreamStart
  <2>1. log' = log /\ meta' = meta /\ meta_head' = meta_head /\ ~FieldStored(i)'
    BY <1>3 DEF StoreStreamStart, FieldStored
  <2> QED BY <2>1, <1>o, <1>b
<1>4. CASE StoreField
  <2> DEFINE s == next_block % BlockCap
             f == FieldOrder[stored + 1]
  <2>1. /\ wpc = "record" /\ wpc' = "record" /\ stored' = stored + 1 /\ stored < 5
        /\ log' = log /\ meta_head' = meta_head /\ meta_write_end' = meta_write_end
        /\ meta' = [meta EXCEPT ![s][f] = record[f]]
    BY <1>4, FieldOrderFacts DEF StoreField
  <2>2. /\ next_block = meta_head /\ Len(log) = meta_head + 1 /\ log[Len(log)] = record
        /\ meta_write_end = meta_head + 1
    BY <2>1 DEF CountersInv, Unlogged
  <2>3. s \in MetaSlots /\ b % BlockCap \in MetaSlots /\ f \in MetaFields
        /\ FieldOrder[i] \in MetaFields /\ stored + 1 \in 1..5
    <3>1. next_block % BlockCap \in 0..(BlockCap - 1) /\ b % BlockCap \in 0..(BlockCap - 1)
      BY <1>t, <1>b, SlotRange
    <3>2. stored + 1 \in 1..5
      BY <1>t, <2>1
    <3> QED BY <3>1, <3>2, FieldOrderFacts DEF MetaSlots
  <2>4. CASE b < meta_head
    <3>1. b < next_block /\ next_block < b + BlockCap
      BY <2>1, <2>2, <2>4, <1>b, <1>t DEF oldest_valid_block, SatSub
    <3>2. b % BlockCap # s
      BY <3>1, <1>b, <1>t, DistinctSlots
    <3>3. meta'[b % BlockCap] = meta[b % BlockCap]
      <4> HIDE DEF s, f
      <4> QED BY <2>1, <2>3, <3>2, <1>t
    <3>4. b < Len(log)
      BY <2>2, <2>4, <1>b, <1>t
    <3> QED BY <3>3, <3>4, <2>1, <2>4, <1>o
  <2>5. CASE b = meta_head /\ i = stored + 1
    <3>1. meta'[s][f] = record[f]
      <4> HIDE DEF s, f
      <4> QED BY <2>1, <2>3, <1>t
    <3>2. log'[b + 1] = record
      BY <2>1, <2>2, <2>5
    <3> QED BY <3>1, <3>2, <2>2, <2>5
  <2>6. CASE b = meta_head /\ i # stored + 1
    <3>1. i <= stored
      BY <2>1, <2>6, <1>t DEF FieldStored
    <3>2. FieldOrder[i] # f
      BY <2>3, <2>6, FieldOrderFacts
    <3>3. meta'[b % BlockCap][FieldOrder[i]] = meta[b % BlockCap][FieldOrder[i]]
      <4>1. b % BlockCap = s
        BY <2>2, <2>6
      <4> HIDE DEF s, f
      <4> QED BY <4>1, <2>1, <2>3, <3>2, <1>t
    <3>4. b < Len(log) /\ FieldStored(i)
      BY <3>1, <2>1, <2>2, <2>6, <1>t DEF FieldStored
    <3> QED BY <3>3, <3>4, <1>o
  <2> QED BY <2>1, <2>2, <2>4, <2>5, <2>6, <1>b, <1>t
<1>5. CASE AnnounceSamples
  <2>1. log' = log /\ meta' = meta /\ wpc = "record" /\ stored = 5
    BY <1>5, FieldOrderFacts DEF AnnounceSamples
  <2> QED BY <2>1, <1>o, <1>b, <1>t DEF FieldStored
<1>6. CASE StoreSample
  BY <1>6, <1>o, <1>b DEF StoreSample, FieldStored
<1>7. CASE CommitSamples
  BY <1>7, <1>o, <1>b DEF CommitSamples, FieldStored
<1>8. CASE CommitHead
  <2>1. log' = log /\ meta' = meta /\ wpc = "head"
    BY <1>8 DEF CommitHead
  <2> QED BY <2>1, <1>o, <1>b, <1>t DEF FieldStored
<1>9. CASE Close
  BY <1>9, <1>o, <1>b DEF Close, writerVars, FieldStored
<1> QED BY <1>1, <1>2, <1>3, <1>4, <1>5, <1>6, <1>7, <1>8, <1>9 DEF WriterNext

LEMMA WriterRecordStep ==
  ASSUME RecordInv, WriterNext
  PROVE  RecordInv'
<1>1. TypeOK' /\ RecordsIntact'
  BY WriterTypeStep, WriterKeepsRecords DEF RecordInv
<1>2. /\ CountersInv'
      /\ meta_head' >= meta_head /\ oldest_valid_block' >= oldest_valid_block
      /\ \A i \in 1..Len(log) : log'[i] = log[i]
  BY WriterGrows DEF RecordInv
<1>3. ASSUME NEW r \in Readers PROVE LoadedInv(r)'
  <2>1. rpc'[r] = rpc[r] /\ block'[r] = block[r] /\ loaded'[r] = loaded[r]
    BY DEF WriterNext, BeginPush, KeepProvenance, NewProvenance, SkipSlot, ClaimSlot,
           StoreStreamStart, StoreField,
           AnnounceSamples, StoreSample, CommitSamples, CommitHead, Close, readerVars
  <2>2. /\ block[r] \in Nat /\ meta_head \in Nat /\ meta_head' \in Nat
        /\ oldest_valid_block \in Nat /\ oldest_valid_block' \in Nat /\ log \in Seq(Record)
    <3>1. meta_write_end \in Nat /\ meta_write_end' \in Nat
      BY <1>1 DEF RecordInv, TypeOK, SharedType
    <3>2. oldest_valid_block \in Nat /\ oldest_valid_block' \in Nat
      <4>1. SatSub(meta_write_end, BlockCap) \in Nat /\ SatSub(meta_write_end', BlockCap) \in Nat
        BY <3>1, SatSubMonotone
      <4> QED BY <4>1 DEF oldest_valid_block
    <3>3. block[r] \in Nat /\ meta_head \in Nat /\ log \in Seq(Record)
      BY DEF RecordInv, TypeOK, SharedType, WriterType, ReaderType
    <3>4. meta_head' \in Nat
      BY <1>1 DEF TypeOK, SharedType
    <3> QED BY <3>2, <3>3, <3>4
  <2>3. block[r] < meta_head => log'[block[r] + 1] = log[block[r] + 1]
    <3>1. meta_head <= Len(log)
      BY <2>2 DEF RecordInv, CountersInv
    <3> QED BY <1>2, <2>2, <3>1
  <2>4. LoadedInv(r)
    BY DEF RecordInv
  <2>5. CASE rpc[r] = "fields"
    BY <1>2, <2>1, <2>2, <2>3, <2>4, <2>5 DEF LoadedInv, HasRecord
  <2>6. CASE rpc[r] \in HasRecord
    <3>1. block[r] < meta_head
      BY <2>4, <2>6 DEF LoadedInv
    <3>2. block'[r] < meta_head' /\ log'[block[r] + 1] = log[block[r] + 1]
      BY <1>2, <2>1, <2>2, <2>3, <3>1
    <3>3. /\ Len(loaded[r]) = Len(FieldOrder)
          /\ \A i \in 1..Len(FieldOrder) : loaded[r][i] = log[block[r] + 1][FieldOrder[i]]
      BY <2>4, <2>6 DEF LoadedInv
    <3>4. rpc[r] # "fields" /\ rpc[r] # "idle"
      BY <2>6 DEF HasRecord
    <3> QED BY <2>1, <2>6, <3>2, <3>3, <3>4 DEF LoadedInv
  <2>7. CASE rpc[r] \notin HasRecord \cup {"fields"}
    BY <2>1, <2>4, <2>7 DEF LoadedInv, HasRecord
  <2> QED BY <2>5, <2>6, <2>7
<1> QED BY <1>1, <1>2, <1>3 DEF RecordInv

(* A lookup loads fields of one intact record, or of a block already invalid when it checks. *)
LEMMA ReaderRecordStep ==
  ASSUME RecordInv, NEW r \in Readers, ReaderNext(r)
  PROVE  RecordInv'
<1>t. TypeOK' /\ TypeOK
  BY ReaderTypeStep DEF RecordInv
<1>s. UNCHANGED <<sharedVars, writerVars>>
  BY DEF ReaderNext, LoadHead, LoadField, ReturnMeta, RejectMeta, BeginCopy, LoadSample,
         ReturnCopied, ReturnOverwritten, LockEntry, ReturnHandle, ReturnNoHandle,
         CountersHead, CountersEnd, CountersHeadAgain, CountersEndAgain, CountersRetry, Done
<1>1. CountersInv' /\ RecordsIntact'
  BY <1>s DEF RecordInv, CountersInv, RecordsIntact, FieldStored, oldest_valid_block,
              sharedVars, writerVars
<1>o. /\ meta_head' = meta_head /\ log' = log /\ oldest_valid_block' = oldest_valid_block
  BY <1>s DEF sharedVars, writerVars, oldest_valid_block
<1>n. ASSUME NEW q \in Readers, q # r PROVE LoadedInv(q)'
  <2>1. rpc'[q] = rpc[q] /\ block'[q] = block[q] /\ loaded'[q] = loaded[q]
    BY <1>n, <1>t DEF TypeOK, ReaderType, ReaderNext, LoadHead, LoadField, ReturnMeta, RejectMeta,
       BeginCopy, LoadSample, ReturnCopied, ReturnOverwritten, LockEntry, ReturnHandle,
       ReturnNoHandle, CountersHead, CountersEnd, CountersHeadAgain, CountersEndAgain,
       CountersRetry, Done, Forget
  <2> QED BY <2>1, <1>o DEF RecordInv, LoadedInv
<1>l. LoadedInv(r)'
  <2> USE DEF LoadedInv, HasRecord
  <2>t. /\ block[r] \in Nat /\ meta_head \in Nat /\ loaded[r] \in Seq(Nat)
        /\ oldest_valid_block \in Nat /\ log \in Seq(Record) /\ next_block = meta_head
        /\ rpc \in [Readers -> ReaderPCs] /\ block \in [Readers -> Nat]
        /\ loaded \in [Readers -> Seq(Nat)]
    <3>1. meta_write_end \in Nat
      BY <1>t DEF TypeOK, SharedType
    <3>2. oldest_valid_block \in Nat
      BY <3>1, SatSubMonotone DEF oldest_valid_block
    <3> QED BY <1>t, <3>2 DEF TypeOK, SharedType, WriterType, ReaderType, RecordInv, CountersInv
  <2>i. LoadedInv(r)
    BY DEF RecordInv
  <2>f. ASSUME Forget(r) PROVE LoadedInv(r)'
    BY <2>f, <2>t DEF Forget
  <2>k. ASSUME rpc[r] \in HasRecord, rpc'[r] \in HasRecord,
               block' = block, loaded' = loaded
        PROVE  LoadedInv(r)'
    BY <2>k, <2>i, <1>o
  <2>c. ASSUME rpc'[r] \notin HasRecord \cup {"fields", "idle"} PROVE LoadedInv(r)'
    BY <2>c
  <2>1. ASSUME NEW b \in 0..MaxIndex, LoadHead(r, b) PROVE LoadedInv(r)'
    <3>1. rpc'[r] = "fields" /\ block'[r] = b /\ b < meta_head /\ loaded' = loaded
      BY <2>1, <2>t DEF LoadHead
    <3>2. loaded[r] = <<>>
      BY <2>1, <2>i DEF LoadHead
    <3> QED BY <3>1, <3>2, <1>o, FieldOrderFacts
  <2>2. CASE LoadField(r)
    <3> DEFINE k == Len(loaded[r])
               v == meta[block[r] % BlockCap][FieldOrder[k + 1]]
    <3>1. /\ rpc[r] = "fields" /\ rpc' = rpc /\ block' = block
          /\ loaded'[r] = Append(loaded[r], v) /\ k \in Nat /\ k < 5
      BY <2>2, <2>t, FieldOrderFacts DEF LoadField
    <3>2. block[r] < meta_head /\ block[r] + 1 \in 1..Len(log)
      BY <3>1, <2>t, <2>i DEF RecordInv, CountersInv
    <3>3. CASE block[r] < oldest_valid_block
      BY <3>1, <3>2, <3>3, <2>t, <1>o, <1>t, FieldOrderFacts DEF TypeOK, ReaderType
    <3>4. CASE block[r] >= oldest_valid_block
      <4>1. block[r] \in 0..(Len(log) - 1) /\ k + 1 \in 1..5
        <5>1. ASSUME NEW n \in Nat, n < 5 PROVE n + 1 \in 1..5
          BY <5>1
        <5>2. ASSUME NEW b \in Nat, NEW n \in Nat, b + 1 \in 1..n PROVE b \in 0..(n - 1)
          BY <5>2
        <5>3. Len(log) \in Nat
          BY <2>t
        <5> QED BY <3>1, <3>2, <2>t, <5>1, <5>2, <5>3
      <4>2. v = log[block[r] + 1][FieldOrder[k + 1]]
        <5>1. \A b \in 0..(Len(log) - 1) : b >= oldest_valid_block /\ b < meta_head =>
                \A i \in 1..5 : meta[b % BlockCap][FieldOrder[i]] = log[b + 1][FieldOrder[i]]
          BY FieldOrderFacts DEF RecordInv, RecordsIntact
        <5>2. \A i \in 1..5 :
                meta[block[r] % BlockCap][FieldOrder[i]] = log[block[r] + 1][FieldOrder[i]]
          BY <5>1, <3>2, <3>4, <4>1
        <5> QED BY <5>2, <4>1
      <4>3. \A i \in 1..k : loaded[r][i] = log[block[r] + 1][FieldOrder[i]]
        <5>1. block[r] < oldest_valid_block
              \/ \A i \in 1..Len(loaded[r]) : loaded[r][i] = log[block[r] + 1][FieldOrder[i]]
          BY <3>1, <2>i
        <5>2. ~(block[r] < oldest_valid_block)
          BY <3>4, <2>t
        <5> QED BY <5>1, <5>2
      <4>4. /\ Len(loaded'[r]) = k + 1 /\ loaded'[r][k + 1] = v
            /\ \A i \in 1..k : loaded'[r][i] = loaded[r][i]
        <5> HIDE DEF v
        <5>1. v \in Nat
          BY <3>1, <1>t, <2>t DEF TypeOK, ReaderType
        <5> QED BY <3>1, <2>t, <5>1
      <4>5. \A i \in 1..(k + 1) : loaded'[r][i] = log[block[r] + 1][FieldOrder[i]]
        <5> HIDE DEF v
        <5> QED BY <4>2, <4>3, <4>4, <3>1
      <4>6. k + 1 <= 5 /\ rpc'[r] = "fields"
        BY <3>1, <4>1
      <4>7. \A i \in 1..Len(loaded'[r]) : loaded'[r][i] = log'[block'[r] + 1][FieldOrder[i]]
        BY <4>4, <4>5, <3>1, <1>o
      <4> QED BY <3>1, <3>2, <4>4, <4>6, <4>7, <1>o, FieldOrderFacts
    <3>5. block[r] < oldest_valid_block \/ block[r] >= oldest_valid_block
      <4>1. ASSUME NEW a \in Nat, NEW b \in Nat PROVE a < b \/ a >= b
        OBVIOUS
      <4> QED BY <4>1, <2>t
    <3> QED BY <3>3, <3>4, <3>5
  <2>3. CASE ReturnMeta(r)
    BY <2>3, <2>i, <2>t, <1>o, FieldOrderFacts DEF ReturnMeta
  <2>4. CASE RejectMeta(r)
    BY <2>4, <2>f DEF RejectMeta
  <2>5. ASSUME NEW first \in 0..MaxIndex, NEW n \in 1..SampleCap, BeginCopy(r, first, n)
        PROVE  LoadedInv(r)'
    BY <2>5, <2>k, <2>t DEF BeginCopy
  <2>6. CASE LoadSample(r)
    BY <2>6, <2>k DEF LoadSample
  <2>7. CASE ReturnCopied(r)
    BY <2>7, <2>k, <2>t DEF ReturnCopied
  <2>8. CASE ReturnOverwritten(r)
    BY <2>8, <2>f DEF ReturnOverwritten
  <2>9. CASE LockEntry(r)
    BY <2>9, <2>k, <2>t DEF LockEntry
  <2>10. CASE ReturnHandle(r)
    BY <2>10, <2>k, <2>t DEF ReturnHandle
  <2>11. CASE ReturnNoHandle(r)
    BY <2>11, <2>f DEF ReturnNoHandle
  <2>12. CASE CountersHead(r)
    BY <2>12, <2>c, <2>t DEF CountersHead
  <2>13. CASE CountersEnd(r)
    BY <2>13, <2>c, <2>t DEF CountersEnd
  <2>14. CASE CountersHeadAgain(r)
    BY <2>14, <2>c, <2>t DEF CountersHeadAgain
  <2>15. CASE CountersEndAgain(r)
    BY <2>15, <2>c, <2>t DEF CountersEndAgain
  <2>16. CASE CountersRetry(r)
    BY <2>16, <2>f DEF CountersRetry
  <2>17. CASE Done(r)
    BY <2>17, <2>f DEF Done
  <2> QED BY <2>1, <2>2, <2>3, <2>4, <2>5, <2>6, <2>7, <2>8, <2>9, <2>10, <2>11, <2>12, <2>13,
             <2>14, <2>15, <2>16, <2>17 DEF ReaderNext
<1> QED BY <1>t, <1>1, <1>n, <1>l DEF RecordInv

LEMMA RecordStep == RecordInv /\ [Next]_vars => RecordInv'
<1> SUFFICES ASSUME RecordInv, [Next]_vars PROVE RecordInv'
  OBVIOUS
<1>1. CASE WriterNext
  BY <1>1, WriterRecordStep
<1>2. ASSUME NEW r \in Readers, ReaderNext(r) PROVE RecordInv'
  BY <1>2, ReaderRecordStep
<1>3. CASE UNCHANGED vars
  <2>1. TypeOK'
    BY TypeStep DEF RecordInv
  <2> QED BY <1>3, <2>1 DEF vars, sharedVars, writerVars, readerVars, RecordInv, CountersInv,
             RecordsIntact, FieldStored, LoadedInv, oldest_valid_block
<1> QED BY <1>1, <1>2, <1>3 DEF Next

(* The inductive invariant holds throughout. *)
THEOREM RingRecords == Spec => []RecordInv
  BY RecordInit, RecordStep, PTL DEF Spec

(* read_meta never returns a torn record: every field it loaded is one block's, for every
   capacity, every number of readers and every interleaving with push. *)
THEOREM ReadMetaNeverTorn == Spec => []NoTornRecord
<1>1. RecordInv => NoTornRecord
  <2> SUFFICES ASSUME RecordInv, NEW r \in Readers, rpc[r] \in HasRecord
               PROVE  block[r] < Len(log) /\ loaded[r] = Fields(log[block[r] + 1])
    BY DEF NoTornRecord
  <2>1. /\ block[r] \in Nat /\ meta_head \in Nat /\ loaded[r] \in Seq(Nat)
    BY DEF RecordInv, TypeOK, SharedType, ReaderType
  <2>2. /\ block[r] < meta_head /\ Len(loaded[r]) = 5
        /\ \A i \in 1..5 : loaded[r][i] = log[block[r] + 1][FieldOrder[i]]
    BY FieldOrderFacts DEF RecordInv, LoadedInv
  <2>3. loaded[r] = [i \in 1..5 |-> loaded[r][i]]
    <3>1. loaded[r] \in [1..5 -> Nat]
      BY <2>1, <2>2, LenProperties
    <3> QED BY <3>1
  <2> QED BY <2>1, <2>2, <2>3, FieldOrderFacts DEF Fields, RecordInv, CountersInv
<1> QED BY <1>1, RingRecords, PTL

-----------------------------------------------------------------------------
(* The samples and the provenance handles: what copy_out and a provenance     *)
(* lookup return, when a lookup may miss, how many keys are ever live, and     *)
(* that the ring implements RingLog.                                           *)

LEMMA OldestSampleNat ==
  ASSUME NEW a \in Nat
  PROVE  SatSub(a, SampleCap) \in Nat
  BY DEF SatSub

(* The types these proofs keep needing. *)
LEMMA StreamTypes ==
  ASSUME RecordInv
  PROVE  /\ log \in Seq(Record) /\ record \in Record /\ Len(log) \in Nat
         /\ meta_head \in Nat /\ next_block = meta_head
         /\ Len(log) \in {meta_head, meta_head + 1}
         /\ stored \in Nat /\ sample_write_end \in Nat /\ oldest_valid_sample \in Nat
         /\ stream_end \in Nat \cup {-1} /\ gaps_total \in Nat
         /\ \A b \in 1..Len(log) : log[b] \in Record
         /\ 1..meta_head \subseteq 1..Len(log)
<1>1. /\ log \in Seq(Record) /\ record \in Record /\ meta_head \in Nat /\ stored \in Nat
      /\ sample_write_end \in Nat /\ stream_end \in Nat \cup {-1} /\ gaps_total \in Nat
  BY DEF RecordInv, TypeOK, SharedType, WriterType
<1>2. oldest_valid_sample \in Nat
  BY <1>1 DEF oldest_valid_sample, SatSub
<1>3. Len(log) \in {meta_head, meta_head + 1} /\ next_block = meta_head
  BY DEF RecordInv, CountersInv
<1>4. Len(log) \in Nat /\ \A b \in 1..Len(log) : log[b] \in Record
  BY <1>1
<1>5. 1..meta_head \subseteq 1..Len(log)
  BY <1>1, <1>3, <1>4
<1> QED BY <1>1, <1>2, <1>3, <1>4, <1>5

(* A record's samples end at a number, at or after they begin. *)
LEMMA EndOfNat ==
  ASSUME NEW m \in Record
  PROVE  /\ m.first_sample \in Nat /\ m.len \in Nat /\ m.gaps_total \in Nat
         /\ EndOf(m) \in Nat /\ m.first_sample <= EndOf(m)
  BY DEF Record, EndOf

LEMMA StreamStep ==
  ASSUME RecordInv, StreamInv, WriterNext
  PROVE  /\ StreamInv'
         /\ sample_write_end <= sample_write_end'
         /\ oldest_valid_sample <= oldest_valid_sample'
<1>t. /\ log \in Seq(Record) /\ record \in Record /\ Len(log) \in Nat
      /\ meta_head \in Nat /\ next_block = meta_head
      /\ stored \in Nat /\ sample_write_end \in Nat
      /\ stream_end \in Nat \cup {-1} /\ gaps_total \in Nat
      /\ \A b \in 1..Len(log) : log[b] \in Record
      /\ 1..meta_head \subseteq 1..Len(log)
  BY StreamTypes
<1>e. /\ EndOf(record) \in Nat /\ record.first_sample \in Nat
      /\ record.first_sample <= EndOf(record)
      /\ \A b \in 1..meta_head : EndOf(log[b]) \in Nat
  BY <1>t, EndOfNat
<1>g. \A b \in 1..Len(log) : log'[b] = log[b]
  BY WriterGrows DEF RecordInv
<1>h. meta_head # 0 => meta_head \in 1..meta_head
  BY <1>t
<1>m. ASSUME sample_write_end <= sample_write_end'
      PROVE  oldest_valid_sample <= oldest_valid_sample'
  <2>1. sample_write_end' \in Nat
    BY WriterTypeStep DEF RecordInv, TypeOK, SharedType
  <2>2. sample_write_end \in Nat
    BY <1>t
  <2>3. ASSUME NEW a \in Nat, NEW b \in Nat, a <= b
        PROVE  SatSub(a, SampleCap) <= SatSub(b, SampleCap)
    BY <2>3 DEF SatSub
  <2> QED BY <1>m, <2>1, <2>2, <2>3 DEF oldest_valid_sample
<1> SUFFICES StreamInv' /\ sample_write_end <= sample_write_end'
  BY <1>m
<1> USE DEF StreamInv, EndDuring
(* Every step between the announcements and the commits. *)
<1>k. ASSUME UNCHANGED <<meta_head, stream_end, gaps_total, sample_write_end, sample_commit_end>>,
             wpc' # "idle" => record'.first_sample >= stream_end,
             \/ {wpc, wpc'} \cap {"samples", "head"} = {}
             \/ wpc = "samples" /\ wpc' = "samples" /\ record' = record
             \/ wpc = "head" /\ wpc' = "head" /\ record' = record
      PROVE  StreamInv' /\ sample_write_end <= sample_write_end'
  <2>1. \A b \in 1..meta_head : log'[b] = log[b]
    BY <1>g, <1>t
  <2>2. meta_head # 0 => log'[meta_head] = log[meta_head]
    BY <2>1, <1>h
  <2>3. /\ EndDuring({"samples", "head"})' = EndDuring({"samples", "head"})
        /\ EndDuring({"head"})' = EndDuring({"head"})
    BY <1>k, <2>2 DEF EndOf
  <2>4. \A b \in 1..meta_head' : EndOf(log[b])' <= stream_end'
    BY <1>k, <2>1 DEF EndOf
  <2>5. /\ stream_end' = IF meta_head' = 0 THEN -1 ELSE EndOf(log[meta_head])'
        /\ gaps_total' = IF meta_head' = 0 THEN 0 ELSE log'[meta_head'].gaps_total
    BY <1>k, <2>2 DEF EndOf
  <2> QED BY <1>k, <1>t, <2>3, <2>4, <2>5
<1>1. ASSUME NEW first \in 0..MaxIndex, NEW n \in BlockLens, NEW p \in Provenances,
             BeginPush(first, n, p)
      PROVE  StreamInv' /\ sample_write_end <= sample_write_end'
  <2>1. stream_end = -1 \/ first >= stream_end
    BY <1>1, <1>t DEF BeginPush, PushError
  <2>2. record'.first_sample = first /\ first >= stream_end
    BY <1>1, <2>1 DEF BeginPush
  <2> QED BY <1>k, <1>1, <2>2 DEF BeginPush
<1>2. CASE KeepProvenance \/ NewProvenance \/ SkipSlot \/ ClaimSlot
  <2>1. /\ wpc \in {"provenance", "claim"} /\ wpc' \in {"claim", "stream_start"}
        /\ UNCHANGED <<meta_head, stream_end, gaps_total, sample_write_end, sample_commit_end>>
    BY <1>2 DEF KeepProvenance, NewProvenance, SkipSlot, ClaimSlot, UseRecord, sharedVars
  <2>2. record'.first_sample = record.first_sample
    BY <1>2, <1>t DEF KeepProvenance, NewProvenance, SkipSlot, ClaimSlot, UseRecord, Record
  <2> QED BY <1>k, <2>1, <2>2
<1>3. CASE StoreStreamStart \/ StoreField \/ StoreSample
  <2>1. /\ UNCHANGED <<meta_head, stream_end, gaps_total, sample_write_end, sample_commit_end,
                       record>>
        /\ \/ wpc \in {"stream_start", "record"} /\ wpc' = "record"
           \/ wpc = "samples" /\ wpc' = "samples"
    BY <1>3 DEF StoreStreamStart, StoreField, StoreSample
  <2> QED BY <1>k, <2>1
<1>4. CASE AnnounceSamples
  <2>1. /\ wpc = "record" /\ wpc' = "samples" /\ sample_write_end' = EndOf(record)
        /\ UNCHANGED <<log, meta_head, stream_end, gaps_total, record, sample_commit_end>>
    BY <1>4 DEF AnnounceSamples
  <2>2. sample_write_end <= EndOf(record)
    BY <2>1, <1>e, <1>t, <1>h
  <2>3. /\ EndDuring({"samples", "head"})' = EndOf(record)
        /\ EndDuring({"head"})' = EndDuring({"head"})
    BY <2>1 DEF EndOf
  <2> QED BY <2>1, <2>2, <2>3 DEF EndOf
<1>5. CASE CommitSamples
  <2>1. /\ wpc = "samples" /\ wpc' = "head" /\ sample_commit_end' = EndOf(record)
        /\ UNCHANGED <<log, meta_head, stream_end, gaps_total, record, sample_write_end>>
    BY <1>5 DEF CommitSamples
  <2>2. /\ EndDuring({"samples", "head"})' = EndDuring({"samples", "head"})
        /\ EndDuring({"head"})' = EndOf(record)
    BY <2>1 DEF EndOf
  <2> QED BY <2>1, <2>2, <1>t DEF EndOf
<1>6. CASE CommitHead
  <2>1. /\ wpc = "head" /\ wpc' = "idle" /\ meta_head' = meta_head + 1
        /\ stream_end' = EndOf(record) /\ gaps_total' = record.gaps_total
        /\ UNCHANGED <<log, sample_write_end, sample_commit_end, record>>
    BY <1>6, <1>t DEF CommitHead
  <2>2. log[meta_head + 1] = record /\ Len(log) = meta_head + 1
    BY <2>1 DEF RecordInv, CountersInv, Unlogged
  <2>3. \A b \in 1..(meta_head + 1) : EndOf(log[b]) <= EndOf(record)
    BY <2>1, <2>2, <1>e, <1>t
  <2>4. meta_head' # 0
    BY <2>1, <1>t
  <2>5. EndDuring({"samples", "head"})' = EndOf(record) /\ EndDuring({"head"})' = EndOf(record)
    BY <2>1, <2>2, <2>4 DEF EndOf
  <2> QED BY <2>1, <2>2, <2>3, <2>4, <2>5, <1>t, <1>e DEF EndOf
<1>7. CASE Close
  BY <1>7, <1>k DEF Close, writerVars
<1> QED BY <1>1, <1>2, <1>3, <1>4, <1>5, <1>6, <1>7 DEF WriterNext

(* Samples are committed before the block that has them. *)
LEMMA CommittedBySample ==
  ASSUME RecordInv, StreamInv, NEW b \in 1..meta_head
  PROVE  EndOf(log[b]) <= sample_commit_end
<1>1. /\ meta_head \in Nat /\ record \in Record /\ log[b] \in Record /\ log[meta_head] \in Record
  <2>1. meta_head \in 1..meta_head
    BY StreamTypes
  <2> QED BY <2>1, StreamTypes
<1>2. EndOf(log[b]) <= EndOf(log[meta_head])
  BY <1>1 DEF StreamInv
<1>3. CASE wpc = "head"
  <2>1. EndOf(log[meta_head]) <= record.first_sample
    BY <1>1, <1>3 DEF StreamInv
  <2> QED BY <1>1, <1>2, <1>3, <2>1, EndOfNat DEF StreamInv, EndDuring
<1>4. CASE wpc # "head"
  BY <1>1, <1>2, <1>4 DEF StreamInv, EndDuring
<1> QED BY <1>3, <1>4

(* push overwrites no sample that a copy would still accept. *)
LEMMA SamplesKept ==
  ASSUME RecordInv, StreamInv, SamplesIntact, WriterNext
  PROVE  SamplesIntact'
<1>t. /\ log \in Seq(Record) /\ record \in Record /\ Len(log) \in Nat
      /\ meta_head \in Nat /\ Len(log) \in {meta_head, meta_head + 1}
      /\ stored \in Nat /\ oldest_valid_sample \in Nat
      /\ \A b \in 1..Len(log) : log[b] \in Record
  BY StreamTypes
<1>u. /\ oldest_valid_sample <= oldest_valid_sample' /\ oldest_valid_sample' \in Nat
      /\ \A b \in 1..Len(log) : log'[b] = log[b]
      /\ Len(log') \in {meta_head', meta_head' + 1} /\ meta_head' \in Nat
  <2>1. sample_write_end' \in Nat /\ meta_head' \in Nat
    BY WriterTypeStep DEF RecordInv, TypeOK, SharedType
  <2>2. oldest_valid_sample' \in Nat
    <3>1. SatSub(sample_write_end', SampleCap) \in Nat
      BY <2>1, OldestSampleNat
    <3> QED BY <3>1 DEF oldest_valid_sample
  <2>3. Len(log') \in {meta_head', meta_head' + 1}
    BY WriterGrows DEF RecordInv, CountersInv
  <2> QED BY <2>1, <2>2, <2>3, StreamStep, WriterGrows DEF RecordInv
<1> SUFFICES ASSUME NEW b \in 0..(Len(log') - 1), NEW i \in SamplesOf(log'[b + 1]),
                    i >= oldest_valid_sample', b < meta_head' \/ SampleStored(i)'
             PROVE  cells'[i % SampleCap] = i
  BY DEF SamplesIntact, SamplesOf, EndOf
<1>b. b \in Nat
  BY <1>u
<1>o. ASSUME b < Len(log), b < meta_head \/ SampleStored(i)
      PROVE  i \in Nat /\ cells[i % SampleCap] = i
  <2>1. b \in 0..(Len(log) - 1) /\ b + 1 \in 1..Len(log) /\ log'[b + 1] = log[b + 1]
    BY <1>o, <1>b, <1>t, <1>u
  <2>2. i \in SamplesOf(log[b + 1]) /\ i \in Nat
    BY <2>1, <1>t, EndOfNat DEF SamplesOf
  <2>3. i >= oldest_valid_sample
    BY <2>2, <1>t, <1>u
  <2> QED BY <2>1, <2>2, <2>3, <1>o DEF SamplesIntact
<1>1. CASE \E first \in 0..MaxIndex, n \in BlockLens, p \in Provenances : BeginPush(first, n, p)
  <2>1. log' = log /\ cells' = cells /\ meta_head' = meta_head /\ ~SampleStored(i)'
    BY <1>1 DEF BeginPush, SampleStored
  <2> QED BY <2>1, <1>o, <1>b, <1>t
<1>2. CASE KeepProvenance \/ NewProvenance \/ SkipSlot \/ ClaimSlot
  <2>1. /\ cells' = cells /\ meta_head' = meta_head /\ ~SampleStored(i)'
    BY <1>2 DEF KeepProvenance, NewProvenance, SkipSlot, ClaimSlot, UseRecord, sharedVars,
       SampleStored
  <2> QED BY <2>1, <1>o, <1>b, <1>t
<1>3. CASE StoreStreamStart \/ StoreField
  <2>1. /\ cells' = cells /\ meta_head' = meta_head /\ ~SampleStored(i)'
    BY <1>3 DEF StoreStreamStart, StoreField, SampleStored
  <2> QED BY <2>1, <1>o, <1>b, <1>t
<1>4. CASE AnnounceSamples
  <2>1. /\ cells' = cells /\ meta_head' = meta_head /\ log' = log /\ record' = record
        /\ wpc' = "samples" /\ stored' = 0
        /\ Len(log) = meta_head + 1 /\ log[meta_head + 1] = record
    BY <1>4 DEF AnnounceSamples, RecordInv, CountersInv, Unlogged
  <2>2. CASE b < meta_head
    BY <2>1, <2>2, <1>o, <1>b, <1>t
  <2>3. CASE b >= meta_head
    <3>1. b = meta_head
      BY <2>1, <2>3, <1>b, <1>t
    <3>2. i >= record.first_sample /\ i \in Int
      BY <3>1, <2>1, <1>t, EndOfNat DEF SamplesOf
    <3>3. i < record.first_sample + 0
      BY <3>1, <2>1, <1>t DEF SampleStored
    <3> QED BY <3>2, <3>3, <1>t, EndOfNat
  <2> QED BY <2>2, <2>3, <1>b, <1>t
<1>5. CASE StoreSample
  <2> DEFINE j == record.first_sample + stored
  <2>1. /\ wpc = "samples" /\ wpc' = "samples" /\ stored < record.len /\ stored' = stored + 1
        /\ cells' = [cells EXCEPT ![j % SampleCap] = j]
        /\ UNCHANGED <<log, meta_head, record, sample_write_end>>
    BY <1>5 DEF StoreSample
  <2>2. /\ Len(log) = meta_head + 1 /\ log[meta_head + 1] = record
        /\ sample_write_end = EndOf(record)
    BY <2>1 DEF RecordInv, CountersInv, Unlogged, StreamInv, EndDuring
  <2>3. j \in Nat /\ record.first_sample \in Nat /\ record.len \in Nat /\ EndOf(record) \in Nat
    BY <1>t, EndOfNat
  <2>4. i \in Nat /\ b < Len(log)
    <3>1. b + 1 \in 1..Len(log) /\ log'[b + 1] = log[b + 1]
      BY <2>1, <1>t, <1>b
    <3> QED BY <3>1, <1>t, <1>b, EndOfNat DEF SamplesOf
  <2>5. i + SampleCap >= EndOf(record) /\ j < EndOf(record)
    <3>1. i >= SatSub(EndOf(record), SampleCap)
      BY <2>1, <2>2, <2>4 DEF oldest_valid_sample
    <3>2. i + SampleCap >= EndOf(record)
      BY <3>1, <2>3, <2>4 DEF SatSub
    <3> QED BY <3>2, <2>1, <2>3, <1>t DEF EndOf
  <2>6. j % SampleCap \in Cells /\ i % SampleCap \in Cells /\ cells \in [Cells -> Int]
    <3>1. cells \in [Cells -> Int]
      BY DEF RecordInv, TypeOK, SharedType
    <3>2. j % SampleCap \in 0..(SampleCap - 1) /\ i % SampleCap \in 0..(SampleCap - 1)
      <4> HIDE DEF j
      <4> QED BY <2>3, <2>4, SlotRange
    <3> QED BY <3>1, <3>2 DEF Cells
  <2>7. CASE i = j
    <3> HIDE DEF j
    <3> QED BY <2>7, <2>1, <2>6
  <2>8. ASSUME i < j, b < meta_head \/ SampleStored(i) PROVE cells'[i % SampleCap] = i
    <3>1. i % SampleCap # j % SampleCap
      <4>1. j < i + SampleCap
        BY <2>3, <2>4, <2>5
      <4> HIDE DEF j
      <4> QED BY <4>1, <2>3, <2>4, <2>8, DistinctSlots
    <3>2. cells'[i % SampleCap] = cells[i % SampleCap]
      <4> HIDE DEF j
      <4> QED BY <2>1, <2>6, <3>1
    <3> QED BY <3>2, <2>4, <2>8, <1>o
  <2>9. CASE b < meta_head
    <3>1. i < EndOf(log[b + 1]) /\ b + 1 \in 1..meta_head
      <4>1. b + 1 \in 1..meta_head /\ b + 1 \in 1..Len(log) /\ log'[b + 1] = log[b + 1]
        BY <2>1, <2>2, <2>9, <1>b, <1>t
      <4> QED BY <4>1, <1>t, <2>4, EndOfNat DEF SamplesOf
    <3>2. EndOf(log[b + 1]) <= record.first_sample /\ EndOf(log[b + 1]) \in Nat
      <4>1. EndOf(log[b + 1]) <= stream_end /\ stream_end <= record.first_sample
        BY <3>1, <2>1 DEF StreamInv
      <4>2. EndOf(log[b + 1]) \in Nat
        BY <3>1, <2>2, <1>t, EndOfNat
      <4>3. stream_end \in Int
        BY StreamTypes
      <4> QED BY <4>1, <4>2, <4>3, <2>3
    <3>3. i < j
      BY <3>1, <3>2, <2>3, <2>4, <1>t
    <3> QED BY <3>3, <2>8, <2>9
  <2>10. CASE b >= meta_head
    <3>1. i < record.first_sample + (stored + 1)
      BY <2>1, <2>10, <1>b, <1>t DEF SampleStored
    <3>2. i = j \/ i < j
      BY <3>1, <2>3, <2>4, <1>t
    <3>3. i < j => SampleStored(i)
      BY <2>1 DEF SampleStored
    <3> QED BY <3>2, <3>3, <2>7, <2>8
  <2> QED BY <2>9, <2>10, <1>b, <1>t
<1>6. CASE CommitSamples
  <2>1. /\ cells' = cells /\ meta_head' = meta_head /\ log' = log
        /\ wpc = "samples" /\ stored = record.len
        /\ Len(log) = meta_head + 1 /\ log[meta_head + 1] = record
    BY <1>6 DEF CommitSamples, RecordInv, CountersInv, Unlogged
  <2>2. CASE b < meta_head
    BY <2>1, <2>2, <1>o, <1>b, <1>t
  <2>3. CASE b >= meta_head
    <3>1. b = meta_head /\ b < Len(log)
      BY <2>1, <2>3, <1>b, <1>t
    <3>2. i < record.first_sample + record.len
      BY <3>1, <2>1, <1>t, EndOfNat DEF SamplesOf, EndOf
    <3>3. SampleStored(i)
      BY <3>2, <2>1 DEF SampleStored
    <3> QED BY <3>1, <3>3, <2>1, <1>o
  <2> QED BY <2>2, <2>3, <1>b, <1>t
<1>7. CASE CommitHead
  <2>1. cells' = cells /\ log' = log /\ SampleStored(i)
    BY <1>7 DEF CommitHead, SampleStored
  <2> QED BY <2>1, <1>o, <1>b, <1>t
<1>8. CASE Close
  BY <1>8, <1>o, <1>b, <1>t DEF Close, writerVars, SampleStored
<1> QED BY <1>1, <1>2, <1>3, <1>4, <1>5, <1>6, <1>7, <1>8 DEF WriterNext

LEMMA WriterSampleStep ==
  ASSUME RecordInv, SampleInv, WriterNext
  PROVE  SampleInv'
<1>1. StreamInv' /\ SamplesIntact' /\ oldest_valid_sample <= oldest_valid_sample'
  BY StreamStep, SamplesKept DEF SampleInv
<1>2. ASSUME NEW r \in Readers PROVE CopyInv(r)'
  <2>1. UNCHANGED <<rpc, block, from, count, out>>
    BY DEF WriterNext, BeginPush, KeepProvenance, NewProvenance, SkipSlot, ClaimSlot,
           StoreStreamStart, StoreField,
           AnnounceSamples, StoreSample, CommitSamples, CommitHead, Close, readerVars
  <2>2. /\ oldest_valid_sample \in Nat /\ oldest_valid_sample' \in Nat /\ from[r] \in Nat
    <3>1. sample_write_end' \in Nat /\ from[r] \in Nat
      BY WriterTypeStep DEF RecordInv, TypeOK, SharedType, ReaderType
    <3>2. SatSub(sample_write_end', SampleCap) \in Nat
      BY <3>1, OldestSampleNat
    <3> QED BY <3>1, <3>2, StreamTypes DEF oldest_valid_sample
  <2>3. CopyInv(r)
    BY DEF SampleInv
  <2>4. CASE rpc[r] = "copy"
    <3>1. block[r] + 1 \in 1..Len(log)
      <4>1. block[r] < meta_head /\ block[r] \in Nat
        BY <2>4 DEF RecordInv, LoadedInv, HasRecord, TypeOK, ReaderType
      <4> QED BY <4>1, StreamTypes
    <3>2. log'[block[r] + 1] = log[block[r] + 1]
      BY <3>1, WriterGrows DEF RecordInv
    <3>3. from[r] < oldest_valid_sample => from[r] < oldest_valid_sample'
      BY <1>1, <2>2
    <3> QED BY <2>1, <2>3, <2>4, <3>2, <3>3 DEF CopyInv, EndOf, HasSamples
  <2>5. CASE rpc[r] # "copy"
    BY <2>1, <2>3, <2>5 DEF CopyInv
  <2> QED BY <2>4, <2>5
<1> QED BY <1>1, <1>2 DEF SampleInv

(* A copy loads samples of one committed block, each in its cell, or of a range that is *)
(* already invalid when the copy checks it.                                             *)
LEMMA ReaderSampleStep ==
  ASSUME RecordInv, SampleInv, NEW r \in Readers, ReaderNext(r)
  PROVE  SampleInv'
<1>t. /\ rpc \in [Readers -> ReaderPCs] /\ from \in [Readers -> Nat]
      /\ count \in [Readers -> Nat] /\ out \in [Readers -> Seq(Int)]
      /\ block \in [Readers -> Nat] /\ oldest_valid_sample \in Nat
      /\ cells \in [Cells -> Int]
  BY StreamTypes DEF RecordInv, TypeOK, ReaderType, SharedType
<1>s. UNCHANGED <<sharedVars, writerVars>>
  BY DEF ReaderNext, LoadHead, LoadField, ReturnMeta, RejectMeta, BeginCopy, LoadSample,
         ReturnCopied, ReturnOverwritten, LockEntry, ReturnHandle, ReturnNoHandle,
         CountersHead, CountersEnd, CountersHeadAgain, CountersEndAgain, CountersRetry, Done
<1>o. log' = log /\ oldest_valid_sample' = oldest_valid_sample
  BY <1>s DEF sharedVars, writerVars, oldest_valid_sample
<1>1. StreamInv' /\ SamplesIntact'
  BY <1>s DEF SampleInv, StreamInv, EndDuring, SamplesIntact, SampleStored, oldest_valid_sample,
              sharedVars, writerVars
<1>n. ASSUME NEW q \in Readers, q # r PROVE CopyInv(q)'
  <2>1. /\ rpc'[q] = rpc[q] /\ block'[q] = block[q]
        /\ from'[q] = from[q] /\ count'[q] = count[q] /\ out'[q] = out[q]
    BY <1>n, <1>t DEF ReaderNext, LoadHead, LoadField, ReturnMeta, RejectMeta,
       BeginCopy, LoadSample, ReturnCopied, ReturnOverwritten, LockEntry, ReturnHandle,
       ReturnNoHandle, CountersHead, CountersEnd, CountersHeadAgain, CountersEndAgain,
       CountersRetry, Done, Forget
  <2> QED BY <2>1, <1>o DEF SampleInv, CopyInv
<1>c. CopyInv(r)'
  <2> USE DEF CopyInv, HasSamples
  <2>i. CopyInv(r)
    BY DEF SampleInv
  <2>f. ASSUME Forget(r) PROVE CopyInv(r)'
    BY <2>f, <1>t DEF Forget
  (* A step that neither begins nor ends with samples in hand. *)
  <2>e. ASSUME {rpc[r], rpc'[r]} \cap ({"copy", "uncommitted"} \cup HasSamples) = {}, out' = out
        PROVE  CopyInv(r)'
    BY <2>e, <2>i
  (* A step that keeps the samples it has. *)
  <2>k. ASSUME rpc[r] \in HasSamples, rpc'[r] \in HasSamples, UNCHANGED <<from, count, out>>
        PROVE  CopyInv(r)'
    BY <2>k, <2>i
  <2>1. CASE \/ \E b \in 0..MaxIndex : LoadHead(r, b)
             \/ LoadField(r) \/ ReturnMeta(r) \/ CountersHead(r) \/ CountersEnd(r)
             \/ CountersHeadAgain(r) \/ CountersEndAgain(r)
    BY <2>1, <2>e, <1>t DEF LoadHead, LoadField, ReturnMeta, CountersHead, CountersEnd,
       CountersHeadAgain, CountersEndAgain
  <2>2. CASE RejectMeta(r) \/ ReturnOverwritten(r) \/ ReturnNoHandle(r) \/ CountersRetry(r) \/ Done(r)
    BY <2>2, <2>f DEF RejectMeta, ReturnOverwritten, ReturnNoHandle, CountersRetry, Done
  <2>3. ASSUME NEW first \in 0..MaxIndex, NEW n \in 1..SampleCap, BeginCopy(r, first, n)
        PROVE  CopyInv(r)'
    <3>1. /\ rpc[r] = "meta" /\ rpc'[r] \in {"uncommitted", "copy"}
          /\ first >= loaded[r][1] /\ first + n <= loaded[r][1] + loaded[r][2]
          /\ from'[r] = first /\ count'[r] = n /\ out' = out /\ block' = block
      BY <2>3, <1>t DEF BeginCopy, FirstSample, RecordLen
    <3>2. /\ loaded[r][1] = log[block[r] + 1].first_sample
          /\ loaded[r][2] = log[block[r] + 1].len
      BY <3>1 DEF RecordInv, LoadedInv, HasRecord, FieldOrder
    <3>3. out[r] = <<>>
      BY <3>1, <2>i
    <3>4. log[block[r] + 1] \in Record /\ block[r] + 1 \in 1..meta_head
      <4>1. block[r] < meta_head
        BY <3>1 DEF RecordInv, LoadedInv, HasRecord
      <4> QED BY <4>1, <1>t, StreamTypes
    <3>5. /\ log[block[r] + 1].first_sample <= first
          /\ first + n <= EndOf(log[block[r] + 1])
      BY <3>1, <3>2, <3>4, EndOfNat DEF EndOf
    <3>6. rpc'[r] = "copy"
      <4>1. EndOf(log[block[r] + 1]) <= sample_commit_end
        BY <3>4, CommittedBySample DEF SampleInv
      <4>2. EndOf(log[block[r] + 1]) \in Nat /\ sample_commit_end \in Nat
        BY <3>4, EndOfNat DEF RecordInv, TypeOK, SharedType
      <4>3. ~(first + n > sample_commit_end)
        BY <3>5, <4>1, <4>2
      <4> QED BY <4>3, <2>3, <1>t DEF BeginCopy
    <3> QED BY <3>1, <3>3, <3>5, <3>6, <1>o DEF EndOf
  <2>4. CASE LoadSample(r)
    <3> DEFINE k == Len(out[r])
               j == from[r] + k
    <3>1. /\ rpc[r] = "copy" /\ k < count[r]
          /\ UNCHANGED <<rpc, block, from, count>>
          /\ out'[r] = Append(out[r], cells[j % SampleCap])
      BY <2>4, <1>t DEF LoadSample
    <3>n. k \in Nat /\ j \in Nat /\ out[r] \in Seq(Int) /\ from[r] \in Nat /\ count[r] \in Nat
      BY <1>t
    <3>2. cells[j % SampleCap] \in Int
      <4> HIDE DEF j
      <4> QED BY <3>n, <1>t, SlotRange DEF Cells
    <3>3. /\ Len(out'[r]) = k + 1 /\ out'[r][k + 1] = cells[j % SampleCap]
          /\ \A i \in 1..k : out'[r][i] = out[r][i]
      <4> DEFINE v == cells[j % SampleCap]
      <4>1. v \in Int /\ out'[r] = Append(out[r], v)
        BY <3>1, <3>2
      <4>2. out[r] \in Seq(Int)
        BY <3>n
      <4> HIDE DEF v
      <4>3. /\ Len(out'[r]) = k + 1 /\ out'[r][k + 1] = v
            /\ \A i \in 1..k : out'[r][i] = out[r][i]
        BY <4>1, <4>2
      <4> QED BY <4>3 DEF v
    <3>4. ASSUME from[r] >= oldest_valid_sample
          PROVE  cells[j % SampleCap] = j
      <4>1. block[r] < meta_head /\ block[r] \in 0..(Len(log) - 1) /\ block[r] + 1 \in 1..Len(log)
        <5>1. block[r] < meta_head
          BY <3>1 DEF RecordInv, LoadedInv, HasRecord
        <5> QED BY <5>1, <1>t, StreamTypes
      <4>2. log[block[r] + 1] \in Record
        BY <4>1, StreamTypes
      <4>3. /\ log[block[r] + 1].first_sample <= from[r]
            /\ from[r] + count[r] <= EndOf(log[block[r] + 1])
        BY <3>1, <2>i
      <4>4. j >= from[r] /\ j < from[r] + count[r]
        BY <3>1, <3>n
      <4>5. j \in SamplesOf(log[block[r] + 1]) /\ j >= oldest_valid_sample
        <5>1. log[block[r] + 1].first_sample \in Nat /\ EndOf(log[block[r] + 1]) \in Nat
          BY <4>2, EndOfNat
        <5> HIDE DEF j
        <5>2. ASSUME NEW a \in Nat, NEW e \in Nat, a <= from[r], from[r] + count[r] <= e
              PROVE  j \in a..(e - 1)
          BY <5>2, <4>4, <3>n
        <5> QED BY <5>1, <5>2, <4>3, <4>4, <3>n, <3>4, <1>t DEF SamplesOf
      <4> HIDE DEF j
      <4> QED BY <4>1, <4>5 DEF SampleInv, SamplesIntact
    <3>5. ASSUME from[r] >= oldest_valid_sample
          PROVE  \A i \in 1..(k + 1) : out'[r][i] = from[r] + i - 1
      <4>1. ~(from[r] < oldest_valid_sample)
        BY <3>5, <1>t
      <4>2. \A i \in 1..k : out[r][i] = from[r] + i - 1
        BY <4>1, <3>1, <2>i
      <4>3. out'[r][k + 1] = from[r] + (k + 1) - 1
        BY <3>3, <3>4, <3>5, <3>n
      <4>4. k \in Nat /\ \A i \in 1..k : out'[r][i] = out[r][i]
        BY <3>n, <3>3
      <4> HIDE DEF k, j
      <4>5. ASSUME NEW i \in 1..(k + 1) PROVE i \in 1..k \/ i = k + 1
        BY <4>4
      <4> QED BY <4>2, <4>3, <4>4, <4>5
    <3>6. from[r] < oldest_valid_sample \/ from[r] >= oldest_valid_sample
      BY <1>t
    <3>7. \/ from[r] < oldest_valid_sample
          \/ \A i \in 1..Len(out'[r]) : out'[r][i] = from[r] + i - 1
      BY <3>3, <3>5, <3>6
    <3>8. /\ log[block[r] + 1].first_sample <= from[r]
          /\ from[r] + count[r] <= EndOf(log[block[r] + 1])
      BY <3>1, <2>i
    <3>9. Len(out'[r]) <= count[r]
      BY <3>1, <3>3, <3>n
    <3> QED BY <3>1, <3>7, <3>8, <3>9, <1>o DEF EndOf
  <2>5. CASE ReturnCopied(r)
    <3>1. /\ rpc[r] = "copy" /\ rpc'[r] = "copied" /\ UNCHANGED <<from, count, out>>
          /\ Len(out[r]) = count[r] /\ from[r] >= oldest_valid_sample
      BY <2>5, <1>t DEF ReturnCopied
    <3>2. ~(from[r] < oldest_valid_sample)
      BY <3>1, <1>t
    <3> QED BY <3>1, <3>2, <2>i
  <2>6. CASE LockEntry(r) \/ ReturnHandle(r)
    BY <2>6, <2>k, <1>t DEF LockEntry, ReturnHandle
  <2> QED BY <2>1, <2>2, <2>3, <2>4, <2>5, <2>6 DEF ReaderNext
<1> QED BY <1>1, <1>n, <1>c DEF SampleInv

LEMMA SampleInit == Init => SampleInv
<1> SUFFICES ASSUME Init PROVE SampleInv
  OBVIOUS
<1> USE DEF Init
<1>1. StreamInv
  BY DEF StreamInv, EndDuring
<1>2. SamplesIntact
  BY DEF SamplesIntact
<1>3. \A r \in Readers : CopyInv(r)
  BY DEF CopyInv, HasSamples
<1> QED BY <1>1, <1>2, <1>3 DEF SampleInv

LEMMA SampleStep == RecordInv /\ SampleInv /\ [Next]_vars => SampleInv'
<1> SUFFICES ASSUME RecordInv, SampleInv, [Next]_vars PROVE SampleInv'
  OBVIOUS
<1>1. CASE WriterNext
  BY <1>1, WriterSampleStep
<1>2. ASSUME NEW r \in Readers, ReaderNext(r) PROVE SampleInv'
  BY <1>2, ReaderSampleStep
<1>3. CASE UNCHANGED vars
  BY <1>3 DEF vars, sharedVars, writerVars, readerVars, SampleInv, StreamInv, EndDuring,
              SamplesIntact, SampleStored, CopyInv, oldest_valid_sample
<1> QED BY <1>1, <1>2, <1>3 DEF Next

(* The inductive invariant of the sample half: every sample a copy would still accept is in  *)
(* its cell, and what a copy has loaded is the stream's or already overtaken.                *)
THEOREM RingSamples == Spec => []SampleInv
  BY SampleInit, SampleStep, RingRecords, PTL DEF Spec

(* Only push of block 0 stores the stream start, and before its block can be looked up. *)
LEMMA StreamStartStep == RecordInv /\ StreamStartInv /\ [Next]_vars => StreamStartInv'
<1> SUFFICES ASSUME RecordInv, StreamStartInv, [Next]_vars PROVE StreamStartInv'
  OBVIOUS
<1>t. /\ meta_head \in Nat /\ next_block = meta_head /\ Len(log) \in {meta_head, meta_head + 1}
      /\ wpc \notin Unlogged => log[meta_head + 1] = record /\ Len(log) = meta_head + 1
  BY StreamTypes DEF RecordInv, CountersInv
<1> USE DEF StreamStartInv
<1>k. ASSUME UNCHANGED <<stream_start, log, meta_head>>,
             wpc' \in {"record", "samples", "head"} => wpc \in {"record", "samples", "head"}
      PROVE  StreamStartInv'
  BY <1>k
<1>1. CASE WriterNext
  <2>g. \A i \in 1..Len(log) : log'[i] = log[i]
    BY <1>1, WriterGrows DEF RecordInv
  <2>1. CASE \/ \E first \in 0..MaxIndex, n \in BlockLens, p \in Provenances : BeginPush(first, n, p)
             \/ KeepProvenance \/ NewProvenance \/ SkipSlot \/ ClaimSlot
    <3>1. UNCHANGED <<stream_start, meta_head>> /\ wpc' \in {"provenance", "claim", "stream_start"}
      BY <2>1 DEF BeginPush, KeepProvenance, NewProvenance, SkipSlot, ClaimSlot, UseRecord, sharedVars
    <3>2. meta_head > 0 => log'[1] = log[1]
      BY <2>g, <1>t
    <3> QED BY <3>1, <3>2
  <2>2. CASE StoreStreamStart
    <3>1. /\ wpc = "stream_start" /\ UNCHANGED <<log, meta_head>>
          /\ stream_start' = IF meta_head = 0 THEN record.first_sample ELSE stream_start
      BY <2>2, <1>t DEF StoreStreamStart, StreamStart
    <3>2. log[meta_head + 1] = record
      BY <3>1, <1>t DEF Unlogged
    <3> QED BY <3>1, <3>2, <1>t
  <2>3. CASE StoreField \/ AnnounceSamples \/ StoreSample \/ CommitSamples \/ CommitHead
    <3>1. UNCHANGED <<stream_start, log>> /\ wpc \in {"record", "samples", "head"}
      BY <2>3 DEF StoreField, AnnounceSamples, StoreSample, CommitSamples, CommitHead
    <3> QED BY <3>1
  <2>4. CASE Close
    BY <2>4, <1>k DEF Close, writerVars
  <2> QED BY <1>1, <2>1, <2>2, <2>3, <2>4 DEF WriterNext
<1>2. ASSUME NEW r \in Readers, ReaderNext(r) PROVE StreamStartInv'
  <2>1. UNCHANGED <<sharedVars, writerVars>>
    BY <1>2 DEF ReaderNext, LoadHead, LoadField, ReturnMeta, RejectMeta, BeginCopy, LoadSample,
         ReturnCopied, ReturnOverwritten, LockEntry, ReturnHandle, ReturnNoHandle,
         CountersHead, CountersEnd, CountersHeadAgain, CountersEndAgain, CountersRetry, Done
  <2> QED BY <1>k, <2>1 DEF sharedVars, writerVars
<1>3. CASE UNCHANGED vars
  BY <1>3, <1>k DEF vars, sharedVars, writerVars
<1> QED BY <1>1, <1>2, <1>3 DEF Next

(* The stream start a reader may load is that of block 0, from the moment block 0 has one. *)
THEOREM StreamStartsWithBlock0 == Spec => []StreamStartInv
<1>1. Init => StreamStartInv
  BY DEF Init, StreamStartInv
<1> QED BY <1>1, StreamStartStep, RingRecords, PTL DEF Spec

(* A copy inside a block that read_meta returned never finds its samples uncommitted. *)
THEOREM ReadableIsCommitted == Spec => [](\A r \in Readers : rpc[r] # "uncommitted")
<1>1. SampleInv => \A r \in Readers : rpc[r] # "uncommitted"
  BY DEF SampleInv, CopyInv
<1> QED BY <1>1, RingSamples, PTL

(* copy_out never returns a sample that is not the stream's at that index, whatever push     *)
(* overwrote while it copied: for every capacity, block length, set of readers and           *)
(* interleaving.                                                                             *)
THEOREM CopiesAreExact == Spec => []CopiedSamplesExact
<1>1. RecordInv /\ SampleInv => CopiedSamplesExact
  <2> SUFFICES ASSUME RecordInv, SampleInv, NEW r \in Readers, rpc[r] \in HasSamples
               PROVE  out[r] = [i \in 1..count[r] |-> from[r] + i - 1]
    BY DEF CopiedSamplesExact
  <2>1. Len(out[r]) = count[r] /\ \A i \in 1..count[r] : out[r][i] = from[r] + i - 1
    BY DEF SampleInv, CopyInv
  <2>2. out[r] \in Seq(Int)
    BY DEF RecordInv, TypeOK, ReaderType
  <2>3. out[r] = [i \in 1..count[r] |-> out[r][i]]
    BY <2>1, <2>2, LenProperties
  <2> QED BY <2>1, <2>3
<1> QED BY <1>1, RingRecords, RingSamples, PTL

-----------------------------------------------------------------------------
(* The ring is the abstract log *)

(* The abstract log is the committed blocks and, during a push, its block. *)
LEMMA AnnouncedIs ==
  RecordInv =>
    AnnouncedLog = [i \in 1..(IF wpc = "idle" THEN meta_head ELSE meta_head + 1) |->
                      IF i <= meta_head THEN Published(log[i]) ELSE Published(record)]
<1> SUFFICES ASSUME RecordInv
             PROVE  AnnouncedLog =
                      [i \in 1..(IF wpc = "idle" THEN meta_head ELSE meta_head + 1) |->
                         IF i <= meta_head THEN Published(log[i]) ELSE Published(record)]
  OBVIOUS
<1>t. /\ log \in Seq(Record) /\ record \in Record /\ Len(log) \in Nat /\ meta_head \in Nat
  BY StreamTypes
<1>c. /\ Len(log) = IF wpc \in Unlogged THEN meta_head ELSE meta_head + 1
      /\ wpc \notin Unlogged => log[meta_head + 1] = record
  BY DEF RecordInv, CountersInv
<1>1. CASE wpc \in {"provenance", "claim"}
  <2>1. AnnouncedLog = [i \in 1..Len(Append(log, record)) |-> Published(Append(log, record)[i])]
    BY <1>1 DEF AnnouncedLog
  <2>2. Len(log) = meta_head /\ wpc # "idle"
    BY <1>1, <1>c DEF Unlogged
  <2>3. Len(Append(log, record)) = meta_head + 1
    BY <2>2, <1>t
  <2>4. ASSUME NEW i \in 1..(meta_head + 1)
        PROVE  Append(log, record)[i] = IF i <= meta_head THEN log[i] ELSE record
    BY <2>2, <1>t
  <2> QED BY <2>1, <2>2, <2>3, <2>4
<1>2. CASE wpc = "idle"
  <2>1. AnnouncedLog = [i \in 1..meta_head |-> Published(log[i])]
    BY <1>2, <1>c DEF AnnouncedLog, Unlogged
  <2> QED BY <1>2, <2>1
<1>3. CASE wpc \notin Unlogged
  <2>1. AnnouncedLog = [i \in 1..(meta_head + 1) |-> Published(log[i])]
    BY <1>3, <1>c DEF AnnouncedLog, Unlogged
  <2>2. ASSUME NEW i \in 1..(meta_head + 1) PROVE i <= meta_head \/ i = meta_head + 1
    BY <1>t
  <2> QED BY <1>3, <1>c, <2>1, <2>2 DEF Unlogged
<1> QED BY <1>1, <1>2, <1>3 DEF Unlogged

(* Its length and its elements. *)
LEMMA AnnouncedBlocks ==
  ASSUME RecordInv
  PROVE  /\ AnnouncedLog \in Seq({Published(m) : m \in Record})
         /\ Len(AnnouncedLog) = IF wpc = "idle" THEN meta_head ELSE meta_head + 1
         /\ \A i \in 1..meta_head : AnnouncedLog[i] = Published(log[i])
         /\ wpc # "idle" => AnnouncedLog[meta_head + 1] = Published(record)
<1> DEFINE n == IF wpc = "idle" THEN meta_head ELSE meta_head + 1
<1>t. /\ record \in Record /\ meta_head \in Nat /\ n \in Nat
      /\ \A i \in 1..meta_head : log[i] \in Record
  BY StreamTypes
<1>1. AnnouncedLog = [i \in 1..n |-> IF i <= meta_head THEN Published(log[i]) ELSE Published(record)]
  BY AnnouncedIs
<1>2. ASSUME NEW i \in 1..n
      PROVE  (IF i <= meta_head THEN Published(log[i]) ELSE Published(record))
               \in {Published(m) : m \in Record}
  BY <1>t
<1>3. AnnouncedLog \in [1..n -> {Published(m) : m \in Record}]
  BY <1>1, <1>2
<1>4. AnnouncedLog \in Seq({Published(m) : m \in Record}) /\ Len(AnnouncedLog) = n
  <2> HIDE DEF n
  <2> QED BY <1>3, <1>t
<1> QED BY <1>1, <1>4, <1>t

(* The same after a step. *)
LEMMA AnnouncedAfter ==
  ASSUME RecordInv'
  PROVE  AnnouncedLog' =
           [i \in 1..(IF wpc' = "idle" THEN meta_head' ELSE meta_head' + 1) |->
              IF i <= meta_head' THEN Published(log'[i]) ELSE Published(record')]
<1>1. (RecordInv =>
         AnnouncedLog = [i \in 1..(IF wpc = "idle" THEN meta_head ELSE meta_head + 1) |->
                           IF i <= meta_head THEN Published(log[i]) ELSE Published(record)])'
  BY AnnouncedIs, PTL
<1> QED BY <1>1 DEF Published

(* Two states with the same blocks have the same abstract log. *)
LEMMA SameAnnounced ==
  ASSUME RecordInv, RecordInv', meta_head' = meta_head, wpc # "idle", wpc' # "idle",
         Published(record') = Published(record), \A i \in 1..Len(log) : log'[i] = log[i]
  PROVE  AnnouncedLog' = AnnouncedLog
<1>1. AnnouncedLog = [i \in 1..(meta_head + 1) |->
                        IF i <= meta_head THEN Published(log[i]) ELSE Published(record)]
  BY AnnouncedIs
<1>2. AnnouncedLog' = [i \in 1..(meta_head + 1) |->
                         IF i <= meta_head THEN Published(log'[i]) ELSE Published(record')]
  BY AnnouncedAfter
<1>3. ASSUME NEW i \in 1..(meta_head + 1), i <= meta_head
      PROVE  log'[i] = log[i]
  <2>1. i \in 1..Len(log)
    BY <1>3, StreamTypes
  <2> QED BY <2>1
<1> QED BY <1>1, <1>2, <1>3

LEMMA RefinementInit == Init => RL!RingInit
<1> SUFFICES ASSUME Init PROVE RL!RingInit
  OBVIOUS
<1>1. AnnouncedLog = <<>>
  BY DEF Init, AnnouncedLog
<1>2. Phase = "idle"
  BY DEF Init, Phase
<1> QED BY <1>1, <1>2 DEF Init, RL!RingInit

(* Every step of push is the abstract step its stores stand for, or none. *)
LEMMA WriterRefines ==
  ASSUME RecordInv, RecordInv', StreamInv, WriterNext
  PROVE  RL!WriterNext \/ UNCHANGED RL!ringVars
<1>t. /\ log \in Seq(Record) /\ record \in Record /\ Len(log) \in Nat
      /\ meta_head \in Nat /\ next_block = meta_head
      /\ stream_end \in Nat \cup {-1} /\ gaps_total \in Nat
      /\ \A b \in 1..Len(log) : log[b] \in Record
      /\ 1..meta_head \subseteq 1..Len(log)
  BY StreamTypes
<1>g. \A i \in 1..Len(log) : log'[i] = log[i]
  BY WriterGrows DEF RecordInv
<1>a. /\ AnnouncedLog \in Seq({Published(m) : m \in Record})
      /\ Len(AnnouncedLog) = IF wpc = "idle" THEN meta_head ELSE meta_head + 1
      /\ \A i \in 1..meta_head : AnnouncedLog[i] = Published(log[i])
      /\ wpc # "idle" => AnnouncedLog[meta_head + 1] = Published(record)
  BY AnnouncedBlocks
<1>e. \A m : RL!EndOf(Published(m)) = EndOf(m)
  BY DEF RL!EndOf, Published, EndOf
(* Where the abstract log ends, between pushes. *)
<1>l. ASSUME wpc = "idle"
      PROVE  /\ AnnouncedLog = <<>> <=> meta_head = 0
             /\ RL!StreamEnd = stream_end
             /\ \A first \in Nat : RL!GapsBefore(first) = GapsTotal(first)
  <2>1. AnnouncedLog = <<>> <=> meta_head = 0
    BY <1>l, <1>a, <1>t
  <2>2. meta_head # 0 => AnnouncedLog[Len(AnnouncedLog)] = Published(log[meta_head])
    <3>1. meta_head # 0 => meta_head \in 1..meta_head
      BY <1>t
    <3> QED BY <3>1, <1>l, <1>a
  <2>3. RL!StreamEnd = stream_end
    BY <2>1, <2>2, <1>e DEF RL!StreamEnd, StreamInv
  <2>4. ASSUME NEW first \in Nat PROVE RL!GapsBefore(first) = GapsTotal(first)
    <3>1. CASE meta_head = 0
      BY <2>1, <3>1, <1>t DEF RL!GapsBefore, GapsTotal, StreamInv
    <3>2. CASE meta_head # 0
      <4>1. /\ stream_end = EndOf(log[meta_head]) /\ gaps_total = log[meta_head].gaps_total
            /\ stream_end # -1
        <5>1. log[meta_head] \in Record
          BY <3>2, <1>t
        <5> QED BY <3>2, <5>1, EndOfNat DEF StreamInv
      <4>2. RL!GapsBefore(first) = log[meta_head].gaps_total + (first - EndOf(log[meta_head]))
        BY <2>1, <2>2, <3>2, <1>e DEF RL!GapsBefore, Published
      <4> QED BY <4>1, <4>2 DEF GapsTotal
    <3> QED BY <3>1, <3>2
  <2> QED BY <2>1, <2>3, <2>4
<1> USE DEF RL!ringVars
<1>1. ASSUME NEW first \in 0..MaxIndex, NEW n \in BlockLens, NEW p \in Provenances,
             BeginPush(first, n, p)
      PROVE  RL!AnnounceRecord(first, n, p)
  <2>1. /\ wpc = "idle" /\ wpc' = "provenance" /\ ~closed /\ PushError(first, n) = "Ok"
        /\ UNCHANGED <<log, sample_write_end, sample_commit_end, meta_head, closed>>
        /\ record' = [first_sample |-> first, len |-> n, gaps_total |-> GapsTotal(first),
                       provenance |-> p, provenance_key |-> 0, provenance_slot |-> 0]
    BY <1>1 DEF BeginPush
  <2>2. Phase = "idle" /\ Phase' = "recording"
    BY <2>1 DEF Phase
  <2>3. RL!PushError(first, n, RL!StreamEnd) = "Ok"
    BY <2>1, <1>l DEF PushError, RL!PushError
  <2>4. Published(record') = [first_sample |-> first, len |-> n,
                              gaps_total |-> RL!GapsBefore(first), provenance |-> p]
    BY <2>1, <1>l DEF Published
  <2>5. AnnouncedLog' = Append(AnnouncedLog, Published(record'))
    <3> DEFINE e == Published(record')
    <3>1. AnnouncedLog' = [i \in 1..(meta_head + 1) |->
                             IF i <= meta_head THEN Published(log[i]) ELSE e]
      BY <2>1, AnnouncedAfter
    <3>2. AnnouncedLog = [i \in 1..meta_head |-> AnnouncedLog[i]] /\ Len(AnnouncedLog) = meta_head
      BY <2>1, <1>a, <1>t
    <3> HIDE DEF e
    <3>3. Append(AnnouncedLog, e) =
            [i \in 1..(meta_head + 1) |-> IF i = meta_head + 1 THEN e ELSE AnnouncedLog[i]]
      <4>1. AnnouncedLog \in Seq({Published(m) : m \in Record} \cup {e})
        BY <1>a
      <4> QED BY <4>1, <3>2, <1>t
    <3>4. ASSUME NEW i \in 1..(meta_head + 1)
          PROVE  /\ i <= meta_head <=> i # meta_head + 1
                 /\ i <= meta_head => AnnouncedLog[i] = Published(log[i])
      BY <1>a, <1>t
    <3>5. ASSUME NEW i \in 1..(meta_head + 1)
          PROVE  (IF i <= meta_head THEN Published(log[i]) ELSE e)
                   = (IF i = meta_head + 1 THEN e ELSE AnnouncedLog[i])
      BY <3>4
    <3>6. AnnouncedLog' = Append(AnnouncedLog, e)
      BY <3>1, <3>3, <3>5
    <3> QED BY <3>6 DEF e
  <2> QED BY <2>1, <2>2, <2>3, <2>4, <2>5 DEF RL!AnnounceRecord
<1>2. CASE KeepProvenance \/ NewProvenance \/ SkipSlot \/ ClaimSlot \/ StoreStreamStart \/ StoreField
  <2>1. /\ wpc \in {"provenance", "claim", "stream_start", "record"}
        /\ wpc' \in {"claim", "stream_start", "record"}
        /\ UNCHANGED <<sample_write_end, sample_commit_end, meta_head, closed>>
    BY <1>2 DEF KeepProvenance, NewProvenance, SkipSlot, ClaimSlot, StoreStreamStart, StoreField,
       UseRecord, sharedVars
  <2>2. Published(record') = Published(record)
    BY <1>2, <1>t DEF KeepProvenance, NewProvenance, SkipSlot, ClaimSlot, StoreStreamStart,
       StoreField, UseRecord, Published, Record
  <2>3. AnnouncedLog' = AnnouncedLog
    BY <2>1, <2>2, <1>g, SameAnnounced
  <2>4. Phase' = Phase
    BY <2>1 DEF Phase
  <2> QED BY <2>1, <2>3, <2>4
<1>3. CASE AnnounceSamples
  <2>1. /\ wpc = "record" /\ wpc' = "samples" /\ sample_write_end' = EndOf(record)
        /\ UNCHANGED <<log, record, sample_commit_end, meta_head, closed>>
    BY <1>3 DEF AnnounceSamples
  <2>2. AnnouncedLog' = AnnouncedLog
    BY <2>1, <1>g, SameAnnounced
  <2>3. AnnouncedLog[Len(AnnouncedLog)] = Published(record)
    BY <2>1, <1>a
  <2> QED BY <2>1, <2>2, <2>3, <1>e DEF RL!WriterNext, RL!AnnounceSamples, Phase
<1>4. CASE StoreSample
  <2>1. /\ wpc = "samples" /\ wpc' = "samples"
        /\ UNCHANGED <<log, record, sample_write_end, sample_commit_end, meta_head, closed>>
    BY <1>4 DEF StoreSample
  <2>2. AnnouncedLog' = AnnouncedLog
    BY <2>1, <1>g, SameAnnounced
  <2> QED BY <2>1, <2>2 DEF Phase
<1>5. CASE CommitSamples
  <2>1. /\ wpc = "samples" /\ wpc' = "head" /\ sample_commit_end' = EndOf(record)
        /\ UNCHANGED <<log, record, sample_write_end, meta_head, closed>>
    BY <1>5 DEF CommitSamples
  <2>2. AnnouncedLog' = AnnouncedLog
    BY <2>1, <1>g, SameAnnounced
  <2>3. AnnouncedLog[Len(AnnouncedLog)] = Published(record)
    BY <2>1, <1>a
  <2> QED BY <2>1, <2>2, <2>3, <1>e DEF RL!WriterNext, RL!CommitSamples, Phase
<1>6. CASE CommitHead
  <2>1. /\ wpc = "head" /\ wpc' = "idle" /\ meta_head' = meta_head + 1
        /\ UNCHANGED <<log, record, sample_write_end, sample_commit_end, closed>>
    BY <1>6, <1>t DEF CommitHead
  <2>2. log[meta_head + 1] = record
    BY <2>1 DEF RecordInv, CountersInv, Unlogged
  <2>3. AnnouncedLog' = AnnouncedLog
    <3>1. AnnouncedLog' = [i \in 1..(meta_head + 1) |->
                             IF i <= meta_head + 1 THEN Published(log[i]) ELSE Published(record)]
      BY <2>1, AnnouncedAfter
    <3>2. AnnouncedLog = [i \in 1..(meta_head + 1) |->
                            IF i <= meta_head THEN Published(log[i]) ELSE Published(record)]
      BY <2>1, AnnouncedIs
    <3>3. ASSUME NEW i \in 1..(meta_head + 1) PROVE i <= meta_head \/ i = meta_head + 1
      BY <1>t
    <3> QED BY <3>1, <3>2, <3>3, <2>2
  <2>4. meta_head' = Len(AnnouncedLog)
    BY <2>1, <1>a
  <2> QED BY <2>1, <2>3, <2>4 DEF RL!WriterNext, RL!CommitHead, Phase
<1>7. CASE Close
  <2>1. /\ wpc = "idle" /\ wpc' = "idle" /\ ~closed /\ closed' = TRUE
        /\ UNCHANGED <<log, record, sample_write_end, sample_commit_end, meta_head>>
    BY <1>7 DEF Close, writerVars
  <2>2. AnnouncedLog' = AnnouncedLog
    BY <2>1 DEF AnnouncedLog, Published
  <2> QED BY <2>1, <2>2 DEF RL!WriterNext, RL!Close, Phase
<1> QED BY <1>1, <1>2, <1>3, <1>4, <1>5, <1>6, <1>7 DEF WriterNext, RL!WriterNext

(* The lock-free ring is the abstract log of immutable blocks: each atomic store of push is *)
(* one of its four steps or none, and no reader's step shows in it.                         *)
THEOREM RingImplementsLog == Spec => ImplementsRingLog
<1>1. RecordInv /\ RecordInv' /\ SampleInv /\ [Next]_vars => [RL!WriterNext]_(RL!ringVars)
  <2> SUFFICES ASSUME RecordInv, RecordInv', SampleInv, [Next]_vars
               PROVE  RL!WriterNext \/ UNCHANGED RL!ringVars
    OBVIOUS
  <2>1. CASE WriterNext
    BY <2>1, WriterRefines DEF SampleInv
  <2>2. ASSUME UNCHANGED <<sharedVars, writerVars>> PROVE UNCHANGED RL!ringVars
    BY <2>2 DEF sharedVars, writerVars, RL!ringVars, AnnouncedLog, Published, Phase
  <2>3. ASSUME NEW r \in Readers, ReaderNext(r) PROVE UNCHANGED RL!ringVars
    <3>1. UNCHANGED <<sharedVars, writerVars>>
      BY <2>3 DEF ReaderNext, LoadHead, LoadField, ReturnMeta, RejectMeta, BeginCopy, LoadSample,
         ReturnCopied, ReturnOverwritten, LockEntry, ReturnHandle, ReturnNoHandle,
         CountersHead, CountersEnd, CountersHeadAgain, CountersEndAgain, CountersRetry, Done
    <3> QED BY <3>1, <2>2
  <2>4. CASE UNCHANGED vars
    BY <2>4, <2>2 DEF vars
  <2> QED BY <2>1, <2>3, <2>4 DEF Next
<1> QED BY <1>1, RefinementInit, RingRecords, RingSamples, PTL
        DEF Spec, ImplementsRingLog, RL!RingSpec

(* A lookup of a record succeeds and fails exactly where the abstract log's does, at the     *)
(* load that decides it.                                                                     *)
THEOREM LookupsAreAbstract == Spec => MetaIsAbstractMeta
<1>1. ASSUME RecordInv, StreamStartInv, NEW r \in Readers, ReturnMeta(r) \/ RejectMeta(r)
      PROVE  /\ ReturnMeta(r) => /\ RL!HasMeta(block[r])
                                 /\ RL!Meta(block[r]).first_sample = FirstSample(r)
                                 /\ stream_start = RL!stream_start
             /\ RejectMeta(r) => ~RL!HasMeta(block[r])
  <2>1. /\ rpc[r] = "fields" /\ Len(loaded[r]) = Len(FieldOrder)
        /\ ReturnMeta(r) => block[r] >= oldest_valid_block
        /\ RejectMeta(r) => block[r] < oldest_valid_block
    BY <1>1 DEF ReturnMeta, RejectMeta
  <2>2. /\ block[r] \in Nat /\ block[r] < meta_head /\ meta_head \in Nat
        /\ \/ block[r] < oldest_valid_block
           \/ \A i \in 1..Len(FieldOrder) : loaded[r][i] = log[block[r] + 1][FieldOrder[i]]
    BY <1>1, <2>1, StreamTypes DEF RecordInv, TypeOK, ReaderType, LoadedInv
  <2>3. meta_write_end \in Nat /\ Len(AnnouncedLog) = meta_write_end
    BY <1>1, AnnouncedBlocks, StreamTypes DEF RecordInv, CountersInv
  <2>4. RL!oldest_valid_block = oldest_valid_block
    BY <2>3 DEF RL!oldest_valid_block, RL!meta_write_end, RL!SatSub, oldest_valid_block, SatSub
  <2>5. oldest_valid_block \in Nat
    BY <2>3 DEF oldest_valid_block, SatSub
  <2>6. block[r] + 1 \in 1..meta_head /\ 1 \in 1..meta_head
    BY <2>2
  <2>7. /\ AnnouncedLog[block[r] + 1] = Published(log[block[r] + 1])
        /\ AnnouncedLog[1] = Published(log[1])
    BY <1>1, <2>6, AnnouncedBlocks
  <2>8. ASSUME ReturnMeta(r) PROVE FirstSample(r) = log[block[r] + 1].first_sample
    <3>1. loaded[r][1] = log[block[r] + 1][FieldOrder[1]]
      BY <2>1, <2>2, <2>5, <2>8, FieldOrderFacts
    <3> QED BY <3>1 DEF FirstSample, FieldOrder
  <2>9. stream_start = log[1].first_sample
    BY <1>1, <2>2 DEF StreamStartInv
  <2> QED BY <2>1, <2>2, <2>4, <2>5, <2>7, <2>8, <2>9
          DEF RL!HasMeta, RL!Meta, RL!stream_start, Published
<1>2. RecordInv /\ StreamStartInv =>
        \A r \in Readers :
          /\ ReturnMeta(r) => /\ RL!HasMeta(block[r])
                              /\ RL!Meta(block[r]).first_sample = FirstSample(r)
                              /\ stream_start = RL!stream_start
          /\ RejectMeta(r) => ~RL!HasMeta(block[r])
  BY <1>1
<1> QED BY <1>2, RingRecords, StreamStartsWithBlock0, PTL DEF MetaIsAbstractMeta

-----------------------------------------------------------------------------
(* The provenance table *)

(* The types these proofs keep needing. *)
LEMMA TableTypes ==
  ASSUME RecordInv
  PROVE  /\ log \in Seq(Record) /\ record \in Record /\ Len(log) \in Nat
         /\ meta_head \in Nat /\ next_block = meta_head
         /\ Len(log) = IF wpc \in Unlogged THEN meta_head ELSE meta_head + 1
         /\ next_provenance_key \in Nat /\ (wpc = "claim" => next_provenance_key > 0)
         /\ live_provenance \in Seq(LiveKey) /\ Len(live_provenance) \in Nat
         /\ provenance \in [TableSlots -> [key : Nat, provenance : Handles] \cup {NoEntry}]
         /\ slot_cursor \in TableSlots
         /\ current_provenance \in
              [key : Nat, slot : TableSlots, provenance : Handles] \cup {NoProvenance}
<1>1. /\ log \in Seq(Record) /\ record \in Record /\ meta_head \in Nat
      /\ next_provenance_key \in Nat /\ (wpc = "claim" => next_provenance_key > 0)
      /\ live_provenance \in Seq(LiveKey) /\ slot_cursor \in TableSlots
      /\ provenance \in [TableSlots -> [key : Nat, provenance : Handles] \cup {NoEntry}]
      /\ current_provenance \in
           [key : Nat, slot : TableSlots, provenance : Handles] \cup {NoProvenance}
  BY DEF RecordInv, TypeOK, SharedType, WriterType
<1>2. /\ next_block = meta_head
      /\ Len(log) = IF wpc \in Unlogged THEN meta_head ELSE meta_head + 1
  BY DEF RecordInv, CountersInv
<1> QED BY <1>1, <1>2

(* Every block's record is one. *)
LEMMA LoggedRecord ==
  ASSUME RecordInv, NEW b \in 1..Len(log)
  PROVE  log[b] \in Record /\ log[b].provenance_key \in Nat /\ log[b].provenance_slot \in TableSlots
<1>1. log[b] \in Record
  BY TableTypes
<1> QED BY <1>1 DEF Record

(* What the two steps that record a block do to the record and the log. *)
LEMMA UseRecordLogs ==
  ASSUME RecordInv, NEW key \in Nat, NEW slot \in TableSlots, UseRecord(key, slot)
  PROVE  /\ Len(log') = Len(log) + 1
         /\ \A b \in 1..Len(log) : log'[b] = log[b]
         /\ log'[Len(log) + 1].provenance_key = key
         /\ log'[Len(log) + 1].provenance_slot = slot
         /\ log'[Len(log) + 1].provenance = record.provenance
         /\ wpc' = "stream_start"
<1>1. record' = [record EXCEPT !.provenance_key = key, !.provenance_slot = slot]
  BY DEF UseRecord
<1>2. /\ record' \in Record /\ record'.provenance_key = key /\ record'.provenance_slot = slot
      /\ record'.provenance = record.provenance
  BY <1>1, TableTypes DEF Record
<1>3. log' = Append(log, record') /\ wpc' = "stream_start" /\ log \in Seq(Record)
  BY TableTypes DEF UseRecord
<1>4. Len(log') = Len(log) + 1 /\ \A b \in 1..Len(log) : log'[b] = log[b]
  BY <1>2, <1>3
<1>5. log'[Len(log) + 1] = record'
  BY <1>2, <1>3
<1> QED BY <1>2, <1>3, <1>4, <1>5

(* What KeepProvenance and ClaimSlot use. *)
LEMMA KeepProvenanceUses ==
  ASSUME RecordInv, KeepProvenance
  PROVE  /\ current_provenance # NoProvenance
         /\ current_provenance \in [key : Nat, slot : TableSlots, provenance : Handles]
         /\ current_provenance.provenance = record.provenance
         /\ UseRecord(current_provenance.key, current_provenance.slot)
         /\ Len(log) = meta_head /\ wpc = "provenance"
         /\ UNCHANGED <<provenance, current_provenance, next_provenance_key, live_provenance,
                        slot_in_use, meta_head, meta_write_end, next_block>>
<1>1. /\ current_provenance # NoProvenance
      /\ current_provenance.provenance = record.provenance
      /\ UseRecord(current_provenance.key, current_provenance.slot)
      /\ wpc = "provenance"
      /\ UNCHANGED <<provenance, current_provenance, next_provenance_key, live_provenance,
                     slot_in_use, meta_head, meta_write_end, next_block>>
  BY DEF KeepProvenance, SameProvenance, sharedVars
<1>2. Len(log) = meta_head
  BY <1>1, TableTypes DEF Unlogged
<1> QED BY <1>1, <1>2, TableTypes

LEMMA ClaimSlotUses ==
  ASSUME RecordInv, ClaimSlot
  PROVE  /\ next_provenance_key - 1 \in Nat /\ slot_cursor \in TableSlots
         /\ slot_cursor \notin slot_in_use
         /\ UseRecord(next_provenance_key - 1, slot_cursor)
         /\ provenance' = [provenance EXCEPT ![slot_cursor] =
                             [key |-> next_provenance_key - 1, provenance |-> record.provenance]]
         /\ slot_in_use' = slot_in_use \cup {slot_cursor}
         /\ live_provenance' = Append(live_provenance,
              [key |-> next_provenance_key - 1, first_block |-> next_block, slot |-> slot_cursor])
         /\ current_provenance' = [key |-> next_provenance_key - 1, slot |-> slot_cursor,
                                   provenance |-> record.provenance]
         /\ wpc = "claim" /\ Len(log) = meta_head /\ record.provenance \in Handles
         /\ UNCHANGED <<next_provenance_key, meta_head, meta_write_end, next_block>>
<1>1. /\ slot_cursor \notin slot_in_use
      /\ UseRecord(next_provenance_key - 1, slot_cursor)
      /\ provenance' = [provenance EXCEPT ![slot_cursor] =
                          [key |-> next_provenance_key - 1, provenance |-> record.provenance]]
      /\ slot_in_use' = slot_in_use \cup {slot_cursor}
      /\ live_provenance' = Append(live_provenance,
           [key |-> next_provenance_key - 1, first_block |-> next_block, slot |-> slot_cursor])
      /\ current_provenance' = [key |-> next_provenance_key - 1, slot |-> slot_cursor,
                                provenance |-> record.provenance]
      /\ wpc = "claim"
      /\ UNCHANGED <<next_provenance_key, meta_head, meta_write_end, next_block>>
  BY DEF ClaimSlot, Claimable, Entry
<1>2. Len(log) = meta_head /\ next_provenance_key - 1 \in Nat /\ slot_cursor \in TableSlots
      /\ record.provenance \in Handles
  BY <1>1, TableTypes DEF Unlogged, Record
<1> QED BY <1>1, <1>2

-----------------------------------------------------------------------------
(* A key names one handle *)

LEMMA KeysStep ==
  ASSUME RecordInv, KeysNameHandles, WriterNext
  PROVE  KeysNameHandles'
<1>t. /\ Len(log) \in Nat
      /\ next_provenance_key \in Nat /\ (wpc = "claim" => next_provenance_key > 0)
      /\ provenance \in [TableSlots -> [key : Nat, provenance : Handles] \cup {NoEntry}]
  BY TableTypes
<1> USE DEF KeysNameHandles
<1>k. ASSUME UNCHANGED <<log, provenance, current_provenance>>, UsedKeys' = UsedKeys
      PROVE  KeysNameHandles'
  BY <1>k
<1>1. CASE \/ \E first \in 0..MaxIndex, n \in BlockLens, p \in Provenances : BeginPush(first, n, p)
           \/ SkipSlot \/ StoreStreamStart \/ StoreField \/ AnnounceSamples \/ StoreSample
           \/ CommitSamples \/ CommitHead \/ Close
  <2>1. /\ UNCHANGED <<log, provenance, current_provenance, next_provenance_key>>
        /\ wpc = "claim" <=> wpc' = "claim"
    BY <1>1 DEF BeginPush, SkipSlot, StoreStreamStart, StoreField, AnnounceSamples, StoreSample,
       CommitSamples, CommitHead, Close, sharedVars, writerVars
  <2> QED BY <2>1, <1>k DEF UsedKeys
<1>2. CASE NewProvenance
  <2>1. /\ UNCHANGED <<log, provenance, current_provenance>>
        /\ next_provenance_key' = next_provenance_key + 1
        /\ wpc = "provenance" /\ wpc' = "claim"
    BY <1>2 DEF NewProvenance, sharedVars
  <2>2. UsedKeys' = UsedKeys
    BY <2>1, <1>t DEF UsedKeys
  <2> QED BY <2>1, <2>2, <1>k
<1>3. CASE KeepProvenance
  <2> DEFINE new == Len(log) + 1
  <2>1. /\ current_provenance # NoProvenance
        /\ current_provenance.provenance = record.provenance
        /\ Len(log') = new /\ \A b \in 1..Len(log) : log'[b] = log[b]
        /\ log'[new].provenance_key = current_provenance.key
        /\ log'[new].provenance = record.provenance
        /\ wpc' = "stream_start" /\ wpc = "provenance"
        /\ UNCHANGED <<provenance, current_provenance, next_provenance_key>>
    <3>1. /\ current_provenance # NoProvenance
          /\ current_provenance.key \in Nat /\ current_provenance.slot \in TableSlots
          /\ UseRecord(current_provenance.key, current_provenance.slot)
          /\ current_provenance.provenance = record.provenance /\ wpc = "provenance"
          /\ UNCHANGED <<provenance, current_provenance, next_provenance_key>>
      BY <1>3, KeepProvenanceUses
    <3> QED BY <3>1, UseRecordLogs
  <2>2. UsedKeys' = UsedKeys
    BY <2>1 DEF UsedKeys
  <2>3. ASSUME NEW b \in 1..Len(log') PROVE b \in 1..Len(log) \/ b = new
    BY <2>1, <1>t
  <2> QED BY <2>1, <2>2, <2>3
<1>4. CASE ClaimSlot
  <2> DEFINE new == Len(log) + 1
             key == next_provenance_key - 1
             slot == slot_cursor
  <2>1. /\ key \in Nat /\ slot \in TableSlots /\ wpc = "claim"
        /\ UseRecord(key, slot) /\ next_provenance_key' = next_provenance_key
        /\ provenance' = [provenance EXCEPT ![slot] =
                            [key |-> key, provenance |-> record.provenance]]
        /\ current_provenance' = [key |-> key, slot |-> slot, provenance |-> record.provenance]
        /\ record.provenance \in Handles
    BY <1>4, ClaimSlotUses
  <2>2. /\ Len(log') = new /\ \A b \in 1..Len(log) : log'[b] = log[b]
        /\ log'[new].provenance_key = key /\ log'[new].provenance = record.provenance
        /\ wpc' = "stream_start"
    <3> HIDE DEF key, slot
    <3> QED BY <2>1, UseRecordLogs
  <2>3. UsedKeys' = UsedKeys \cup {key} /\ key \notin UsedKeys
    BY <2>1, <2>2, <1>t DEF UsedKeys
  <2> HIDE DEF key, slot
  <2>4. ASSUME NEW b \in 1..Len(log') PROVE b \in 1..Len(log) \/ b = new
    BY <2>2, <1>t
  <2>5. provenance'[slot] = [key |-> key, provenance |-> record.provenance]
    BY <2>1, <1>t
  <2>6. ASSUME NEW s \in TableSlots, s # slot PROVE provenance'[s] = provenance[s]
    BY <2>1, <2>6, <1>t
  <2>7. ASSUME NEW s \in TableSlots, s # slot PROVE provenance'[s].key # key
    <3>1. CASE provenance[s] = NoEntry
      BY <3>1, <2>1, <2>6, <2>7 DEF NoEntry
    <3>2. CASE provenance[s] # NoEntry
      BY <3>2, <2>3, <2>6, <2>7
    <3> QED BY <3>1, <3>2
  <2>8. \A b \in 1..Len(log') : log'[b].provenance_key \in UsedKeys'
    BY <2>2, <2>3, <2>4
  <2>9. ASSUME NEW s \in TableSlots, provenance'[s] # NoEntry
        PROVE  /\ provenance'[s].key \in UsedKeys'
               /\ \A b \in 1..Len(log') :
                    provenance'[s].key = log'[b].provenance_key =>
                      provenance'[s].provenance = log'[b].provenance
    <3>1. CASE s = slot
      BY <3>1, <2>2, <2>3, <2>4, <2>5
    <3>2. CASE s # slot
      BY <3>2, <2>2, <2>3, <2>4, <2>6, <2>7, <2>9
    <3> QED BY <3>1, <3>2
  <2>10. /\ current_provenance'.key \in UsedKeys'
         /\ provenance'[current_provenance'.slot] =
              [key |-> current_provenance'.key, provenance |-> current_provenance'.provenance]
         /\ \A s \in TableSlots :
              provenance'[s].key = current_provenance'.key =>
                provenance'[s].provenance = current_provenance'.provenance
    BY <2>1, <2>3, <2>5, <2>7
  <2> QED BY <2>8, <2>9, <2>10
<1> QED BY <1>1, <1>2, <1>3, <1>4 DEF WriterNext

LEMMA WriterHandleStep ==
  ASSUME RecordInv, HandleInv, WriterNext
  PROVE  HandleInv'
<1>1. KeysNameHandles'
  BY KeysStep DEF HandleInv
<1>2. ASSUME NEW r \in Readers, rpc'[r] = "chunk"
      PROVE  handle'[r] = log'[block'[r] + 1].provenance
  <2>1. UNCHANGED <<rpc, block, handle>>
    BY DEF WriterNext, BeginPush, KeepProvenance, NewProvenance, SkipSlot, ClaimSlot,
           StoreStreamStart, StoreField,
           AnnounceSamples, StoreSample, CommitSamples, CommitHead, Close, readerVars
  <2>2. block[r] < meta_head /\ block[r] \in Nat
    BY <1>2, <2>1 DEF RecordInv, LoadedInv, HasRecord, TypeOK, ReaderType
  <2>3. block[r] + 1 \in 1..Len(log)
    BY <2>2, TableTypes
  <2>4. log'[block[r] + 1] = log[block[r] + 1]
    BY <2>3, WriterGrows DEF RecordInv
  <2> QED BY <1>2, <2>1, <2>4 DEF HandleInv, HandleIsTheBlocks
<1> QED BY <1>1, <1>2 DEF HandleInv, HandleIsTheBlocks

(* What a lookup of the handle has in hand: its block's key and slot. *)
LEMMA LookupHas ==
  ASSUME RecordInv, NEW r \in Readers, rpc[r] \in HasRecord
  PROVE  /\ block[r] \in Nat /\ block[r] + 1 \in 1..Len(log) /\ block[r] < meta_head
         /\ ProvenanceKey(r) = log[block[r] + 1].provenance_key
         /\ ProvenanceSlot(r) = log[block[r] + 1].provenance_slot
         /\ ProvenanceKey(r) \in Nat /\ ProvenanceSlot(r) \in TableSlots
<1>1. block[r] < meta_head /\ block[r] \in Nat
  BY DEF RecordInv, LoadedInv, TypeOK, ReaderType
<1>2. block[r] + 1 \in 1..Len(log)
  BY <1>1, TableTypes
<1>3. \A i \in 1..5 : loaded[r][i] = log[block[r] + 1][FieldOrder[i]]
  BY FieldOrderFacts DEF RecordInv, LoadedInv
<1>4. FieldOrder[4] = "provenance_key" /\ FieldOrder[5] = "provenance_slot"
  BY DEF FieldOrder
<1>5. /\ ProvenanceKey(r) = log[block[r] + 1].provenance_key
      /\ ProvenanceSlot(r) = log[block[r] + 1].provenance_slot
  BY <1>3, <1>4 DEF ProvenanceKey, ProvenanceSlot
<1> QED BY <1>1, <1>2, <1>5, LoggedRecord

LEMMA ReaderHandleStep ==
  ASSUME RecordInv, HandleInv, NEW r \in Readers, ReaderNext(r)
  PROVE  HandleInv'
<1>s. UNCHANGED <<sharedVars, writerVars>>
  BY DEF ReaderNext, LoadHead, LoadField, ReturnMeta, RejectMeta, BeginCopy, LoadSample,
         ReturnCopied, ReturnOverwritten, LockEntry, ReturnHandle, ReturnNoHandle,
         CountersHead, CountersEnd, CountersHeadAgain, CountersEndAgain, CountersRetry, Done
<1>1. KeysNameHandles'
  BY <1>s DEF HandleInv, KeysNameHandles, UsedKeys, sharedVars, writerVars
<1>t. /\ rpc \in [Readers -> ReaderPCs] /\ DOMAIN handle = Readers
      /\ block \in [Readers -> Nat] /\ log' = log
  BY <1>s DEF RecordInv, TypeOK, ReaderType, writerVars
<1>2. ASSUME NEW q \in Readers, rpc'[q] = "chunk"
      PROVE  handle'[q] = log[block'[q] + 1].provenance
  <2>1. CASE q = r /\ ReturnHandle(r)
    <3>1. /\ rpc[r] = "lookup" /\ block' = block
          /\ provenance[ProvenanceSlot(r)].key = ProvenanceKey(r)
          /\ handle'[r] = provenance[ProvenanceSlot(r)].provenance
      BY <2>1, <1>t DEF ReturnHandle
    <3>2. /\ block[r] + 1 \in 1..Len(log)
          /\ ProvenanceKey(r) = log[block[r] + 1].provenance_key
          /\ ProvenanceKey(r) \in Nat /\ ProvenanceSlot(r) \in TableSlots
      BY <3>1, LookupHas DEF HasRecord
    <3>3. provenance[ProvenanceSlot(r)] # NoEntry
      BY <3>1, <3>2 DEF NoEntry
    <3>4. provenance[ProvenanceSlot(r)].provenance = log[block[r] + 1].provenance
      BY <3>1, <3>2, <3>3 DEF HandleInv, KeysNameHandles
    <3> QED BY <2>1, <3>1, <3>4
  <2>2. CASE q # r \/ ~ReturnHandle(r)
    <3>1. rpc[q] = "chunk" /\ handle'[q] = handle[q] /\ block'[q] = block[q]
      BY <1>2, <2>2, <1>t DEF ReaderNext, LoadHead, LoadField, ReturnMeta, RejectMeta,
       BeginCopy, LoadSample, ReturnCopied, ReturnOverwritten, LockEntry, ReturnHandle,
       ReturnNoHandle, CountersHead, CountersEnd, CountersHeadAgain, CountersEndAgain,
       CountersRetry, Done, Forget
    <3> QED BY <3>1 DEF HandleInv, HandleIsTheBlocks
  <2> QED BY <2>1, <2>2
<1> QED BY <1>1, <1>2, <1>t DEF HandleInv, HandleIsTheBlocks

LEMMA HandleInit == Init => HandleInv
<1> SUFFICES ASSUME Init PROVE HandleInv
  OBVIOUS
<1>1. KeysNameHandles
  BY DEF Init, KeysNameHandles
<1>2. HandleIsTheBlocks
  BY DEF Init, HandleIsTheBlocks
<1> QED BY <1>1, <1>2 DEF HandleInv

LEMMA HandleStep == RecordInv /\ HandleInv /\ [Next]_vars => HandleInv'
<1> SUFFICES ASSUME RecordInv, HandleInv, [Next]_vars PROVE HandleInv'
  OBVIOUS
<1>1. CASE WriterNext
  BY <1>1, WriterHandleStep
<1>2. ASSUME NEW r \in Readers, ReaderNext(r) PROVE HandleInv'
  BY <1>2, ReaderHandleStep
<1>3. CASE UNCHANGED vars
  BY <1>3 DEF vars, sharedVars, writerVars, readerVars, HandleInv, KeysNameHandles, UsedKeys,
              HandleIsTheBlocks
<1> QED BY <1>1, <1>2, <1>3 DEF Next

(* The handle a lookup returns is the one in force when its block was recorded, even though *)
(* the table slot may have been reused any number of times in between.                      *)
THEOREM HandleIsExact == Spec => []HandleIsTheBlocks
<1>1. Spec => []HandleInv
  BY HandleInit, HandleStep, RingRecords, PTL DEF Spec
<1>2. HandleInv => HandleIsTheBlocks
  BY DEF HandleInv
<1> QED BY <1>1, <1>2, PTL

-----------------------------------------------------------------------------
(* Live keys *)

(* provenance_for evicts from the front and always leaves the current key. *)
LEMMA EvictionKeepsLast ==
  ASSUME RecordInv, LiveOrder, NEW n \in 0..Len(live_provenance), Evicts(n)
  PROVE  /\ n < Len(live_provenance) \/ live_provenance = <<>>
         /\ \A i \in 1..n :
              live_provenance[i + 1].first_block <= SatSub(next_block + 1, BlockCap)
         /\ n + 1 < Len(live_provenance) =>
              ~(live_provenance[n + 2].first_block <= SatSub(next_block + 1, BlockCap))
<1>1. Len(live_provenance) \in Nat /\ live_provenance \in Seq(LiveKey)
  BY TableTypes
<1>2. /\ \A i \in 1..n : /\ i < Len(live_provenance)
                        /\ live_provenance[i + 1].first_block <= SatSub(next_block + 1, BlockCap)
      /\ ~(/\ n + 1 < Len(live_provenance)
           /\ live_provenance[(n + 1) + 1].first_block <= SatSub(next_block + 1, BlockCap))
  BY DEF Evicts
<1>3. n < Len(live_provenance) \/ live_provenance = <<>>
  <2>1. CASE n = 0
    BY <2>1, <1>1
  <2>2. CASE n # 0
    BY <2>2, <1>1, <1>2
  <2> QED BY <2>1, <2>2
<1>4. (n + 1) + 1 = n + 2
  BY <1>1
<1> QED BY <1>2, <1>3, <1>4

LEMMA LiveOrderStep ==
  ASSUME RecordInv, KeysNameHandles, LiveOrder, WriterNext
  PROVE  LiveOrder'
<1>t. /\ Len(log) \in Nat /\ meta_head \in Nat /\ next_block = meta_head
      /\ Len(log) = IF wpc \in Unlogged THEN meta_head ELSE meta_head + 1
      /\ live_provenance \in Seq(LiveKey) /\ Len(live_provenance) \in Nat
      /\ provenance \in [TableSlots -> [key : Nat, provenance : Handles] \cup {NoEntry}]
      /\ current_provenance \in
           [key : Nat, slot : TableSlots, provenance : Handles] \cup {NoProvenance}
      /\ \A i \in LiveKeys : /\ live_provenance[i].first_block \in Nat
                           /\ live_provenance[i].key \in Nat
                           /\ live_provenance[i].slot \in TableSlots
  <2>1. live_provenance \in Seq(LiveKey)
    BY TableTypes
  <2>2. ASSUME NEW i \in LiveKeys
        PROVE  /\ live_provenance[i].first_block \in Nat
               /\ live_provenance[i].key \in Nat
               /\ live_provenance[i].slot \in TableSlots
    <3>1. live_provenance[i] \in LiveKey
      BY <2>1 DEF LiveKeys
    <3> QED BY <3>1 DEF LiveKey
  <2> QED BY <2>2, TableTypes
<1> USE DEF LiveOrder, LiveKeys
(* A step that leaves the table alone. *)
<1>k. ASSUME UNCHANGED <<live_provenance, slot_in_use, provenance, current_provenance>>,
             wpc' = "claim" => wpc = "claim"
      PROVE  LiveOrder'
  <2>1. Len(log') \in Nat /\ Len(log) <= Len(log')
    <3>1. log' \in Seq(Record)
      BY WriterTypeStep DEF RecordInv, TypeOK, WriterType
    <3> QED BY <3>1, WriterGrows DEF RecordInv
  <2>2. ASSUME NEW i \in LiveKeys PROVE live_provenance[i].first_block < Len(log')
    <3>1. live_provenance[i].first_block \in Nat /\ live_provenance[i].first_block < Len(log)
      BY <1>t
    <3>2. Len(log) \in Nat
      BY <1>t
    <3> QED BY <2>1, <3>1, <3>2
  <2>3. Len(live_provenance) <= IF wpc' = "claim" THEN BlockCap ELSE BlockCap + 1
    BY <1>k, <1>t
  <2> QED BY <1>k, <2>2, <2>3
<1>1. CASE \/ \E first \in 0..MaxIndex, n \in BlockLens, p \in Provenances : BeginPush(first, n, p)
           \/ SkipSlot \/ StoreStreamStart \/ StoreField \/ AnnounceSamples \/ StoreSample
           \/ CommitSamples \/ CommitHead \/ Close \/ KeepProvenance
  <2>1. /\ UNCHANGED <<live_provenance, slot_in_use, provenance, current_provenance>>
        /\ wpc' = "claim" => wpc = "claim"
    BY <1>1 DEF BeginPush, SkipSlot, StoreStreamStart, StoreField, AnnounceSamples, StoreSample,
       CommitSamples, CommitHead, Close, KeepProvenance, UseRecord, sharedVars, writerVars
  <2> QED BY <2>1, <1>k
<1>2. CASE NewProvenance
  <2> DEFINE L == Len(live_provenance)
             oldest == SatSub(next_block + 1, BlockCap)
  <2>1. PICK n \in 0..L :
          /\ Evicts(n)
          /\ live_provenance' = SubSeq(live_provenance, n + 1, L)
          /\ slot_in_use' = slot_in_use \ {live_provenance[i].slot : i \in 1..n}
    BY <1>2 DEF NewProvenance
  <2>2. /\ wpc = "provenance" /\ wpc' = "claim"
        /\ UNCHANGED <<log, provenance, current_provenance>>
    BY <1>2 DEF NewProvenance, sharedVars
  <2>3. Len(log) = next_block
    BY <2>2, <1>t DEF Unlogged
  <2>4. /\ n < L \/ live_provenance = <<>>
        /\ n + 1 < L => ~(live_provenance[n + 2].first_block <= oldest)
    BY <2>1, EvictionKeepsLast
  <2>5. /\ Len(live_provenance') = L - n
        /\ \A i \in 1..(L - n) : live_provenance'[i] = live_provenance[i + n]
        /\ n \in Nat /\ L \in Nat /\ n <= L
    <3>1. n \in Nat /\ L \in Nat /\ n <= L
      BY <1>t
    <3>2. Len(live_provenance') = L - n
      BY <2>1, <3>1, <1>t
    <3>3. ASSUME NEW i \in 1..(L - n) PROVE live_provenance'[i] = live_provenance[i + n]
      BY <2>1, <3>1, <1>t
    <3> QED BY <3>1, <3>2, <3>3
  <2>6. ASSUME NEW i \in 1..(L - n)
        PROVE  i + n \in 1..L /\ i + n \notin 1..n /\ live_provenance'[i] = live_provenance[i + n]
    BY <2>5
  <2>7. slot_in_use' = {live_provenance'[i].slot : i \in 1..(L - n)}
    <3>1. ASSUME NEW s \in slot_in_use' PROVE \E i \in 1..(L - n) : s = live_provenance'[i].slot
      <4>1. PICK i \in 1..L : s = live_provenance[i].slot
        BY <2>1
      <4>2. i \notin 1..n
        BY <2>1, <4>1
      <4>3. i - n \in 1..(L - n) /\ (i - n) + n = i
        BY <4>2, <2>5
      <4> QED BY <4>1, <4>3, <2>5
    <3>2. ASSUME NEW i \in 1..(L - n) PROVE live_provenance'[i].slot \in slot_in_use'
      <4>1. live_provenance[i + n].slot \in slot_in_use
        BY <2>6
      <4>2. \A j \in 1..n : live_provenance[j].slot # live_provenance[i + n].slot
        BY <2>6, <2>5
      <4> QED BY <4>1, <4>2, <2>1, <2>6
    <3> QED BY <3>1, <3>2
  <2>8. \A i, j \in 1..(L - n) : live_provenance'[i].slot = live_provenance'[j].slot => i = j
    <3> SUFFICES ASSUME NEW i \in 1..(L - n), NEW j \in 1..(L - n),
                        live_provenance'[i].slot = live_provenance'[j].slot
                 PROVE  i = j
      OBVIOUS
    <3>1. i + n = j + n
      BY <2>6
    <3> QED BY <3>1, <2>5
  <2>9. \A i, j \in 1..(L - n) : i <= j =>
          live_provenance'[i].first_block + (j - i) <= live_provenance'[j].first_block
    <3> SUFFICES ASSUME NEW i \in 1..(L - n), NEW j \in 1..(L - n), i <= j
                 PROVE  live_provenance'[i].first_block + (j - i) <= live_provenance'[j].first_block
      OBVIOUS
    <3>1. i + n <= j + n /\ (j + n) - (i + n) = j - i
      BY <2>5
    <3>2. live_provenance[i + n].first_block + ((j + n) - (i + n)) <= live_provenance[j + n].first_block
      BY <3>1, <2>6
    <3> QED BY <3>1, <3>2, <2>6
  <2>10. ASSUME NEW i \in 1..(L - n)
         PROVE  /\ live_provenance'[i].first_block < Len(log')
                /\ provenance'[live_provenance'[i].slot].key = live_provenance'[i].key
    <3>1. /\ live_provenance[i + n].first_block < Len(log)
          /\ provenance[live_provenance[i + n].slot].key = live_provenance[i + n].key
      BY <2>6
    <3> QED BY <3>1, <2>2, <2>6
  <2>11. current_provenance # NoProvenance =>
           /\ L - n # 0
           /\ live_provenance'[L - n].key = current_provenance.key
           /\ live_provenance'[L - n].slot = current_provenance.slot
    <3> SUFFICES ASSUME current_provenance # NoProvenance
                 PROVE  /\ L - n # 0
                        /\ live_provenance'[L - n].key = current_provenance.key
                        /\ live_provenance'[L - n].slot = current_provenance.slot
      OBVIOUS
    <3>1. n < L
      BY <2>4
    <3>2. L - n \in 1..(L - n) /\ (L - n) + n = L
      BY <3>1, <2>5
    <3>3. live_provenance'[L - n] = live_provenance[L]
      BY <3>2, <2>6
    <3>4. /\ live_provenance[L].key = current_provenance.key
          /\ live_provenance[L].slot = current_provenance.slot
      OBVIOUS
    <3> QED BY <3>1, <3>3, <3>4, <2>5
  <2>12. L - n <= BlockCap
    <3>1. CASE ~(n + 1 < L)
      BY <3>1, <2>5
    <3>2. CASE n + 1 < L
      <4>1. n + 2 \in 1..L /\ L \in 1..L /\ n + 2 <= L
        BY <3>2, <2>5
      <4>2. live_provenance[n + 2].first_block + (L - (n + 2)) <= live_provenance[L].first_block
        BY <4>1
      <4>3. live_provenance[L].first_block < next_block
        BY <4>1, <2>3
      <4>4. /\ live_provenance[n + 2].first_block \in Nat /\ live_provenance[L].first_block \in Nat
            /\ next_block \in Nat
        BY <4>1, <1>t
      <4>5. ~(live_provenance[n + 2].first_block <= oldest)
        BY <2>4, <3>2
      <4>6. oldest \in Nat /\ oldest >= next_block + 1 - BlockCap
        BY <4>4 DEF SatSub
      <4> HIDE DEF oldest, L
      <4> QED BY <4>2, <4>3, <4>4, <4>5, <4>6, <2>5
    <3> QED BY <3>1, <3>2
  <2> HIDE DEF L
  <2>13. LiveKeys' = 1..(L - n) /\ Len(live_provenance') = L - n
    BY <2>5
  <2>14. live_provenance' # <<>> <=> L - n # 0
    <3>1. live_provenance' \in Seq(LiveKey)
      BY WriterTypeStep DEF RecordInv, TypeOK, WriterType
    <3> QED BY <3>1, <2>13
  <2> QED BY <2>2, <2>7, <2>8, <2>9, <2>10, <2>11, <2>12, <2>13, <2>14
<1>3. CASE ClaimSlot
  <2> DEFINE L == Len(live_provenance)
             key == next_provenance_key - 1
             slot == slot_cursor
             entry == [key |-> key, first_block |-> next_block, slot |-> slot]
  <2>1. /\ key \in Nat /\ slot \in TableSlots /\ slot \notin slot_in_use
        /\ UseRecord(key, slot)
        /\ provenance' = [provenance EXCEPT ![slot] =
                            [key |-> key, provenance |-> record.provenance]]
        /\ slot_in_use' = slot_in_use \cup {slot}
        /\ live_provenance' = Append(live_provenance, entry)
        /\ current_provenance' = [key |-> key, slot |-> slot, provenance |-> record.provenance]
        /\ wpc = "claim" /\ Len(log) = next_block
    BY <1>3, <1>t, ClaimSlotUses
  <2>2. Len(log') = next_block + 1 /\ wpc' = "stream_start"
    <3> HIDE DEF key, slot
    <3> QED BY <2>1, UseRecordLogs
  <2>3. /\ entry.key = key /\ entry.first_block = next_block /\ entry.slot = slot
        /\ entry \in LiveKey
    BY <2>1, <1>t DEF LiveKey
  <2>4. provenance'[slot].key = key
    BY <2>1, <1>t
  <2>5. ASSUME NEW s \in slot_in_use
        PROVE  s # slot /\ provenance'[s] = provenance[s]
    <3>1. s \in TableSlots
      BY <1>t
    <3> QED BY <3>1, <2>1, <1>t
  <2> HIDE DEF entry, key, slot
  <2>6. /\ Len(live_provenance') = L + 1 /\ live_provenance'[L + 1] = entry
        /\ \A i \in 1..L : live_provenance'[i] = live_provenance[i]
        /\ L \in Nat
    BY <2>1, <2>3, <1>t
  <2>7. ASSUME NEW i \in 1..(L + 1) PROVE i \in 1..L \/ i = L + 1
    BY <2>6
  <2>8. \A i \in 1..L : live_provenance[i].slot \in slot_in_use
    OBVIOUS
  <2>9. slot_in_use' = {live_provenance'[i].slot : i \in 1..(L + 1)}
    <3>1. ASSUME NEW s \in slot_in_use' PROVE \E i \in 1..(L + 1) : s = live_provenance'[i].slot
      <4>1. CASE s = slot
        <5>1. L + 1 \in 1..(L + 1)
          BY <2>6
        <5> QED BY <4>1, <5>1, <2>3, <2>6
      <4>2. CASE s \in slot_in_use
        <5>1. PICK i \in 1..L : s = live_provenance[i].slot
          BY <4>2
        <5>2. i \in 1..(L + 1)
          BY <2>6
        <5> QED BY <5>1, <5>2, <2>6
      <4> QED BY <4>1, <4>2, <2>1
    <3>2. ASSUME NEW i \in 1..(L + 1) PROVE live_provenance'[i].slot \in slot_in_use'
      BY <2>1, <2>3, <2>6, <2>7, <2>8
    <3> QED BY <3>1, <3>2
  <2>10. ASSUME NEW i \in 1..(L + 1), NEW j \in 1..(L + 1),
                live_provenance'[i].slot = live_provenance'[j].slot
         PROVE  i = j
    <3>1. CASE i \in 1..L /\ j \in 1..L
      BY <3>1, <2>6, <2>10
    <3>2. CASE i = L + 1 /\ j = L + 1
      BY <3>2
    <3>3. CASE i \in 1..L /\ j = L + 1
      BY <3>3, <2>1, <2>3, <2>6, <2>8, <2>10
    <3>4. CASE i = L + 1 /\ j \in 1..L
      BY <3>4, <2>1, <2>3, <2>6, <2>8, <2>10
    <3> QED BY <3>1, <3>2, <3>3, <3>4, <2>7
  <2>11. ASSUME NEW i \in 1..(L + 1), NEW j \in 1..(L + 1), i <= j
         PROVE  live_provenance'[i].first_block + (j - i) <= live_provenance'[j].first_block
    <3>1. CASE i \in 1..L /\ j \in 1..L
      BY <3>1, <2>6, <2>11
    <3>2. CASE i = L + 1
      <4>1. j = L + 1
        BY <3>2, <2>6, <2>11
      <4> QED BY <3>2, <4>1, <2>3, <2>6, <1>t
    <3>3. CASE i \in 1..L /\ j = L + 1
      <4>1. L \in 1..L /\ i <= L
        BY <3>3, <2>6
      <4>2. live_provenance[i].first_block + (L - i) <= live_provenance[L].first_block
        BY <3>3, <4>1
      <4>3. live_provenance[L].first_block < next_block
        BY <4>1, <2>1
      <4>4. /\ live_provenance[i].first_block \in Nat /\ live_provenance[L].first_block \in Nat
            /\ next_block \in Nat
        BY <3>3, <4>1, <1>t
      <4>5. live_provenance[i].first_block + ((L + 1) - i) <= next_block
        BY <3>3, <4>2, <4>3, <4>4, <2>6
      <4> QED BY <3>3, <4>5, <2>3, <2>6
    <3> QED BY <3>1, <3>2, <3>3, <2>7
  <2>12. ASSUME NEW i \in 1..(L + 1)
         PROVE  /\ live_provenance'[i].first_block < Len(log')
                /\ provenance'[live_provenance'[i].slot].key = live_provenance'[i].key
    <3>1. CASE i = L + 1
      BY <3>1, <2>2, <2>3, <2>4, <2>6, <1>t
    <3>2. CASE i \in 1..L
      <4>1. /\ live_provenance[i].first_block < next_block /\ live_provenance[i].first_block \in Nat
            /\ provenance[live_provenance[i].slot].key = live_provenance[i].key
        BY <3>2, <2>1, <1>t
      <4>2. provenance'[live_provenance[i].slot] = provenance[live_provenance[i].slot]
        BY <3>2, <2>5, <2>8
      <4> QED BY <3>2, <4>1, <4>2, <2>2, <2>6, <1>t
    <3> QED BY <3>1, <3>2, <2>7
  <2>13. /\ live_provenance' # <<>>
         /\ live_provenance'[L + 1].key = current_provenance'.key
         /\ live_provenance'[L + 1].slot = current_provenance'.slot
    <3>1. live_provenance' # <<>>
      BY <2>6
    <3> QED BY <3>1, <2>1, <2>3, <2>6
  <2>14. L + 1 <= BlockCap + 1
    BY <2>1, <2>6
  <2> HIDE DEF L
  <2>15. LiveKeys' = 1..(L + 1) /\ Len(live_provenance') = L + 1
    BY <2>6
  <2> QED BY <2>2, <2>9, <2>10, <2>11, <2>12, <2>13, <2>14, <2>15
<1> QED BY <1>1, <1>2, <1>3 DEF WriterNext

(* provenance_for never evicts the key of a block still retained. *)
LEMMA RetainedLiveStep ==
  ASSUME RecordInv, LiveOrder, RetainedLive, WriterNext
  PROVE  RetainedLive'
<1>t. /\ Len(log) \in Nat /\ meta_head \in Nat /\ next_block = meta_head
      /\ Len(log) = IF wpc \in Unlogged THEN meta_head ELSE meta_head + 1
      /\ live_provenance \in Seq(LiveKey) /\ Len(live_provenance) \in Nat
  BY TableTypes
<1>o. /\ oldest_valid_block \in Nat /\ oldest_valid_block' \in Nat
      /\ oldest_valid_block <= oldest_valid_block'
      /\ \A b \in 1..Len(log) : log'[b] = log[b]
  <2>1. meta_write_end \in Nat /\ meta_write_end' \in Nat
    BY WriterTypeStep DEF RecordInv, TypeOK, SharedType
  <2>2. SatSub(meta_write_end, BlockCap) \in Nat /\ SatSub(meta_write_end', BlockCap) \in Nat
    BY <2>1, SatSubMonotone
  <2> QED BY <2>2, WriterGrows DEF oldest_valid_block, RecordInv
<1> USE DEF LiveKeys
(* The live key a block already had is still its own after a step that keeps the table. *)
<1>b. ASSUME NEW b \in 0..(Len(log) - 1), b >= oldest_valid_block'
      PROVE  /\ \E i \in LiveKeys : KeyOf(i, b)
             /\ b \in Nat /\ log'[b + 1] = log[b + 1]
  <2>1. b >= oldest_valid_block
    BY <1>b, <1>o
  <2>2. b + 1 \in 1..Len(log) /\ b \in Nat
    BY <1>t
  <2> QED BY <2>1, <2>2, <1>o DEF RetainedLive
<1>1. CASE \/ \E first \in 0..MaxIndex, n \in BlockLens, p \in Provenances : BeginPush(first, n, p)
           \/ SkipSlot \/ StoreStreamStart \/ StoreField \/ AnnounceSamples \/ StoreSample
           \/ CommitSamples \/ CommitHead \/ Close
  <2>1. UNCHANGED <<live_provenance, log>>
    BY <1>1 DEF BeginPush, SkipSlot, StoreStreamStart, StoreField, AnnounceSamples, StoreSample,
       CommitSamples, CommitHead, Close, sharedVars, writerVars
  <2> QED BY <2>1, <1>b DEF RetainedLive, KeyOf
<1>2. CASE KeepProvenance
  <2>l. PICK L \in Nat, new \in Nat : L = Len(live_provenance) /\ new = Len(log)
    BY <1>t
  <2>1. /\ current_provenance # NoProvenance
        /\ current_provenance.key \in Nat /\ current_provenance.slot \in TableSlots
        /\ UseRecord(current_provenance.key, current_provenance.slot)
        /\ live_provenance' = live_provenance
    BY <2>l, <1>2, KeepProvenanceUses
  <2>2. /\ Len(log') = new + 1
        /\ log'[new + 1].provenance_key = current_provenance.key
        /\ log'[new + 1].provenance_slot = current_provenance.slot
    BY <2>l, <2>1, UseRecordLogs
  <2>3. /\ L \in LiveKeys
        /\ live_provenance[L].key = current_provenance.key
        /\ live_provenance[L].slot = current_provenance.slot
        /\ live_provenance[L].first_block < new
    <3>1. /\ live_provenance # <<>>
          /\ live_provenance[L].key = current_provenance.key
          /\ live_provenance[L].slot = current_provenance.slot
      BY <2>l, <2>1 DEF LiveOrder
    <3>2. L \in LiveKeys
      BY <2>l, <3>1, <1>t
    <3> QED BY <2>l, <3>1, <3>2 DEF LiveOrder
  <2>4. live_provenance[L].first_block \in Nat
    <3>1. live_provenance[L] \in LiveKey
      BY <2>l, <2>3, <1>t
    <3> QED BY <2>l, <3>1 DEF LiveKey
  <2>5. KeyOf(L, new)'
    <3>1. live_provenance[L].first_block <= new
      BY <2>l, <2>3, <2>4, <1>t
    <3>2. ~(L < Len(live_provenance'))
      BY <2>l, <2>1, <1>t
    <3> QED BY <2>l, <2>1, <2>2, <2>3, <3>1, <3>2 DEF KeyOf
  <2>6. ASSUME NEW b \in 0..(Len(log') - 1), b >= oldest_valid_block'
        PROVE  \E i \in LiveKeys : KeyOf(i, b)'
    <3>1. CASE b = new
      BY <2>l, <3>1, <2>3, <2>5
    <3>2. CASE b # new
      <4>1. b \in 0..(Len(log) - 1)
        BY <2>l, <3>2, <2>2, <1>t
      <4> QED BY <2>l, <4>1, <2>1, <2>6, <1>b DEF KeyOf
    <3> QED BY <2>l, <3>1, <3>2
  <2> QED BY <2>l, <2>1, <2>6 DEF RetainedLive
<1>3. CASE NewProvenance
  <2> DEFINE L == Len(live_provenance)
  <2>1. PICK n \in 0..L :
          /\ Evicts(n)
          /\ live_provenance' = SubSeq(live_provenance, n + 1, L)
    BY <1>3 DEF NewProvenance
  <2>2. log' = log /\ meta_write_end' = meta_write_end /\ wpc = "provenance"
    BY <1>3 DEF NewProvenance, sharedVars
  <2>3. oldest_valid_block' = SatSub(next_block + 1, BlockCap)
    <3>1. meta_write_end = next_block + 1
      BY <2>2 DEF RecordInv, CountersInv
    <3> QED BY <2>2, <3>1 DEF oldest_valid_block
  <2>4. \A i \in 1..n : live_provenance[i + 1].first_block <= oldest_valid_block'
    BY <2>1, <2>3, EvictionKeepsLast
  <2>5. /\ n \in Nat /\ L \in Nat /\ n <= L
        /\ Len(live_provenance') = L - n
        /\ \A i \in 1..(L - n) : live_provenance'[i] = live_provenance[i + n]
    <3>1. n \in Nat /\ L \in Nat /\ n <= L
      BY <1>t
    <3>2. Len(live_provenance') = L - n
      BY <2>1, <3>1, <1>t
    <3>3. ASSUME NEW i \in 1..(L - n) PROVE live_provenance'[i] = live_provenance[i + n]
      BY <2>1, <3>1, <1>t
    <3> QED BY <3>1, <3>2, <3>3
  <2>6. ASSUME NEW b \in 0..(Len(log) - 1), b >= oldest_valid_block'
        PROVE  \E i \in LiveKeys' : KeyOf(i, b)'
    <3>1. PICK i \in 1..L : KeyOf(i, b)
      BY <2>6, <1>b
    <3>2. b \in Nat
      BY <1>t
    <3>3. i \notin 1..n
      <4> SUFFICES ASSUME i \in 1..n PROVE FALSE
        OBVIOUS
      <4>1. i < L
        BY <2>1, <2>5, EvictionKeepsLast DEF Evicts
      <4>2. b < live_provenance[i + 1].first_block
        BY <3>1, <4>1 DEF KeyOf
      <4>3. live_provenance[i + 1].first_block <= oldest_valid_block'
        BY <2>4
      <4>4. live_provenance[i + 1].first_block \in Nat
        <5>1. i + 1 \in 1..L
          BY <4>1, <2>5
        <5>2. live_provenance[i + 1] \in LiveKey
          BY <5>1, <1>t
        <5> QED BY <5>2 DEF LiveKey
      <4> QED BY <4>2, <4>3, <4>4, <3>2, <2>6, <1>o
    <3>4. i - n \in 1..(L - n) /\ (i - n) + n = i
      BY <3>3, <2>5
    <3>5. live_provenance'[i - n] = live_provenance[i]
      BY <3>4, <2>5
    <3>6. ASSUME i - n < L - n PROVE b < live_provenance'[(i - n) + 1].first_block
      <4>1. i < L /\ (i - n) + 1 \in 1..(L - n) /\ ((i - n) + 1) + n = i + 1
        BY <3>4, <3>6, <2>5
      <4>2. live_provenance'[(i - n) + 1] = live_provenance[i + 1]
        BY <4>1, <2>5
      <4> QED BY <4>1, <4>2, <3>1 DEF KeyOf
    <3>7. KeyOf(i - n, b)'
      BY <3>1, <3>5, <3>6, <2>2, <2>5 DEF KeyOf
    <3>8. i - n \in LiveKeys'
      BY <3>4, <2>5
    <3> QED BY <3>7, <3>8
  <2> QED BY <2>2, <2>6 DEF RetainedLive
<1>4. CASE ClaimSlot
  <2>l. PICK L \in Nat, new \in Nat : L = Len(live_provenance) /\ new = Len(log)
    BY <1>t
  <2> DEFINE key == next_provenance_key - 1
             slot == slot_cursor
             entry == [key |-> key, first_block |-> next_block, slot |-> slot]
  <2>1. /\ key \in Nat /\ slot \in TableSlots
        /\ UseRecord(key, slot)
        /\ live_provenance' = Append(live_provenance, entry)
        /\ new = next_block
    BY <2>l, <1>4, <1>t, ClaimSlotUses
  <2>2. /\ Len(log') = new + 1
        /\ log'[new + 1].provenance_key = key /\ log'[new + 1].provenance_slot = slot
    <3> HIDE DEF key, slot
    <3> QED BY <2>l, <2>1, UseRecordLogs
  <2>3. /\ entry.key = key /\ entry.first_block = new /\ entry.slot = slot
        /\ entry \in LiveKey
    BY <2>l, <2>1, <1>t DEF LiveKey
  <2> HIDE DEF entry, key, slot
  <2>4. /\ Len(live_provenance') = L + 1 /\ live_provenance'[L + 1] = entry
        /\ \A i \in 1..L : live_provenance'[i] = live_provenance[i]
        /\ L \in Nat
    BY <2>l, <2>1, <2>3, <1>t
  <2>5. KeyOf(L + 1, new)'
    <3>1. ~(L + 1 < Len(live_provenance')) /\ new <= new
      BY <2>l, <2>4, <1>t
    <3> QED BY <2>l, <2>2, <2>3, <2>4, <3>1 DEF KeyOf
  <2>6. ASSUME NEW b \in 0..(Len(log') - 1), b >= oldest_valid_block'
        PROVE  \E i \in LiveKeys' : KeyOf(i, b)'
    <3>1. CASE b = new
      <4>1. L + 1 \in LiveKeys'
        BY <2>l, <2>4
      <4> QED BY <2>l, <3>1, <4>1, <2>5
    <3>2. CASE b # new
      <4>1. b \in 0..(Len(log) - 1) /\ b < new
        BY <2>l, <3>2, <2>2, <1>t
      <4>2. PICK i \in 1..L : KeyOf(i, b)
        BY <2>l, <4>1, <2>6, <1>b
      <4>3. log'[b + 1] = log[b + 1]
        BY <2>l, <4>1, <2>6, <1>b
      <4>4. i \in LiveKeys' /\ live_provenance'[i] = live_provenance[i]
        BY <2>l, <2>4
      <4>5. b < live_provenance'[i + 1].first_block
        <5>1. CASE i = L
          BY <2>l, <5>1, <4>1, <2>3, <2>4
        <5>2. CASE i # L
          <6>1. i < L /\ i + 1 \in 1..L
            BY <2>l, <5>2, <2>4
          <6> QED BY <2>l, <6>1, <4>2, <2>4 DEF KeyOf
        <5> QED BY <2>l, <5>1, <5>2
      <4> QED BY <2>l, <4>2, <4>3, <4>4, <4>5 DEF KeyOf
    <3> QED BY <2>l, <3>1, <3>2
  <2> QED BY <2>l, <2>6 DEF RetainedLive
<1> QED BY <1>1, <1>2, <1>3, <1>4 DEF WriterNext

LEMMA TableInit == Init => TableInv
<1> SUFFICES ASSUME Init PROVE TableInv
  OBVIOUS
<1>1. LiveOrder
  BY DEF Init, LiveOrder, LiveKeys
<1>2. RetainedLive
  BY DEF Init, RetainedLive
<1> QED BY <1>1, <1>2 DEF TableInv

LEMMA TableStep == RecordInv /\ HandleInv /\ TableInv /\ [Next]_vars => TableInv'
<1> SUFFICES ASSUME RecordInv, HandleInv, TableInv, [Next]_vars PROVE TableInv'
  OBVIOUS
<1>1. CASE WriterNext
  BY <1>1, LiveOrderStep, RetainedLiveStep DEF TableInv, HandleInv
<1>2. ASSUME UNCHANGED <<sharedVars, writerVars>> PROVE TableInv'
  BY <1>2 DEF sharedVars, writerVars, TableInv, LiveOrder, RetainedLive, LiveKeys, KeyOf,
     oldest_valid_block
<1>3. ASSUME NEW r \in Readers, ReaderNext(r) PROVE TableInv'
  <2>1. UNCHANGED <<sharedVars, writerVars>>
    BY <1>3 DEF ReaderNext, LoadHead, LoadField, ReturnMeta, RejectMeta, BeginCopy, LoadSample,
         ReturnCopied, ReturnOverwritten, LockEntry, ReturnHandle, ReturnNoHandle,
         CountersHead, CountersEnd, CountersHeadAgain, CountersEndAgain, CountersRetry, Done
  <2> QED BY <2>1, <1>2
<1>4. CASE UNCHANGED vars
  BY <1>4, <1>2 DEF vars
<1> QED BY <1>1, <1>3, <1>4 DEF Next

(* The provenance table: keys live in order, each in a slot of its own, and the key of every *)
(* block still retained among them.                                                          *)
THEOREM RingTable == Spec => [](HandleInv /\ TableInv)
<1>1. Init => HandleInv /\ TableInv
  BY HandleInit, TableInit
<1>2. RecordInv /\ HandleInv /\ TableInv /\ [Next]_vars => HandleInv' /\ TableInv'
  BY HandleStep, TableStep
<1> QED BY <1>1, <1>2, RingRecords, PTL DEF Spec

(* The inductive invariant whole: records, samples, handles and the provenance table. *)
THEOREM RingInvariant == Spec => []RingInv
<1>1. RecordInv /\ SampleInv /\ StreamStartInv /\ HandleInv /\ TableInv => RingInv
  BY DEF RingInv
<1> QED BY <1>1, RingRecords, RingSamples, StreamStartsWithBlock0, RingTable, PTL

(* A lookup of a handle misses only when the block it was for is no longer retained: what *)
(* ReaderState::step relies on when it reports such a miss as being lapped.               *)
THEOREM MissOnlyWhenLapped ==
  Spec => [][\A r \in Readers : ReturnNoHandle(r) => block[r] < oldest_valid_block]_vars
<1>1. ASSUME RecordInv, HandleInv, TableInv, NEW r \in Readers, ReturnNoHandle(r)
      PROVE  block[r] < oldest_valid_block
  <2>1. /\ rpc[r] = "lookup" /\ provenance[ProvenanceSlot(r)].key # ProvenanceKey(r)
    BY <1>1 DEF ReturnNoHandle
  <2>2. /\ block[r] \in Nat /\ block[r] + 1 \in 1..Len(log)
        /\ ProvenanceKey(r) = log[block[r] + 1].provenance_key
        /\ ProvenanceSlot(r) = log[block[r] + 1].provenance_slot
    BY <2>1, <1>1, LookupHas DEF HasRecord
  <2>3. oldest_valid_block \in Nat
    <3>1. meta_write_end \in Nat
      BY <1>1 DEF RecordInv, TypeOK, SharedType
    <3>2. SatSub(meta_write_end, BlockCap) \in Nat
      BY <3>1, SatSubMonotone
    <3> QED BY <3>2 DEF oldest_valid_block
  <2>4. SUFFICES ASSUME block[r] >= oldest_valid_block PROVE FALSE
    BY <2>2, <2>3
  <2>5. block[r] \in 0..(Len(log) - 1)
    BY <2>2, <1>1, TableTypes
  <2>6. PICK i \in LiveKeys : KeyOf(i, block[r])
    BY <2>4, <2>5, <1>1 DEF TableInv, RetainedLive
  <2>7. provenance[live_provenance[i].slot].key = live_provenance[i].key
    BY <2>6, <1>1 DEF TableInv, LiveOrder
  <2> QED BY <2>1, <2>2, <2>6, <2>7 DEF KeyOf
<1>2. RecordInv /\ HandleInv /\ TableInv
      => (\A r \in Readers : ReturnNoHandle(r) => block[r] < oldest_valid_block)
  BY <1>1
<1> QED BY <1>2, RingRecords, RingTable, PTL

-----------------------------------------------------------------------------
(* A slot to claim *)

(* The slots in use are no more than the live keys. *)
LEMMA FewSlotsInUse ==
  ASSUME RecordInv, LiveOrder
  PROVE  /\ IsFiniteSet(slot_in_use) /\ Cardinality(slot_in_use) \in Nat
         /\ Cardinality(slot_in_use) <= Len(live_provenance)
<1> DEFINE S == 1..Len(live_provenance)
           f == [i \in S |-> live_provenance[i].slot]
<1>1. Len(live_provenance) \in Nat
  BY TableTypes
<1>2. IsFiniteSet(S) /\ Cardinality(S) = Len(live_provenance)
  <2>1. IsFiniteSet(1..Len(live_provenance))
        /\ Cardinality(1..Len(live_provenance)) =
             IF 1 > Len(live_provenance) THEN 0 ELSE Len(live_provenance) - 1 + 1
    BY <1>1, FS_Interval
  <2> QED BY <1>1, <2>1
<1>3. f \in Surjection(S, slot_in_use)
  BY DEF LiveOrder, LiveKeys, Surjection
<1> HIDE DEF S, f
<1>4. IsFiniteSet(slot_in_use) /\ Cardinality(slot_in_use) <= Cardinality(S)
  BY <1>2, <1>3, FS_Surjection
<1> QED BY <1>2, <1>4, FS_CardinalityType

(* As long as fewer lookups than block_capacity + slack hold a table slot at once, claim_slot *)
(* finds one to claim: push waits on no reader, and at most block_capacity + 1 keys are live. *)
THEOREM PushFindsASlot ==
  ASSUME IsFiniteSet(Readers), Cardinality(Readers) < BlockCap + TableSlack
  PROVE  Spec => []PushNeverWaits
<1>1. ASSUME RecordInv, TableInv PROVE PushNeverWaits
  <2>1. Len(live_provenance) \in Nat
        /\ Len(live_provenance) <= IF wpc = "claim" THEN BlockCap ELSE BlockCap + 1
    BY <1>1, TableTypes DEF TableInv, LiveOrder
  <2>2. ASSUME wpc = "claim", TableSlots \subseteq slot_in_use \cup Held PROVE FALSE
    <3> DEFINE R == {q \in Readers : rpc[q] = "lookup"}
               f == [r \in R |-> ProvenanceSlot(r)]
    <3>1. IsFiniteSet(R) /\ Cardinality(R) <= Cardinality(Readers)
      BY FS_Subset
    <3>2. f \in Surjection(R, Held)
      BY DEF Surjection, Held
    <3>3. IsFiniteSet(Held) /\ Cardinality(Held) <= Cardinality(R)
      <4> HIDE DEF R, f
      <4> QED BY <3>1, <3>2, FS_Surjection
    <3>4. /\ IsFiniteSet(slot_in_use) /\ Cardinality(slot_in_use) \in Nat
          /\ Cardinality(slot_in_use) <= BlockCap
      BY <1>1, <2>1, <2>2, FewSlotsInUse DEF TableInv
    <3>5. /\ IsFiniteSet(slot_in_use \cup Held)
          /\ Cardinality(slot_in_use \cup Held) <= Cardinality(slot_in_use) + Cardinality(Held)
      <4>1. /\ IsFiniteSet(slot_in_use \cup Held)
            /\ Cardinality(slot_in_use \cup Held) =
                 Cardinality(slot_in_use) + Cardinality(Held) - Cardinality(slot_in_use \cap Held)
        BY <3>3, <3>4, FS_Union
      <4>2. Cardinality(slot_in_use \cap Held) \in Nat
        BY <3>4, FS_Intersection, FS_CardinalityType
      <4> QED BY <4>1, <4>2, <3>3, <3>4, FS_CardinalityType
    <3>6. Cardinality(TableSlots) = 2 * BlockCap + TableSlack
      <4>1. provenance_table_len \in Nat /\ 0 \in Int /\ provenance_table_len - 1 \in Int
        BY DEF provenance_table_len
      <4>2. Cardinality(TableSlots) = provenance_table_len
        BY <4>1, FS_Interval DEF TableSlots
      <4> QED BY <4>2 DEF provenance_table_len
    <3>7. Cardinality(TableSlots) <= Cardinality(slot_in_use \cup Held)
      BY <2>2, <3>5, FS_Subset
    <3>8. /\ Cardinality(R) \in Nat /\ Cardinality(Held) \in Nat /\ Cardinality(Readers) \in Nat
          /\ Cardinality(slot_in_use \cup Held) \in Nat
      BY <3>1, <3>3, <3>5, FS_CardinalityType
    <3> HIDE DEF R
    <3> QED BY <3>1, <3>3, <3>4, <3>5, <3>6, <3>7, <3>8
  <2>3. Len(live_provenance) <= BlockCap + 1
    BY <2>1
  <2> QED BY <2>2, <2>3 DEF PushNeverWaits
<1>2. RecordInv /\ HandleInv /\ TableInv => PushNeverWaits
  BY <1>1
<1> QED BY <1>2, RingRecords, RingTable, PTL
=============================================================================
