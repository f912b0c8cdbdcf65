------------------------------ MODULE RingLog ------------------------------
(***************************************************************************)
(* What the sample ring of hk-core/src/ring/mod.rs promises its readers:   *)
(* a growing log of immutable blocks of which a suffix is retained.  The   *)
(* writer takes four visible steps per push (announce the record, announce *)
(* the samples, commit the samples, commit the block), and the three       *)
(* lock-free lookups of Shared (read_meta, copy_out, provenance) are       *)
(* operators evaluated at one instant.  RingSeqlock shows that the         *)
(* load-by-load code implements this; RingReader and FlowGate build        *)
(* on it.                                                                  *)
(*                                                                         *)
(* Block b (0-based, as in the code) is log[b + 1].  A sample's content is *)
(* its stream index.                                                       *)
(***************************************************************************)
EXTENDS Integers, Sequences

CONSTANTS
  SampleCap,    \* RingConfig.sample_capacity: cells
  BlockCap,     \* RingConfig.block_capacity: metadata records
  MaxIndex,     \* u64::MAX: the largest value of the sample counter
  BlockLens,    \* lengths of the sample slices handed to push
  Provenances   \* distinct ProvenanceHandle values

ASSUME RingConfigAssumption ==
  /\ SampleCap \in Nat \ {0}
  /\ BlockCap \in Nat \ {0}
  /\ MaxIndex \in Nat
  /\ BlockLens \subseteq Nat

VARIABLES
  log,                \* every block announced so far, newest last
  phase,              \* how far the newest block's push has come
  sample_write_end,   \* end of the newest announced sample write
  sample_commit_end,  \* end of the newest committed sample write
  meta_head,          \* blocks committed
  closed              \* the writer has been dropped

ringVars == <<log, phase, sample_write_end, sample_commit_end, meta_head, closed>>

Block == [first_sample : Nat, len : Nat, gaps_total : Nat, provenance : Provenances]

EndOf(m) == m.first_sample + m.len

(* Shared::meta_write_end: one past the newest block whose record write is announced. *)
meta_write_end == Len(log)

SatSub(a, b) == IF a >= b THEN a - b ELSE 0

Bug_oldest_valid_sample == SatSub(sample_write_end, SampleCap - 1)

oldest_valid_sample == SatSub(sample_write_end, SampleCap)

oldest_valid_block == SatSub(meta_write_end, BlockCap)

(* What read_meta(b) finds: a committed block whose record is not being overwritten. *)
HasMeta(b) == b < meta_head /\ b >= oldest_valid_block

Meta(b) == log[b + 1]

stream_start == log[1].first_sample

(* RingWriter::push: the first test that fails, in the code's order. *)
PushError(first, n, stream_end) ==
  CASE n = 0                                      -> "EmptyBlock"
    [] n > SampleCap                              -> "BlockTooLarge"
    [] first + n > MaxIndex                       -> "IndexOverflow"
    [] stream_end # -1 /\ first < stream_end      -> "NonMonotonic"
    [] OTHER                                      -> "Ok"

StreamEnd == IF log = <<>> THEN -1 ELSE EndOf(log[Len(log)])

(* Source-gap indices up to and including the jump to first. *)
GapsBefore(first) ==
  IF log = <<>> THEN 0
  ELSE log[Len(log)].gaps_total + (first - EndOf(log[Len(log)]))

-----------------------------------------------------------------------------

RingInit ==
  /\ log = <<>>
  /\ phase = "idle"
  /\ sample_write_end = 0
  /\ sample_commit_end = 0
  /\ meta_head = 0
  /\ closed = FALSE

(* push, step 1: the record is announced (and then filled in). *)
AnnounceRecord(first, n, p) ==
  /\ phase = "idle" /\ ~closed
  /\ PushError(first, n, StreamEnd) = "Ok"
  /\ log' = Append(log, [first_sample |-> first, len |-> n,
                         gaps_total |-> GapsBefore(first), provenance |-> p])
  /\ phase' = "recording"
  /\ UNCHANGED <<sample_write_end, sample_commit_end, meta_head, closed>>

(* push, step 2: the samples are announced (and then stored). *)
AnnounceSamples ==
  /\ phase = "recording"
  /\ sample_write_end' = EndOf(log[Len(log)])
  /\ phase' = "storing"
  /\ UNCHANGED <<log, sample_commit_end, meta_head, closed>>

(* push, step 3: samples first, so a reader that sees the new head sees their end too. *)
CommitSamples ==
  /\ phase = "storing"
  /\ sample_commit_end' = EndOf(log[Len(log)])
  /\ phase' = "committing"
  /\ UNCHANGED <<log, sample_write_end, meta_head, closed>>

CommitHead ==
  /\ phase = "committing"
  /\ meta_head' = Len(log)
  /\ phase' = "idle"
  /\ UNCHANGED <<log, sample_write_end, sample_commit_end, closed>>

(* Drop for RingWriter; push holds &mut self, so never inside a push. *)
Close ==
  /\ phase = "idle" /\ ~closed
  /\ closed' = TRUE
  /\ UNCHANGED <<log, phase, sample_write_end, sample_commit_end, meta_head>>

WriterNext ==
  \/ \E first \in 0..MaxIndex, n \in BlockLens, p \in Provenances : AnnounceRecord(first, n, p)
  \/ AnnounceSamples
  \/ CommitSamples
  \/ CommitHead
  \/ Close

RingSpec == RingInit /\ [][WriterNext]_ringVars

=============================================================================
