------------------------- MODULE RingReaderProofs -------------------------
(***************************************************************************)
(* Proofs about a reader's cursor (RingReader), for every capacity, every  *)
(* stream the writer pushes, every buffer, limit and start, and every      *)
(* interleaving of the reader's loads with push: every index is accounted  *)
(* exactly once, Closed means drained, a chunk is the next one produced,   *)
(* and an overrun is only reported when what the reader needs is gone.     *)
(***************************************************************************)
EXTENDS RingReader, FiniteSetTheorems, TLAPS

-----------------------------------------------------------------------------
(* The log: its types, the order of its blocks, and the gap counts they carry *)

LogType ==
  /\ log \in Seq(Block)
  /\ phase \in {"idle", "recording", "storing", "committing"}
  /\ sample_write_end \in Nat /\ sample_commit_end \in Nat
  /\ meta_head \in Nat /\ closed \in BOOLEAN
  /\ Len(log) = IF phase = "idle" THEN meta_head ELSE meta_head + 1
  /\ closed => phase = "idle"

LogOrder ==
  /\ \A b \in 1..Len(log) : log[b].len > 0 /\ EndOf(log[b]) <= MaxIndex
  /\ \A a, b \in 1..Len(log) : a < b => EndOf(log[a]) <= log[b].first_sample

(* A record's cumulative count is the number of indices nothing was produced for. *)
LogGaps == \A b \in 1..Len(log) :
  log[b].gaps_total = Cardinality(GapIndices(stream_start, log[b].first_sample))

(* Samples are announced and committed in the order of the blocks. *)
LogCommits ==
  /\ sample_write_end <= IF log = <<>> THEN 0 ELSE EndOf(log[Len(log)])
  /\ \A b \in 1..meta_head : EndOf(log[b]) <= sample_commit_end
  /\ phase = "committing" => EndOf(log[Len(log)]) <= sample_commit_end

LogInv == LogType /\ LogOrder /\ LogGaps /\ LogCommits

-----------------------------------------------------------------------------
(* The reader *)

Locating == {"resolve_locate", "lap_locate", "resync_locate"}

Resolving == {"resolve_head", "resolve_locate", "resolve_previous"}

Stepping == {"step_head", "step_meta", "step_oldest", "step_copy", "step_provenance"}

Resyncing == {"lap_head", "lap_newest", "resync_oldest", "resync_locate"}

Lapping == {"lapped", "lap_locate"} \cup Resyncing

(* Not inside read. *)
Away == {"detached", "idle", "shed", "wait_head", "wait_closed", "parking", "parked"}

ReaderType ==
  /\ cursor \in [at : BOOLEAN, sample : Nat, block : Nat, gaps : Nat]
  /\ samples_read \in Nat /\ lost_samples \in Nat /\ gap_samples \in Nat /\ shed_samples \in Nat
  /\ start \in Nat /\ unknown_gaps \in Nat
  /\ rpc \in {"read"} \cup Away \cup Resolving \cup Stepping \cup Lapping
  /\ args \in [len : Nat, limit : Nat]
  /\ head_seen \in Nat /\ oldest_seen \in Nat
  /\ search \in [sample : Nat, lo : Nat, head : Nat]

(* Block k is the first one that ends after index p. *)
AtBlock(p, k) == \A b \in 1..Len(log) : EndOf(log[b]) <= p <=> b <= k

(* Where a resolved cursor c of a reader that started at st may stand. *)
Stands(c, st) ==
  /\ meta_head > 0 /\ c.block <= meta_head
  /\ AtBlock(c.sample, c.block)
  /\ st <= c.sample /\ stream_start <= c.sample /\ c.sample <= EndOf(log[meta_head])

NothingCounted ==
  /\ samples_read = 0 /\ lost_samples = 0 /\ gap_samples = 0 /\ shed_samples = 0
  /\ unknown_gaps = 0

CursorInv == IF cursor.at THEN Stands(cursor, start) ELSE NothingCounted /\ start = pos

ResolveInv ==
  /\ rpc \in {"detached"} \cup Resolving => ~cursor.at
  /\ rpc \in {"resolve_locate", "resolve_previous"} => meta_head > 0 /\ pos > stream_start
  /\ rpc = "resolve_previous" =>
       /\ head_seen \in 1..(meta_head - 1)
       /\ pos < Meta(head_seen).first_sample
       /\ oldest_valid_block <= head_seen - 1 => EndOf(Meta(head_seen - 1)) <= pos

StepInv ==
  /\ rpc \notin Away => args.len > 0
  /\ rpc \in Stepping => cursor.at /\ pos < args.limit
  /\ rpc \in Stepping \ {"step_head"} => cursor.block < meta_head
  /\ rpc \in {"step_copy", "step_provenance"} => From < args.limit

(* What a positioned reader needs next cannot be read any more. *)
NextIsGone == Overwritten \/ cursor.block < oldest_valid_block

LapInv ==
  /\ rpc \in Lapping => cursor.at /\ cursor.block < meta_head
  /\ rpc = "lap_locate" =>
       oldest_seen <= oldest_valid_sample /\ (search.head > 0 => cursor.block < search.head)
  /\ rpc \in Resyncing => NextIsGone
  /\ rpc \in {"lap_head", "lap_newest"} => policy = "Latest"
  /\ rpc \in {"lap_newest", "shed"} => cursor.at /\ head_seen \in 1..meta_head
  /\ rpc = "lap_newest" => cursor.block < head_seen

SearchInv ==
  /\ rpc \in {"resolve_locate", "lap_locate"} => search.sample = pos
  /\ rpc = "resync_locate" =>
       pos <= search.sample /\ (pos < search.sample => search.sample <= oldest_valid_sample)
  /\ search.head > 0 =>
       /\ rpc \in Locating
       /\ search.lo < search.head
       /\ search.head <= meta_head /\ search.lo <= oldest_valid_block

ClosedInv ==
  /\ closed_seen \in BOOLEAN /\ (closed_seen => closed)
  /\ closed_seen /\ search.head > 0 => search.head = meta_head
  /\ outcome = "Closed" => rpc = "idle" /\ closed /\ StreamEnd <= pos

StageInv == ResolveInv /\ StepInv /\ LapInv /\ SearchInv /\ ClosedInv

ReaderInv == LogInv /\ ReaderType /\ CursorInv /\ EveryIndexAccounted /\ StageInv

-----------------------------------------------------------------------------
(* Gap indices *)

(* There are finitely many gap indices in an interval, no more than it has indices. *)
LEMMA GapsFinite ==
  ASSUME NEW lo \in Nat, NEW hi \in Nat
  PROVE  /\ IsFiniteSet(GapIndices(lo, hi))
         /\ Cardinality(GapIndices(lo, hi)) \in Nat
         /\ lo <= hi => Cardinality(GapIndices(lo, hi)) <= hi - lo
<1>1. IsFiniteSet(lo..(hi - 1)) /\ (lo <= hi => Cardinality(lo..(hi - 1)) = hi - lo)
  <2>1. hi - 1 \in Int /\ lo \in Int
    OBVIOUS
  <2>2. /\ IsFiniteSet(lo..(hi - 1))
        /\ Cardinality(lo..(hi - 1)) = IF lo > hi - 1 THEN 0 ELSE (hi - 1) - lo + 1
    BY <2>1, FS_Interval
  <2> QED BY <2>2
<1>2. GapIndices(lo, hi) \in SUBSET (lo..(hi - 1))
  BY DEF GapIndices
<1>3. /\ IsFiniteSet(GapIndices(lo, hi))
      /\ Cardinality(GapIndices(lo, hi)) <= Cardinality(lo..(hi - 1))
  BY <1>1, <1>2, FS_Subset
<1>4. Cardinality(GapIndices(lo, hi)) \in Nat
  BY <1>3, FS_CardinalityType
<1> QED BY <1>1, <1>3, <1>4

(* The gap indices of two adjacent intervals add up. *)
LEMMA GapsSplit ==
  ASSUME NEW lo \in Nat, NEW mid \in Nat, NEW hi \in Nat, lo <= mid, mid <= hi
  PROVE  Cardinality(GapIndices(lo, hi))
           = Cardinality(GapIndices(lo, mid)) + Cardinality(GapIndices(mid, hi))
<1>1. GapIndices(lo, hi) = GapIndices(lo, mid) \cup GapIndices(mid, hi)
  BY DEF GapIndices
<1>2. GapIndices(lo, mid) \cap GapIndices(mid, hi) = {}
  BY DEF GapIndices
<1>3. IsFiniteSet(GapIndices(lo, mid)) /\ IsFiniteSet(GapIndices(mid, hi))
  BY GapsFinite
<1>4. Cardinality(GapIndices(lo, mid) \cup GapIndices(mid, hi))
        = Cardinality(GapIndices(lo, mid)) + Cardinality(GapIndices(mid, hi))
          - Cardinality(GapIndices(lo, mid) \cap GapIndices(mid, hi))
  BY <1>3, FS_Union
<1>5. /\ Cardinality(GapIndices(lo, mid) \cap GapIndices(mid, hi)) = 0
      /\ Cardinality(GapIndices(lo, mid)) \in Nat /\ Cardinality(GapIndices(mid, hi)) \in Nat
  BY <1>2, FS_EmptySet, GapsFinite
<1> QED BY <1>1, <1>4, <1>5

(* An interval in which everything was produced has no gap indices. *)
LEMMA GapsNone ==
  ASSUME NEW lo \in Nat, NEW hi \in Nat, \A i \in lo..(hi - 1) : Produced(i)
  PROVE  Cardinality(GapIndices(lo, hi)) = 0
<1>1. GapIndices(lo, hi) = {}
  BY DEF GapIndices
<1> QED BY <1>1, FS_EmptySet

(* An interval has as many gap indices as indices exactly if nothing in it was produced. *)
LEMMA GapsAll ==
  ASSUME NEW lo \in Nat, NEW hi \in Nat, lo <= hi
  PROVE  Cardinality(GapIndices(lo, hi)) = hi - lo <=> \A i \in lo..(hi - 1) : ~Produced(i)
<1>1. IsFiniteSet(lo..(hi - 1)) /\ Cardinality(lo..(hi - 1)) = hi - lo
  <2>1. hi - 1 \in Int /\ lo \in Int
    OBVIOUS
  <2>2. /\ IsFiniteSet(lo..(hi - 1))
        /\ Cardinality(lo..(hi - 1)) = IF lo > hi - 1 THEN 0 ELSE (hi - 1) - lo + 1
    BY <2>1, FS_Interval
  <2> QED BY <2>2
<1>2. GapIndices(lo, hi) \in SUBSET (lo..(hi - 1))
  BY DEF GapIndices
<1>3. Cardinality(GapIndices(lo, hi)) = hi - lo <=> GapIndices(lo, hi) = lo..(hi - 1)
  BY <1>1, <1>2, FS_Subset
<1>4. GapIndices(lo, hi) = lo..(hi - 1) <=> \A i \in lo..(hi - 1) : ~Produced(i)
  BY DEF GapIndices
<1> QED BY <1>3, <1>4

-----------------------------------------------------------------------------
(* The log *)

(* The types these proofs keep needing. *)
LEMMA LogTypes ==
  ASSUME LogInv
  PROVE  /\ Len(log) \in Nat /\ meta_head \in Nat
         /\ meta_head <= Len(log) /\ Len(log) <= meta_head + 1
         /\ sample_write_end \in Nat /\ sample_commit_end \in Nat
         /\ oldest_valid_sample \in Nat /\ oldest_valid_block \in Nat
         /\ \A b \in 1..Len(log) :
              /\ log[b] \in Block
              /\ log[b].first_sample \in Nat /\ log[b].len \in Nat /\ log[b].gaps_total \in Nat
              /\ EndOf(log[b]) \in Nat /\ log[b].first_sample < EndOf(log[b])
<1>1. /\ log \in Seq(Block) /\ meta_head \in Nat
      /\ sample_write_end \in Nat /\ sample_commit_end \in Nat
      /\ Len(log) = IF phase = "idle" THEN meta_head ELSE meta_head + 1
  BY DEF LogInv, LogType
<1>2. Len(log) \in Nat /\ \A b \in 1..Len(log) : log[b] \in Block
  BY <1>1
<1>3. oldest_valid_sample \in Nat /\ oldest_valid_block \in Nat
  BY <1>1, <1>2, RingConfigAssumption
     DEF oldest_valid_sample, oldest_valid_block, meta_write_end, SatSub
<1>4. ASSUME NEW b \in 1..Len(log)
      PROVE  /\ log[b].first_sample \in Nat /\ log[b].len \in Nat /\ log[b].gaps_total \in Nat
             /\ EndOf(log[b]) \in Nat /\ log[b].first_sample < EndOf(log[b])
  <2>1. /\ log[b].first_sample \in Nat /\ log[b].len \in Nat /\ log[b].gaps_total \in Nat
    BY <1>2 DEF Block
  <2>2. log[b].len > 0
    BY DEF LogInv, LogOrder
  <2> QED BY <2>1, <2>2 DEF EndOf
<1> QED BY <1>1, <1>2, <1>3, <1>4

(* Blocks follow one another. *)
LEMMA BlocksInOrder ==
  ASSUME LogInv, NEW a \in 1..Len(log), NEW b \in 1..Len(log), a <= b
  PROVE  /\ log[a].first_sample <= log[b].first_sample /\ EndOf(log[a]) <= EndOf(log[b])
         /\ a < b => EndOf(log[a]) <= log[b].first_sample
<1>1. /\ log[a].first_sample < EndOf(log[a]) /\ log[b].first_sample < EndOf(log[b])
      /\ log[a].first_sample \in Nat /\ log[b].first_sample \in Nat
      /\ EndOf(log[a]) \in Nat /\ EndOf(log[b]) \in Nat
  BY LogTypes
<1>2. a < b => EndOf(log[a]) <= log[b].first_sample
  BY DEF LogInv, LogOrder
<1>3. CASE a = b
  BY <1>1, <1>3
<1>4. CASE a < b
  BY <1>1, <1>2, <1>4
<1>5. a = b \/ a < b
  BY LogTypes
<1> QED BY <1>2, <1>3, <1>4, <1>5

(* Inside a block the gap count is the block's own. *)
LEMMA GapsAt ==
  ASSUME LogInv, NEW b \in 1..Len(log), NEW p \in Nat,
         log[b].first_sample <= p, p <= EndOf(log[b])
  PROVE  /\ stream_start \in Nat /\ stream_start <= p
         /\ Cardinality(GapIndices(stream_start, p)) = log[b].gaps_total
<1> DEFINE f == log[b].first_sample
<1>1. f \in Nat /\ 1 \in 1..Len(log) /\ b \in Nat /\ 1 <= b
  BY LogTypes
<1>2. stream_start \in Nat /\ stream_start <= f
  BY <1>1, BlocksInOrder, LogTypes DEF stream_start
<1>3. Cardinality(GapIndices(stream_start, p))
        = Cardinality(GapIndices(stream_start, f)) + Cardinality(GapIndices(f, p))
  BY <1>1, <1>2, GapsSplit
<1>4. Cardinality(GapIndices(f, p)) = 0
  <2>1. ASSUME NEW i \in f..(p - 1) PROVE Produced(i)
    <3>1. i >= log[b].first_sample /\ i < EndOf(log[b])
      BY <1>1, LogTypes
    <3>2. b \in DOMAIN log
      BY DEF LogInv, LogType
    <3> QED BY <3>1, <3>2 DEF Produced
  <2> QED BY <1>1, <2>1, GapsNone
<1>5. Cardinality(GapIndices(stream_start, f)) = log[b].gaps_total
  BY DEF LogInv, LogGaps
<1>6. log[b].gaps_total \in Nat
  BY LogTypes
<1> QED BY <1>1, <1>2, <1>3, <1>4, <1>5, <1>6

(* A block that ends at or before p, and one after it that ends later, say where p lies. *)
LEMMA AtBlockIs ==
  ASSUME LogInv, NEW p \in Nat, NEW k \in 0..Len(log),
         k = 0 \/ EndOf(log[k]) <= p,
         k = Len(log) \/ p < EndOf(log[k + 1])
  PROVE  AtBlock(p, k)
<1> SUFFICES ASSUME NEW b \in 1..Len(log) PROVE EndOf(log[b]) <= p <=> b <= k
  BY DEF AtBlock
<1>1. EndOf(log[b]) \in Nat /\ Len(log) \in Nat
  BY LogTypes
<1>2. CASE b <= k
  <2>1. k \in 1..Len(log) /\ k # 0
    BY <1>1, <1>2
  <2>2. EndOf(log[b]) <= EndOf(log[k]) /\ EndOf(log[k]) \in Nat
    BY <1>2, <2>1, BlocksInOrder, LogTypes
  <2> QED BY <1>1, <1>2, <2>1, <2>2
<1>3. CASE ~(b <= k)
  <2>1. k + 1 \in 1..Len(log) /\ k # Len(log) /\ k + 1 <= b
    BY <1>1, <1>3
  <2>2. EndOf(log[k + 1]) <= EndOf(log[b]) /\ EndOf(log[k + 1]) \in Nat
    BY <2>1, BlocksInOrder, LogTypes
  <2> QED BY <1>1, <1>3, <2>1, <2>2
<1> QED BY <1>2, <1>3

(* From a position to the first sample of its block nothing was produced. *)
LEMMA NothingBeforeBlock ==
  ASSUME LogInv, NEW p \in Nat, NEW k \in 0..Len(log), AtBlock(p, k), k < Len(log),
         NEW i \in Nat, p <= i, i < log[k + 1].first_sample
  PROVE  ~Produced(i)
<1> SUFFICES ASSUME NEW b \in 1..Len(log), i >= log[b].first_sample, i < EndOf(log[b])
             PROVE  FALSE
  BY LogTypes DEF Produced, LogInv, LogType
<1>1. Len(log) \in Nat /\ EndOf(log[b]) \in Nat /\ log[b].first_sample \in Nat
  BY LogTypes
<1>2. k + 1 \in 1..Len(log) /\ log[k + 1].first_sample \in Nat
  BY <1>1, LogTypes
<1>3. CASE b <= k
  BY <1>1, <1>3 DEF AtBlock
<1>4. CASE k + 1 <= b
  BY <1>1, <1>2, <1>4, BlocksInOrder
<1> QED BY <1>1, <1>3, <1>4

(* A positioned reader's next block. *)
LEMMA NextBlock ==
  ASSUME LogInv, NEW p \in Nat, NEW k \in Nat, AtBlock(p, k), k < Len(log)
  PROVE  /\ k + 1 \in 1..Len(log) /\ p < EndOf(log[k + 1])
         /\ \A q \in Nat : p <= q /\ q <= log[k + 1].first_sample =>
              /\ Cardinality(GapIndices(p, q)) = q - p
              /\ AtBlock(q, k)
<1>1. k + 1 \in 1..Len(log) /\ k \in 0..Len(log)
  BY LogTypes
<1>2. p < EndOf(log[k + 1])
  BY <1>1, LogTypes DEF AtBlock
<1>3. ASSUME NEW q \in Nat, p <= q, q <= log[k + 1].first_sample
      PROVE  Cardinality(GapIndices(p, q)) = q - p /\ AtBlock(q, k)
  <2>1. ASSUME NEW i \in p..(q - 1) PROVE ~Produced(i)
    <3>1. i \in Nat /\ p <= i /\ i < log[k + 1].first_sample
      BY <1>1, <1>3, LogTypes
    <3> QED BY <1>1, <3>1, NothingBeforeBlock
  <2>2. Cardinality(GapIndices(p, q)) = q - p
    BY <1>3, <2>1, GapsAll
  <2>3. k = 0 \/ EndOf(log[k]) <= q
    <3>1. k # 0 => k \in 1..Len(log)
      BY <1>1
    <3> QED BY <1>3, <3>1, LogTypes DEF AtBlock
  <2>4. q < EndOf(log[k + 1])
    BY <1>1, <1>3, LogTypes
  <2>5. AtBlock(q, k)
    BY <1>1, <2>3, <2>4, AtBlockIs
  <2> QED BY <2>2, <2>5
<1> QED BY <1>1, <1>2, <1>3

(* A position inside block k, or at its end. *)
LEMMA InBlock ==
  ASSUME LogInv, NEW k \in Nat, k < Len(log), NEW p \in Nat,
         log[k + 1].first_sample <= p, p <= EndOf(log[k + 1])
  PROVE  /\ p < EndOf(log[k + 1]) => AtBlock(p, k)
         /\ p = EndOf(log[k + 1]) => AtBlock(p, k + 1)
<1>1. k + 1 \in 1..Len(log) /\ k \in 0..Len(log) /\ Len(log) \in Nat
  BY LogTypes
<1>2. k = 0 \/ EndOf(log[k]) <= p
  <2>1. k # 0 => k \in 1..Len(log) /\ k < k + 1
    BY <1>1
  <2>2. k # 0 => EndOf(log[k]) <= log[k + 1].first_sample
    BY <1>1, <2>1, BlocksInOrder
  <2>3. k # 0 => EndOf(log[k]) \in Nat /\ log[k + 1].first_sample \in Nat
    BY <1>1, <2>1, LogTypes
  <2> QED BY <2>2, <2>3
<1>3. p < EndOf(log[k + 1]) => AtBlock(p, k)
  BY <1>1, <1>2, AtBlockIs
<1>4. ASSUME p = EndOf(log[k + 1]) PROVE AtBlock(p, k + 1)
  <2>1. k + 1 # Len(log) =>
          /\ k + 2 \in 1..Len(log) /\ k + 1 < k + 2 /\ (k + 1) + 1 = k + 2
    BY <1>1
  <2>2. k + 1 # Len(log) => EndOf(log[k + 1]) <= log[k + 2].first_sample
    BY <1>1, <2>1, BlocksInOrder
  <2>3. k + 1 # Len(log) => p < EndOf(log[(k + 1) + 1])
    BY <1>1, <1>4, <2>1, <2>2, LogTypes
  <2>4. k + 1 \in 0..Len(log) /\ EndOf(log[k + 1]) <= p
    BY <1>1, <1>4
  <2> QED BY <2>3, <2>4, AtBlockIs
<1> QED BY <1>3, <1>4

-----------------------------------------------------------------------------
(* The books of a reader *)

(* What EveryIndexAccounted says of a cursor c and its counters. *)
Books(c, st, read, lost, gap, shed, unknown) ==
  /\ read + lost + gap + shed = c.sample - st
  /\ gap + unknown = Cardinality(GapIndices(st, c.sample))
  /\ c.gaps = Cardinality(GapIndices(stream_start, c.sample))

(* The books go on when a positioned reader moves to q over g gap indices. *)
LEMMA BooksJump ==
  ASSUME LogInv, ReaderType, CursorInv, EveryIndexAccounted, cursor.at,
         NEW q \in Nat, pos <= q
  PROVE  LET g == Cardinality(GapIndices(pos, q))
         IN  /\ g \in Nat /\ g <= q - pos
             /\ start <= q /\ stream_start <= q /\ stream_start \in Nat
             /\ samples_read + lost_samples + gap_samples + shed_samples = pos - start
             /\ gap_samples + g + unknown_gaps = Cardinality(GapIndices(start, q))
             /\ cursor.gaps + g = Cardinality(GapIndices(stream_start, q))
<1>1. /\ pos \in Nat /\ start \in Nat /\ gap_samples \in Nat /\ unknown_gaps \in Nat
      /\ cursor.gaps \in Nat
  BY DEF ReaderType, pos
<1>2. start <= pos /\ stream_start <= pos /\ meta_head > 0
  BY DEF CursorInv, Stands, pos
<1>3. stream_start \in Nat
  <2>1. 1 \in 1..Len(log)
    BY <1>2, LogTypes
  <2> QED BY <2>1, LogTypes DEF stream_start
<1>4. /\ Cardinality(GapIndices(start, q))
           = Cardinality(GapIndices(start, pos)) + Cardinality(GapIndices(pos, q))
      /\ Cardinality(GapIndices(stream_start, q))
           = Cardinality(GapIndices(stream_start, pos)) + Cardinality(GapIndices(pos, q))
  BY <1>1, <1>2, <1>3, GapsSplit
<1>5. /\ Cardinality(GapIndices(pos, q)) \in Nat
      /\ Cardinality(GapIndices(pos, q)) <= q - pos
  BY <1>1, GapsFinite
<1>6. /\ samples_read + lost_samples + gap_samples + shed_samples = pos - start
      /\ gap_samples + unknown_gaps = Cardinality(GapIndices(start, pos))
      /\ cursor.gaps = Cardinality(GapIndices(stream_start, pos))
  BY DEF EveryIndexAccounted
<1>7. gap_samples + Cardinality(GapIndices(pos, q)) + unknown_gaps
        = (gap_samples + unknown_gaps) + Cardinality(GapIndices(pos, q))
  BY <1>1, <1>5
<1> HIDE DEF pos
<1> QED BY <1>1, <1>2, <1>3, <1>4, <1>5, <1>6, <1>7

(* A jump into block b skips as many gap indices as the code computes from the two counts. *)
LEMMA SkippedGapIs ==
  ASSUME LogInv, ReaderType, CursorInv, EveryIndexAccounted, cursor.at,
         NEW b \in Nat, b < Len(log), NEW q \in Nat, pos < q,
         Meta(b).first_sample <= q, q <= EndOf(Meta(b))
  PROVE  /\ SkippedGap(b, q) = Cardinality(GapIndices(pos, q))
         /\ Meta(b).gaps_total = cursor.gaps + Cardinality(GapIndices(pos, q))
<1>1. b + 1 \in 1..Len(log)
  BY LogTypes
<1>2. Cardinality(GapIndices(stream_start, q)) = Meta(b).gaps_total
  BY <1>1, GapsAt DEF Meta
<1>3. pos \in Nat /\ cursor.gaps \in Nat /\ Meta(b).gaps_total \in Nat
  BY <1>1, LogTypes DEF ReaderType, pos, Meta
<1>4. /\ Cardinality(GapIndices(pos, q)) \in Nat
      /\ Cardinality(GapIndices(pos, q)) <= q - pos
      /\ cursor.gaps + Cardinality(GapIndices(pos, q)) = Cardinality(GapIndices(stream_start, q))
  <2>1. pos <= q
    BY <1>3
  <2> QED BY <2>1, BooksJump
<1> QED BY <1>2, <1>3, <1>4 DEF SkippedGap, SatSub, MinOf

-----------------------------------------------------------------------------
(* Steps that leave the log alone *)

LEMMA SameLog ==
  ASSUME LogInv, UNCHANGED ringVars
  PROVE  LogInv'
<1>1. /\ log' = log /\ phase' = phase /\ sample_write_end' = sample_write_end
      /\ sample_commit_end' = sample_commit_end /\ meta_head' = meta_head /\ closed' = closed
  BY DEF ringVars
<1>2. LogType' /\ LogOrder' /\ LogCommits'
  BY <1>1 DEF LogInv, LogType, LogOrder, LogCommits, EndOf
<1>3. LogGaps'
  <2>1. stream_start' = stream_start
    BY <1>1 DEF stream_start
  <2>2. \A lo, hi : GapIndices(lo, hi)' = GapIndices(lo, hi)
    BY <1>1 DEF GapIndices, Produced, EndOf
  <2> QED BY <1>1, <2>1, <2>2 DEF LogInv, LogGaps
<1> QED BY <1>2, <1>3 DEF LogInv

(* The cursor and the books after such a step, in terms of the log before it. *)
LEMMA MovedOnSameLog ==
  ASSUME UNCHANGED ringVars,
         cursor'.at =>
           /\ Stands(cursor', start')
           /\ Books(cursor', start', samples_read', lost_samples', gap_samples', shed_samples',
                    unknown_gaps'),
         ~cursor'.at => NothingCounted' /\ start' = cursor'.sample
  PROVE  CursorInv' /\ EveryIndexAccounted'
<1>1. log' = log /\ meta_head' = meta_head
  BY DEF ringVars
<1>2. CursorInv'
  BY <1>1 DEF CursorInv, Stands, AtBlock, NothingCounted, stream_start, pos, EndOf
<1>3. EveryIndexAccounted'
  BY <1>1 DEF EveryIndexAccounted, Books, GapIndices, Produced, EndOf, stream_start, pos
<1> QED BY <1>2, <1>3

(* What a reader reads of the log is the same after such a step. *)
LEMMA SameReads ==
  ASSUME UNCHANGED ringVars
  PROVE  /\ log' = log /\ meta_head' = meta_head /\ closed' = closed
         /\ oldest_valid_sample' = oldest_valid_sample
         /\ oldest_valid_block' = oldest_valid_block
         /\ stream_start' = stream_start /\ StreamEnd' = StreamEnd
         /\ cursor' = cursor =>
              pos' = pos /\ From' = From /\ Overwritten' = Overwritten /\ NextIsGone' = NextIsGone
<1>1. log' = log /\ meta_head' = meta_head /\ closed' = closed
      /\ sample_write_end' = sample_write_end
  BY DEF ringVars
<1>2. /\ oldest_valid_sample' = oldest_valid_sample
      /\ oldest_valid_block' = oldest_valid_block
      /\ stream_start' = stream_start /\ StreamEnd' = StreamEnd
  BY <1>1 DEF oldest_valid_sample, oldest_valid_block, meta_write_end, SatSub, stream_start,
              StreamEnd, EndOf
<1>3. ASSUME cursor' = cursor
      PROVE  pos' = pos /\ From' = From /\ Overwritten' = Overwritten /\ NextIsGone' = NextIsGone
  BY <1>1, <1>2, <1>3 DEF pos, From, Meta, MaxOf, Overwritten, NextIsGone
<1> QED BY <1>1, <1>2, <1>3

LEMMA Stayed ==
  ASSUME CursorInv, EveryIndexAccounted,
         UNCHANGED <<ringVars, cursor, counters, start, unknown_gaps>>
  PROVE  CursorInv' /\ EveryIndexAccounted'
<1>1. UNCHANGED <<ringVars, cursor, start, unknown_gaps>> /\ UNCHANGED counters
  OBVIOUS
<1>2. samples_read' = samples_read /\ lost_samples' = lost_samples
      /\ gap_samples' = gap_samples /\ shed_samples' = shed_samples
  BY <1>1 DEF counters
<1>3. cursor.at => Stands(cursor, start)
  BY DEF CursorInv
<1>4. cursor.at => Books(cursor, start, samples_read, lost_samples, gap_samples, shed_samples,
                         unknown_gaps)
  BY DEF EveryIndexAccounted, Books, pos
<1>5. ~cursor.at => NothingCounted' /\ start' = cursor'.sample
  BY <1>1, <1>2 DEF CursorInv, NothingCounted, pos
<1> QED BY <1>1, <1>2, <1>3, <1>4, <1>5, MovedOnSameLog

(* A chunk about to be copied: it lies in its block, before the limit, and is committed. *)
LEMMA ChunkFits ==
  ASSUME LogInv, ReaderType, CursorInv, StepInv, rpc \in {"step_copy", "step_provenance"}
  PROVE  LET m == Meta(cursor.block)
         IN  /\ m.first_sample \in Nat /\ EndOf(m) \in Nat /\ m.gaps_total \in Nat
             /\ pos \in Nat /\ From \in Nat /\ pos <= From
             /\ From = IF pos >= m.first_sample THEN pos ELSE m.first_sample
             /\ From < EndOf(m)
             /\ Fits \in Nat /\ Fits > 0 /\ From + Fits <= EndOf(m)
             /\ EndOf(m) <= sample_commit_end
<1> DEFINE m == Meta(cursor.block)
<1>1. /\ cursor.at /\ cursor.block < meta_head /\ From < args.limit /\ args.len > 0
  BY DEF StepInv, Stepping, Away
<1>2. /\ cursor.block \in Nat /\ pos \in Nat /\ args.len \in Nat /\ args.limit \in Nat
  BY DEF ReaderType, pos
<1>3. cursor.block < Len(log) /\ AtBlock(pos, cursor.block)
  BY <1>1, <1>2, LogTypes DEF CursorInv, Stands, pos
<1>4. cursor.block + 1 \in 1..Len(log) /\ pos < EndOf(m)
  BY <1>2, <1>3, NextBlock DEF Meta
<1>5. /\ m.first_sample \in Nat /\ EndOf(m) \in Nat /\ m.gaps_total \in Nat
      /\ m.first_sample < EndOf(m)
  BY <1>4, LogTypes DEF Meta
<1>6. EndOf(m) <= sample_commit_end
  <2>1. cursor.block + 1 \in 1..meta_head
    BY <1>1, <1>2, LogTypes
  <2> QED BY <2>1 DEF LogInv, LogCommits, Meta
<1>7. From = IF pos >= m.first_sample THEN pos ELSE m.first_sample
  BY DEF From, MaxOf
<1>8. From \in Nat /\ pos <= From /\ From < EndOf(m)
  BY <1>2, <1>4, <1>5, <1>7
<1>9. Fits \in Nat /\ Fits > 0 /\ From + Fits <= EndOf(m)
  <2> HIDE DEF m
  <2>1. Fits = MinOf(args.len, MinOf(EndOf(m), args.limit) - From)
    BY DEF Fits, m
  <2> QED BY <1>1, <1>2, <1>5, <1>8, <2>1 DEF MinOf
<1> QED BY <1>2, <1>5, <1>6, <1>7, <1>8, <1>9

(* The loads: steps that move neither the cursor nor a counter. *)
Load ==
  \/ ResolveClosed \/ StepAtLimit \/ StepClosed \/ StepHead \/ StepCopy \/ StepNoHandle
  \/ LapOldest \/ LapHead \/ ResyncOldest \/ LocateSnapshot \/ LocateRetry
  \/ (\E n \in OutLens, limit \in Limits : BeginRead(n, limit)) \/ ShedHead

LEMMA LoadFrame ==
  ASSUME Load
  PROVE  UNCHANGED <<ringVars, cursor, counters, policy, start, unknown_gaps>>
  BY DEF Load, ResolveClosed, StepAtLimit, StepClosed, StepHead, StepCopy, StepNoHandle,
         LapOldest, LapHead, ResyncOldest, LocateSnapshot, LocateRetry, BeginRead, ShedHead,
         KeepCounters, NoGhosts, writerVars

LEMMA LoadType ==
  ASSUME ReaderInv, Load
  PROVE  ReaderType'
<1>1. UNCHANGED <<cursor, start, unknown_gaps>> /\ UNCHANGED counters
  BY LoadFrame
<1>2. UNCHANGED <<samples_read, lost_samples, gap_samples, shed_samples>>
  BY <1>1 DEF counters
<1>3. ReaderType /\ meta_head \in Nat /\ oldest_valid_block \in Nat /\ oldest_valid_sample \in Nat
      /\ pos \in Nat
  BY LogTypes DEF ReaderInv, ReaderType, pos
<1> SUFFICES /\ rpc' \in {"read"} \cup Away \cup Resolving \cup Stepping \cup Lapping
             /\ args' \in [len : Nat, limit : Nat]
             /\ head_seen' \in Nat /\ oldest_seen' \in Nat
             /\ search' \in [sample : Nat, lo : Nat, head : Nat]
  BY <1>1, <1>2, <1>3 DEF ReaderType
<1> USE DEF ReaderType
<1>4. CASE ResolveClosed
  BY <1>3, <1>4 DEF ResolveClosed, GoTo, Resolving
<1>5. CASE StepAtLimit
  BY <1>3, <1>5 DEF StepAtLimit, Nothing, Return, NoArgs, NoSearch, Away
<1>6. CASE StepClosed
  BY <1>3, <1>6 DEF StepClosed, GoTo, Stepping
<1>7. CASE StepHead
  BY <1>3, <1>7 DEF StepHead, Nothing, Return, NoArgs, NoSearch, Away, GoTo, Stepping
<1>8. CASE StepCopy
  <2>1. /\ rpc = "step_copy"
        /\ LogInv /\ CursorInv /\ StepInv /\ sample_commit_end \in Nat
    BY <1>8, LogTypes DEF StepCopy, ReaderInv, StageInv
  <2>2. ~(From + Fits > sample_commit_end)
    BY <1>3, <2>1, ChunkFits
  <2>3. rpc' \in {"step_provenance", "lapped"}
    BY <1>8, <2>2 DEF StepCopy, GoTo
  <2>4. UNCHANGED <<args, head_seen, oldest_seen, search>>
    BY <1>8 DEF StepCopy, frame
  <2> QED BY <1>3, <2>3, <2>4 DEF Stepping, Lapping
<1>9. CASE StepNoHandle
  BY <1>3, <1>9 DEF StepNoHandle, GoTo, frame, Lapping
<1>10. CASE LapOldest
  BY <1>3, <1>10 DEF LapOldest, BeginLocate, GoTo, Lapping
<1>11. CASE LapHead
  BY <1>3, <1>11 DEF LapHead, GoTo, Lapping, Resyncing
<1>12. CASE ResyncOldest
  BY <1>3, <1>12 DEF ResyncOldest, BeginLocate, GoTo, Lapping, Resyncing, MaxOf
<1>13. CASE LocateSnapshot
  BY <1>3, <1>13 DEF LocateSnapshot
<1>14. CASE LocateRetry
  BY <1>3, <1>14 DEF LocateRetry
<1>15. CASE \E n \in OutLens, limit \in Limits : BeginRead(n, limit)
  BY <1>3, <1>15, ReaderAssumption DEF BeginRead
<1>16. CASE ShedHead
  BY <1>3, <1>16 DEF ShedHead, Away
<1> QED BY <1>4, <1>5, <1>6, <1>7, <1>8, <1>9, <1>10, <1>11, <1>12, <1>13, <1>14, <1>15, <1>16
        DEF Load

(* A positioned reader past every committed block of a stream that ended has it all. *)
LEMMA DrainedAtHead ==
  ASSUME LogInv, ReaderType, CursorInv, cursor.at, meta_head <= cursor.block, closed
  PROVE  StreamEnd <= pos
<1>1. /\ meta_head > 0 /\ cursor.block <= meta_head /\ AtBlock(pos, cursor.block)
      /\ cursor.block \in Nat
  BY DEF CursorInv, Stands, pos, ReaderType
<1>2. Len(log) = meta_head
  BY DEF LogInv, LogType
<1>3. /\ Len(log) \in 1..Len(log) /\ cursor.block = Len(log)
  BY <1>1, <1>2, LogTypes
<1>4. EndOf(log[Len(log)]) <= pos
  BY <1>1, <1>3 DEF AtBlock
<1>5. log # <<>>
  BY <1>1, <1>2
<1> QED BY <1>4, <1>5 DEF StreamEnd

LEMMA LoadStages ==
  ASSUME ReaderInv, Load
  PROVE  StageInv'
<1>1. /\ UNCHANGED ringVars
      /\ cursor' = cursor /\ policy' = policy
  BY LoadFrame
<1>2. /\ log' = log /\ meta_head' = meta_head /\ closed' = closed
      /\ oldest_valid_sample' = oldest_valid_sample
      /\ oldest_valid_block' = oldest_valid_block
      /\ stream_start' = stream_start /\ StreamEnd' = StreamEnd
      /\ pos' = pos /\ From' = From /\ NextIsGone' = NextIsGone
  BY <1>1, SameReads
<1>3. /\ meta_head \in Nat /\ oldest_valid_block \in Nat /\ oldest_valid_sample \in Nat
      /\ pos \in Nat /\ cursor.block \in Nat /\ closed \in BOOLEAN
  BY LogTypes DEF ReaderInv, ReaderType, pos, LogInv, LogType
<1>4. /\ LogInv /\ ReaderType /\ CursorInv
      /\ ResolveInv /\ StepInv /\ LapInv /\ SearchInv /\ ClosedInv
  BY DEF ReaderInv, StageInv
<1> USE <1>1, <1>2, <1>3, <1>4 DEF Resolving, Stepping, Away, Lapping, Resyncing, Locating
<1>5. CASE ResolveClosed
  <2> USE <1>5 DEF ResolveClosed, GoTo
  <2>1. ResolveInv' BY DEF ResolveInv
  <2>2. StepInv' BY DEF StepInv
  <2>3. LapInv' BY DEF LapInv
  <2>4. SearchInv' BY DEF SearchInv
  <2>5. ClosedInv' BY DEF ClosedInv, SearchInv, ReaderType
  <2> QED BY <2>1, <2>2, <2>3, <2>4, <2>5 DEF StageInv
<1>6. CASE StepAtLimit
  <2> USE <1>6 DEF StepAtLimit, Nothing, Return, NoArgs, NoSearch
  <2>1. ResolveInv' BY DEF ResolveInv
  <2>2. StepInv' BY DEF StepInv
  <2>3. LapInv' BY DEF LapInv
  <2>4. SearchInv' BY DEF SearchInv
  <2>5. ClosedInv' BY DEF ClosedInv
  <2> QED BY <2>1, <2>2, <2>3, <2>4, <2>5 DEF StageInv
<1>7. CASE StepClosed
  <2> USE <1>7 DEF StepClosed, GoTo
  <2>1. ResolveInv' BY DEF ResolveInv
  <2>2. StepInv' BY DEF StepInv
  <2>3. LapInv' BY DEF LapInv
  <2>4. SearchInv' BY DEF SearchInv
  <2>5. ClosedInv' BY DEF ClosedInv, SearchInv, ReaderType
  <2> QED BY <2>1, <2>2, <2>3, <2>4, <2>5 DEF StageInv
<1>8. CASE StepHead
  <2> USE <1>8 DEF StepHead, Nothing, Return, NoArgs, NoSearch, GoTo
  <2>1. ResolveInv' BY DEF ResolveInv
  <2>2. StepInv' BY DEF StepInv
  <2>3. LapInv' BY DEF LapInv
  <2>4. SearchInv' BY DEF SearchInv
  <2>5. ClosedInv' BY DrainedAtHead DEF ClosedInv, SearchInv, StepInv, ReaderType
  <2> QED BY <2>1, <2>2, <2>3, <2>4, <2>5 DEF StageInv
<1>9. CASE StepCopy
  <2> USE <1>9 DEF StepCopy, GoTo, frame
  <2>1. ResolveInv' BY DEF ResolveInv
  <2>2. StepInv' BY DEF StepInv
  <2>3. LapInv' BY DEF LapInv, StepInv
  <2>4. SearchInv' BY DEF SearchInv
  <2>5. ClosedInv' BY DEF ClosedInv
  <2> QED BY <2>1, <2>2, <2>3, <2>4, <2>5 DEF StageInv
<1>10. CASE StepNoHandle
  <2> USE <1>10 DEF StepNoHandle, GoTo, frame
  <2>1. ResolveInv' BY DEF ResolveInv
  <2>2. StepInv' BY DEF StepInv
  <2>3. LapInv' BY DEF LapInv, StepInv
  <2>4. SearchInv' BY DEF SearchInv
  <2>5. ClosedInv' BY DEF ClosedInv
  <2> QED BY <2>1, <2>2, <2>3, <2>4, <2>5 DEF StageInv
<1>11. CASE LapOldest
  <2> USE <1>11 DEF LapOldest, BeginLocate, GoTo
  <2>1. ResolveInv' BY DEF ResolveInv
  <2>2. StepInv' BY DEF StepInv
  <2>3. LapInv' BY DEF LapInv
  <2>4. SearchInv' BY DEF SearchInv
  <2>5. ClosedInv' BY DEF ClosedInv
  <2> QED BY <2>1, <2>2, <2>3, <2>4, <2>5 DEF StageInv
<1>12. CASE LapHead
  <2> USE <1>12 DEF LapHead, GoTo
  <2>1. ResolveInv' BY DEF ResolveInv
  <2>2. StepInv' BY DEF StepInv
  <2>3. LapInv' BY DEF LapInv
  <2>4. SearchInv' BY DEF SearchInv
  <2>5. ClosedInv' BY DEF ClosedInv
  <2> QED BY <2>1, <2>2, <2>3, <2>4, <2>5 DEF StageInv
<1>13. CASE ResyncOldest
  <2> USE <1>13 DEF ResyncOldest, BeginLocate, GoTo, MaxOf
  <2>1. ResolveInv' BY DEF ResolveInv
  <2>2. StepInv' BY DEF StepInv
  <2>3. LapInv' BY DEF LapInv
  <2>4. SearchInv' BY DEF SearchInv
  <2>5. ClosedInv' BY DEF ClosedInv
  <2> QED BY <2>1, <2>2, <2>3, <2>4, <2>5 DEF StageInv
<1>14. CASE LocateSnapshot
  <2> USE <1>14 DEF LocateSnapshot
  <2>1. ResolveInv' BY DEF ResolveInv
  <2>2. StepInv' BY DEF StepInv
  <2>3. LapInv' BY DEF LapInv
  <2>4. SearchInv' BY DEF SearchInv
  <2>5. ClosedInv' BY DEF ClosedInv
  <2> QED BY <2>1, <2>2, <2>3, <2>4, <2>5 DEF StageInv
<1>15. CASE LocateRetry
  <2> USE <1>15 DEF LocateRetry
  <2>1. ResolveInv' BY DEF ResolveInv
  <2>2. StepInv' BY DEF StepInv
  <2>3. LapInv' BY DEF LapInv
  <2>4. SearchInv' BY DEF SearchInv
  <2>5. ClosedInv' BY DEF ClosedInv
  <2> QED BY <2>1, <2>2, <2>3, <2>4, <2>5 DEF StageInv
<1>16. CASE \E n \in OutLens, limit \in Limits : BeginRead(n, limit)
  <2> USE <1>16 DEF BeginRead
  <2>1. ResolveInv' BY DEF ResolveInv
  <2>2. StepInv' BY ReaderAssumption DEF StepInv
  <2>3. LapInv' BY DEF LapInv
  <2>4. SearchInv' BY DEF SearchInv
  <2>5. ClosedInv' BY DEF ClosedInv
  <2> QED BY <2>1, <2>2, <2>3, <2>4, <2>5 DEF StageInv
<1>17. CASE ShedHead
  <2> USE <1>17 DEF ShedHead
  <2>1. ResolveInv' BY DEF ResolveInv
  <2>2. StepInv' BY DEF StepInv
  <2>3. LapInv' BY DEF LapInv
  <2>4. SearchInv' BY DEF SearchInv
  <2>5. ClosedInv' BY DEF ClosedInv
  <2> QED BY <2>1, <2>2, <2>3, <2>4, <2>5 DEF StageInv
<1> QED BY <1>5, <1>6, <1>7, <1>8, <1>9, <1>10, <1>11, <1>12, <1>13, <1>14, <1>15, <1>16, <1>17 DEF Load

LEMMA LoadInv ==
  ASSUME ReaderInv, Load
  PROVE  ReaderInv'
<1>1. /\ UNCHANGED ringVars
      /\ UNCHANGED <<ringVars, cursor, counters, start, unknown_gaps>>
  BY LoadFrame
<1>2. LogInv'
  BY <1>1, SameLog DEF ReaderInv
<1>3. CursorInv' /\ EveryIndexAccounted'
  BY <1>1, Stayed DEF ReaderInv
<1> QED BY <1>2, <1>3, LoadType, LoadStages DEF ReaderInv

-----------------------------------------------------------------------------
(* Steps that move the cursor *)

(* Coming back from a call, or going round its loop, leaves nothing of it behind. *)
LEMMA Returned ==
  ASSUME NEW result, Return(result), result = "Closed" => closed' /\ StreamEnd' <= pos'
  PROVE  /\ StageInv'
         /\ rpc' = "idle" /\ args' \in [len : Nat, limit : Nat]
         /\ head_seen' \in Nat /\ oldest_seen' \in Nat
         /\ search' \in [sample : Nat, lo : Nat, head : Nat]
<1> USE DEF Return, NoArgs, NoSearch
<1>1. ResolveInv'
  BY DEF ResolveInv, Resolving
<1>2. StepInv'
  BY DEF StepInv, Stepping, Away
<1>3. LapInv'
  BY DEF LapInv, Lapping, Resyncing
<1>4. search'.head = 0
  OBVIOUS
<1>5. SearchInv'
  BY <1>4 DEF SearchInv
<1>6. ClosedInv'
  BY <1>4 DEF ClosedInv
<1> QED BY <1>1, <1>2, <1>3, <1>5, <1>6 DEF StageInv

LEMMA Looped ==
  ASSUME ReaderInv, rpc \notin Away, Loop
  PROVE  /\ StageInv'
         /\ rpc' = "read" /\ args' \in [len : Nat, limit : Nat]
         /\ head_seen' \in Nat /\ oldest_seen' \in Nat
         /\ search' \in [sample : Nat, lo : Nat, head : Nat]
<1> USE DEF Loop, NoSearch
<1>1. args.len > 0 /\ args \in [len : Nat, limit : Nat] /\ outcome # "Closed"
  BY DEF ReaderInv, StageInv, StepInv, ClosedInv, ReaderType, Away
<1>2. ResolveInv'
  BY DEF ResolveInv, Resolving
<1>3. StepInv'
  BY <1>1 DEF StepInv, Stepping
<1>4. LapInv'
  BY DEF LapInv, Lapping, Resyncing
<1>5. search'.head = 0
  OBVIOUS
<1>6. SearchInv'
  BY <1>5 DEF SearchInv
<1>7. ClosedInv'
  BY <1>1, <1>5 DEF ClosedInv
<1> QED BY <1>1, <1>2, <1>3, <1>4, <1>6, <1>7 DEF StageInv

LEMMA NoGapsAt ==
  ASSUME NEW p \in Nat
  PROVE  Cardinality(GapIndices(p, p)) = 0
  BY GapsNone

(* A reader begins its account with its first position. *)
LEMMA Begins ==
  ASSUME ReaderInv, ~cursor.at, UNCHANGED ringVars, UNCHANGED counters, UNCHANGED unknown_gaps,
         NEW p \in Nat, NEW k \in Nat, NEW g \in Nat,
         cursor' = At(p, k, g), start' = p,
         meta_head > 0, k <= meta_head, AtBlock(p, k),
         stream_start <= p, p <= EndOf(log[meta_head]),
         g = Cardinality(GapIndices(stream_start, p))
  PROVE  LogInv' /\ CursorInv' /\ EveryIndexAccounted'
<1>1. samples_read' = 0 /\ lost_samples' = 0 /\ gap_samples' = 0 /\ shed_samples' = 0
      /\ unknown_gaps' = 0
  BY DEF ReaderInv, CursorInv, NothingCounted, counters
<1>2. Cardinality(GapIndices(p, p)) = 0
  BY NoGapsAt
<1>3. Books(cursor', start', samples_read', lost_samples', gap_samples', shed_samples',
            unknown_gaps')
  BY <1>1, <1>2 DEF Books, At
<1>4. Stands(cursor', start') /\ cursor'.at
  BY DEF Stands, At
<1>5. LogInv'
  BY SameLog DEF ReaderInv
<1> QED BY <1>3, <1>4, <1>5, MovedOnSameLog

LEMMA CountersType ==
  ASSUME ReaderType, UNCHANGED counters
  PROVE  /\ samples_read' \in Nat /\ lost_samples' \in Nat
         /\ gap_samples' \in Nat /\ shed_samples' \in Nat
  BY DEF ReaderType, counters

LEMMA AttachLiveInv ==
  ASSUME ReaderInv, AttachLive
  PROVE  ReaderInv'
<1>1. /\ rpc = "detached" /\ rpc' = "idle" /\ outcome' = outcome /\ start' = cursor'.sample
      /\ UNCHANGED ringVars /\ UNCHANGED counters
      /\ UNCHANGED <<args, closed_seen, head_seen, oldest_seen, search, unknown_gaps>>
  BY DEF AttachLive, GoTo, KeepCounters, writerVars, frame
<1>2. ~cursor.at /\ outcome # "Closed" /\ LogInv /\ meta_head \in Nat /\ ReaderType
      /\ unknown_gaps \in Nat /\ closed' = closed
  BY <1>1, LogTypes DEF ReaderInv, StageInv, ResolveInv, ClosedInv, ReaderType, ringVars
<1>3. StageInv'
  <2>1. ResolveInv' /\ StepInv' /\ LapInv'
    BY <1>1 DEF ResolveInv, Resolving, StepInv, Stepping, Away, LapInv, Lapping, Resyncing
  <2>2. SearchInv' /\ ClosedInv'
    BY <1>1, <1>2 DEF ReaderInv, StageInv, SearchInv, ClosedInv, Locating
  <2> QED BY <2>1, <2>2 DEF StageInv
<1>4. ASSUME cursor' \in [at : BOOLEAN, sample : Nat, block : Nat, gaps : Nat]
      PROVE  ReaderType'
  <2>1. start' \in Nat
    BY <1>1, <1>4
  <2> QED BY <1>1, <1>2, <1>4, <2>1, CountersType DEF ReaderType, Away
<1>5. CASE meta_head = 0
  <2>1. cursor' = Unresolved(0)
    BY <1>5 DEF AttachLive
  <2>2. /\ cursor' \in [at : BOOLEAN, sample : Nat, block : Nat, gaps : Nat]
        /\ ~cursor'.at
    BY <2>1 DEF Unresolved
  <2>3. NothingCounted'
    BY <1>1, <1>2 DEF ReaderInv, CursorInv, NothingCounted, counters
  <2>4. LogInv'
    BY <1>1, <1>2, SameLog
  <2>5. CursorInv' /\ EveryIndexAccounted'
    BY <1>1, <2>2, <2>3, MovedOnSameLog
  <2> QED BY <1>3, <1>4, <2>2, <2>4, <2>5 DEF ReaderInv
<1>6. CASE meta_head # 0
  <2> DEFINE m == log[meta_head]
             k == meta_head - 1
  <2>1. cursor' = At(EndOf(m), meta_head, m.gaps_total)
    BY <1>2, <1>6 DEF AttachLive, Meta
  <2>2. /\ meta_head \in 1..Len(log) /\ k \in Nat /\ k + 1 = meta_head /\ k < Len(log)
    BY <1>2, <1>6, LogTypes
  <2>3. /\ EndOf(m) \in Nat /\ m.gaps_total \in Nat /\ m.first_sample <= EndOf(m)
        /\ m.first_sample \in Nat
    BY <1>2, <2>2, LogTypes
  <2>4. AtBlock(EndOf(m), meta_head)
    BY <1>2, <2>2, <2>3, InBlock
  <2>5. /\ stream_start <= EndOf(m)
        /\ Cardinality(GapIndices(stream_start, EndOf(m))) = m.gaps_total
    BY <1>2, <2>2, <2>3, GapsAt
  <2>6. start' = EndOf(m) /\ cursor' \in [at : BOOLEAN, sample : Nat, block : Nat, gaps : Nat]
    BY <1>1, <1>2, <2>1, <2>3 DEF At
  <2>7. LogInv' /\ CursorInv' /\ EveryIndexAccounted'
    <3> HIDE DEF m, k
    <3>1. EndOf(m) <= EndOf(log[meta_head]) /\ meta_head > 0 /\ meta_head <= meta_head
      BY <1>2, <1>6, <2>3 DEF m
    <3> QED BY <1>1, <1>2, <2>1, <2>3, <2>4, <2>5, <2>6, <3>1, Begins
  <2> QED BY <1>3, <1>4, <2>6, <2>7 DEF ReaderInv
<1> QED BY <1>5, <1>6

LEMMA AttachAtInv ==
  ASSUME ReaderInv, NEW sample \in Starts, AttachAt(sample)
  PROVE  ReaderInv'
<1>1. /\ rpc = "detached" /\ rpc' = "idle" /\ outcome' = outcome /\ start' = sample
      /\ cursor' = Unresolved(sample)
      /\ UNCHANGED ringVars /\ UNCHANGED counters
      /\ UNCHANGED <<args, closed_seen, head_seen, oldest_seen, search, unknown_gaps>>
  BY DEF AttachAt, GoTo, KeepCounters, writerVars, frame
<1>2. ~cursor.at /\ outcome # "Closed" /\ LogInv /\ ReaderType /\ closed' = closed
      /\ unknown_gaps \in Nat
  BY <1>1 DEF ReaderInv, StageInv, ResolveInv, ClosedInv, ReaderType, ringVars
<1>3. sample \in Nat
  BY ReaderAssumption
<1>4. StageInv'
  <2>1. ResolveInv' /\ StepInv' /\ LapInv'
    BY <1>1 DEF ResolveInv, Resolving, StepInv, Stepping, Away, LapInv, Lapping, Resyncing
  <2>2. SearchInv' /\ ClosedInv'
    BY <1>1, <1>2 DEF ReaderInv, StageInv, SearchInv, ClosedInv, Locating
  <2> QED BY <2>1, <2>2 DEF StageInv
<1>5. ReaderType' /\ ~cursor'.at /\ start' = cursor'.sample
  BY <1>1, <1>2, <1>3, CountersType DEF ReaderType, Away, Unresolved
<1>6. NothingCounted'
  BY <1>1, <1>2 DEF ReaderInv, CursorInv, NothingCounted, counters
<1>7. LogInv' /\ CursorInv' /\ EveryIndexAccounted'
  BY <1>1, <1>2, <1>5, <1>6, SameLog, MovedOnSameLog
<1> QED BY <1>4, <1>5, <1>7 DEF ReaderInv

(* What a locate that has answered says: b is the first block of its snapshot that ends after
   the sample, or the snapshot's head. *)
LEMMA LocatedIs ==
  ASSUME LogInv, ReaderType, SearchInv, NEW b \in 0..meta_head, Located(b)
  PROVE  /\ search.lo < search.head /\ search.head <= meta_head /\ search.lo <= oldest_valid_block
         /\ search.lo \in Nat /\ search.head \in Nat /\ search.sample \in Nat /\ search.head > 0
         /\ b <= search.head /\ b \in Nat
         /\ b = search.head => EndOf(Meta(search.head - 1)) <= search.sample
         /\ b # search.head =>
              search.lo <= b /\ b < search.head /\ b < Len(log) /\ search.sample < EndOf(Meta(b))
         /\ \A c \in Nat : search.lo <= c /\ c < b => EndOf(Meta(c)) <= search.sample
<1> DEFINE after == {c \in search.lo..(search.head - 1) : EndOf(Meta(c)) > search.sample}
<1>1. /\ search.lo \in Nat /\ search.head \in Nat /\ search.sample \in Nat /\ search.head > 0
      /\ search.lo < search.head /\ search.head <= meta_head /\ search.lo <= oldest_valid_block
  BY DEF ReaderType, SearchInv, Located
<1>2. \/ b \in after /\ \A c \in after : b <= c
      \/ after = {} /\ b = search.head
  BY DEF Located, LocatedNone, LocateTarget
<1>3. b \in Nat /\ meta_head <= Len(log) /\ Len(log) \in Nat /\ meta_head \in Nat
  BY LogTypes
<1>4. b <= search.head /\ (b # search.head => b \in after)
  BY <1>1, <1>2, <1>3
<1>5. ASSUME NEW c \in Nat, search.lo <= c, c < b
      PROVE  EndOf(Meta(c)) <= search.sample
  <2>1. c \in search.lo..(search.head - 1) /\ c \notin after
    BY <1>1, <1>2, <1>3, <1>4, <1>5
  <2>2. c + 1 \in 1..Len(log)
    BY <1>1, <1>3, <1>4, <1>5
  <2>3. EndOf(Meta(c)) \in Nat
    BY <2>2, LogTypes DEF Meta
  <2>4. ~(EndOf(Meta(c)) > search.sample)
    BY <2>1
  <2> QED BY <1>1, <2>3, <2>4
<1>6. b = search.head => EndOf(Meta(search.head - 1)) <= search.sample
  <2>1. search.head - 1 \in Nat /\ search.lo <= search.head - 1 /\ search.head - 1 < search.head
    BY <1>1
  <2> QED BY <1>5, <2>1
<1>7. b # search.head =>
        search.lo <= b /\ b < search.head /\ b < Len(log) /\ search.sample < EndOf(Meta(b))
  <2> SUFFICES ASSUME b # search.head
               PROVE  search.lo <= b /\ b < search.head /\ b < Len(log)
                      /\ search.sample < EndOf(Meta(b))
    OBVIOUS
  <2>1. b \in search.lo..(search.head - 1) /\ EndOf(Meta(b)) > search.sample
    BY <1>4
  <2>2. search.lo <= b /\ b < search.head /\ b < Len(log)
    BY <1>1, <1>3, <2>1
  <2>3. EndOf(Meta(b)) \in Nat
    <3>1. b + 1 \in 1..Len(log)
      BY <1>3, <2>2
    <3> QED BY <3>1, LogTypes DEF Meta
  <2> QED BY <1>1, <2>1, <2>2, <2>3
<1> QED BY <1>1, <1>3, <1>4, <1>5, <1>6, <1>7

LEMMA ResolveHeadInv ==
  ASSUME ReaderInv, ResolveHead
  PROVE  ReaderInv'
<1>1. /\ rpc = "resolve_head" /\ UNCHANGED ringVars /\ UNCHANGED counters
      /\ UNCHANGED unknown_gaps
  BY DEF ResolveHead, KeepCounters, writerVars
<1>2. /\ ~cursor.at /\ LogInv /\ meta_head \in Nat /\ ReaderType /\ pos \in Nat
      /\ rpc \notin Away /\ LogInv'
  BY <1>1, LogTypes, SameLog DEF ReaderInv, StageInv, ResolveInv, Resolving, ReaderType, pos, Away
<1>3. CASE meta_head = 0 /\ Nothing(closed_seen, 0) /\ UNCHANGED <<cursor, start>>
  <2>1. closed_seen => closed /\ StreamEnd <= pos
    <3>1. closed_seen => closed /\ phase = "idle"
      BY <1>2 DEF ReaderInv, StageInv, ClosedInv, LogInv, LogType
    <3>2. closed_seen => Len(log) = 0
      BY <1>2, <1>3, <3>1 DEF LogInv, LogType
    <3>3. closed_seen => log = <<>>
      BY <1>2, <3>2 DEF LogInv, LogType
    <3> QED BY <1>2, <3>1, <3>3 DEF StreamEnd
  <2>2. closed' = closed /\ StreamEnd' = StreamEnd /\ pos' = pos
    BY <1>1, <1>3, SameReads
  <2>3. PICK result : /\ Return(result)
                      /\ result = "Closed" => closed' /\ StreamEnd' <= pos'
    BY <1>3, <2>1, <2>2 DEF Nothing
  <2>4. /\ StageInv' /\ rpc' = "idle" /\ args' \in [len : Nat, limit : Nat]
        /\ head_seen' \in Nat /\ oldest_seen' \in Nat
        /\ search' \in [sample : Nat, lo : Nat, head : Nat]
    BY <2>3, Returned
  <2>5. ReaderType'
    BY <1>1, <1>2, <1>3, <2>4, CountersType DEF ReaderType, Away
  <2>6. CursorInv' /\ EveryIndexAccounted'
    BY <1>1, <1>3, Stayed DEF ReaderInv
  <2> QED BY <1>2, <2>4, <2>5, <2>6 DEF ReaderInv
<1>4. CASE /\ meta_head > 0 /\ pos <= stream_start
           /\ cursor' = At(stream_start, 0, 0) /\ start' = stream_start /\ Loop
  <2>1. 1 \in 1..Len(log) /\ meta_head \in 1..Len(log)
    BY <1>2, <1>4, LogTypes
  <2>2. stream_start \in Nat /\ stream_start < EndOf(log[1]) /\ EndOf(log[1]) \in Nat
        /\ EndOf(log[meta_head]) \in Nat
    BY <1>2, <2>1, LogTypes DEF stream_start
  <2>3. EndOf(log[1]) <= EndOf(log[meta_head])
    BY <1>2, <2>1, BlocksInOrder
  <2>4. AtBlock(stream_start, 0)
    <3>1. stream_start < EndOf(log[0 + 1]) /\ 0 \in 0..Len(log)
      BY <2>1, <2>2
    <3> QED BY <1>2, <2>2, <3>1, AtBlockIs
  <2>5. Cardinality(GapIndices(stream_start, stream_start)) = 0
    BY <2>2, NoGapsAt
  <2>6. CursorInv' /\ EveryIndexAccounted'
    <3>1. stream_start <= stream_start /\ stream_start <= EndOf(log[meta_head]) /\ 0 <= meta_head
      BY <1>2, <2>2, <2>3
    <3> QED BY <1>1, <1>2, <1>4, <2>2, <2>4, <2>5, <3>1, Begins
  <2>7. /\ StageInv' /\ rpc' = "read" /\ args' \in [len : Nat, limit : Nat]
        /\ head_seen' \in Nat /\ oldest_seen' \in Nat
        /\ search' \in [sample : Nat, lo : Nat, head : Nat]
    BY <1>2, <1>4, Looped
  <2>8. ReaderType'
    BY <1>1, <1>2, <1>4, <2>2, <2>7, CountersType DEF ReaderType, At
  <2> QED BY <1>2, <2>6, <2>7, <2>8 DEF ReaderInv
<1>5. CASE /\ meta_head > 0 /\ pos > stream_start
           /\ BeginLocate(pos, "resolve_locate")
           /\ UNCHANGED <<cursor, start, args, closed_seen, head_seen, oldest_seen>>
  <2>1. /\ rpc' = "resolve_locate" /\ search' = [sample |-> pos, lo |-> 0, head |-> 0]
        /\ outcome' = outcome
    BY <1>5 DEF BeginLocate, GoTo
  <2>2. meta_head' = meta_head /\ stream_start' = stream_start /\ pos' = pos /\ closed' = closed
    BY <1>1, <1>5, SameReads
  <2>3. args.len > 0 /\ outcome # "Closed" /\ search'.head = 0 /\ ~cursor'.at
        /\ (closed_seen \in BOOLEAN /\ (closed_seen => closed))
    BY <1>1, <1>2, <1>5, <2>1 DEF ReaderInv, StageInv, StepInv, ClosedInv, Away
  <2>4. ResolveInv' /\ StepInv' /\ LapInv'
    BY <1>5, <2>1, <2>2, <2>3 DEF ResolveInv, StepInv, LapInv, Resolving, Stepping, Lapping, Resyncing
  <2>5. SearchInv'
    BY <2>1, <2>2, <2>3 DEF SearchInv
  <2>6. ClosedInv'
    BY <1>5, <2>1, <2>2, <2>3 DEF ClosedInv
  <2>7. ReaderType'
    BY <1>1, <1>2, <1>5, <2>1, CountersType DEF ReaderType, Resolving
  <2>8. CursorInv' /\ EveryIndexAccounted'
    BY <1>1, <1>5, Stayed DEF ReaderInv
  <2> QED BY <1>2, <2>4, <2>5, <2>6, <2>7, <2>8 DEF ReaderInv, StageInv
<1> QED BY <1>3, <1>4, <1>5 DEF ResolveHead

LEMMA ResolveLocatedInv ==
  ASSUME ReaderInv, ResolveLocated
  PROVE  ReaderInv'
<1>1. /\ rpc = "resolve_locate" /\ UNCHANGED ringVars /\ UNCHANGED counters
      /\ UNCHANGED <<start, unknown_gaps>>
  BY DEF ResolveLocated, KeepCounters, NoGhosts, writerVars
<1>2. /\ ~cursor.at /\ LogInv /\ meta_head \in Nat /\ ReaderType /\ pos \in Nat
      /\ rpc \notin Away /\ LogInv' /\ start = pos /\ meta_head > 0 /\ pos > stream_start
      /\ SearchInv /\ search.sample = pos /\ start \in Nat
  BY <1>1, LogTypes, SameLog DEF ReaderInv, StageInv, ResolveInv, Resolving, ReaderType, pos, Away,
     CursorInv, SearchInv
<1>3. PICK b \in 0..meta_head :
        /\ Located(b)
        /\ \/ /\ LocatedNone(b)
              /\ Nothing(closed_seen, b)
              /\ UNCHANGED cursor
           \/ /\ ~LocatedNone(b) /\ Meta(b).first_sample <= pos
              /\ cursor' = At(pos, b, Meta(b).gaps_total)
              /\ Loop
           \/ /\ ~LocatedNone(b) /\ Meta(b).first_sample > pos
              /\ head_seen' = b
              /\ GoTo("resolve_previous") /\ search' = NoSearch
              /\ UNCHANGED <<cursor, args, closed_seen, oldest_seen>>
  BY DEF ResolveLocated
<1>4. /\ search.lo < search.head /\ search.head <= meta_head /\ search.lo <= oldest_valid_block
      /\ search.lo \in Nat /\ search.head \in Nat /\ search.head > 0
      /\ b <= search.head /\ b \in Nat
      /\ b = search.head => EndOf(Meta(search.head - 1)) <= pos
      /\ b # search.head =>
           search.lo <= b /\ b < search.head /\ b < Len(log) /\ pos < EndOf(Meta(b))
      /\ \A c \in Nat : search.lo <= c /\ c < b => EndOf(Meta(c)) <= pos
  BY <1>2, <1>3, LocatedIs
<1>5. CASE LocatedNone(b) /\ Nothing(closed_seen, b) /\ UNCHANGED cursor
  <2>1. closed_seen => closed /\ StreamEnd <= pos
    <3>1. closed_seen => closed /\ search.head = meta_head /\ Len(log) = meta_head
      BY <1>4 DEF ReaderInv, StageInv, ClosedInv, LogInv, LogType
    <3>2. EndOf(Meta(search.head - 1)) <= pos /\ (search.head - 1) + 1 = search.head
      BY <1>4, <1>5 DEF LocatedNone
    <3>3. EndOf(log[search.head]) <= pos
      BY <3>2 DEF Meta
    <3>4. closed_seen => EndOf(log[Len(log)]) <= pos /\ log # <<>>
      BY <1>2, <3>1, <3>3
    <3> QED BY <3>1, <3>4 DEF StreamEnd
  <2>2. closed' = closed /\ StreamEnd' = StreamEnd /\ pos' = pos
    BY <1>1, <1>5, SameReads
  <2>3. PICK result : /\ Return(result)
                      /\ result = "Closed" => closed' /\ StreamEnd' <= pos'
    BY <1>5, <2>1, <2>2 DEF Nothing
  <2>4. /\ StageInv' /\ rpc' = "idle" /\ args' \in [len : Nat, limit : Nat]
        /\ head_seen' \in Nat /\ oldest_seen' \in Nat
        /\ search' \in [sample : Nat, lo : Nat, head : Nat]
    BY <2>3, Returned
  <2>5. ReaderType'
    BY <1>1, <1>2, <1>5, <2>4, CountersType DEF ReaderType, Away
  <2>6. CursorInv' /\ EveryIndexAccounted'
    BY <1>1, <1>5, Stayed DEF ReaderInv
  <2> QED BY <1>2, <2>4, <2>5, <2>6 DEF ReaderInv
<1>6. CASE /\ ~LocatedNone(b) /\ Meta(b).first_sample <= pos
           /\ cursor' = At(pos, b, Meta(b).gaps_total) /\ Loop
  <2>1. b < Len(log) /\ b < search.head /\ pos < EndOf(log[b + 1])
        /\ log[b + 1].first_sample <= pos
    BY <1>4, <1>6 DEF LocatedNone, Meta
  <2>2. b + 1 \in 1..Len(log) /\ meta_head \in 1..Len(log) /\ b + 1 <= meta_head
    BY <1>2, <1>4, <2>1, LogTypes
  <2>3. EndOf(log[b + 1]) \in Nat /\ log[b + 1].gaps_total \in Nat /\ EndOf(log[meta_head]) \in Nat
    BY <1>2, <2>2, LogTypes
  <2>4. pos <= EndOf(log[b + 1]) /\ pos <= EndOf(log[meta_head])
    BY <1>2, <2>1, <2>2, <2>3, BlocksInOrder
  <2>5. AtBlock(pos, b)
    BY <1>2, <1>4, <2>1, <2>4, InBlock
  <2>6. stream_start <= pos /\ log[b + 1].gaps_total = Cardinality(GapIndices(stream_start, pos))
    BY <1>2, <2>1, <2>2, <2>4, GapsAt
  <2>7. CursorInv' /\ EveryIndexAccounted'
    <3>1. cursor' = At(pos, b, log[b + 1].gaps_total) /\ start' = pos /\ b <= meta_head
      BY <1>1, <1>2, <1>4, <1>6 DEF Meta
    <3>2. UNCHANGED ringVars /\ UNCHANGED counters /\ UNCHANGED unknown_gaps
      BY <1>1
    <3>3. \A p \in Nat : p = pos => CursorInv' /\ EveryIndexAccounted'
      BY <1>2, <1>4, <2>3, <2>4, <2>5, <2>6, <3>1, <3>2, Begins
    <3> QED BY <1>2, <3>3
  <2>8. /\ StageInv' /\ rpc' = "read" /\ args' \in [len : Nat, limit : Nat]
        /\ head_seen' \in Nat /\ oldest_seen' \in Nat
        /\ search' \in [sample : Nat, lo : Nat, head : Nat]
    BY <1>2, <1>6, Looped
  <2>9. ReaderType'
    BY <1>1, <1>2, <1>4, <1>6, <2>3, <2>8, CountersType DEF ReaderType, At, Meta
  <2> QED BY <1>2, <2>7, <2>8, <2>9 DEF ReaderInv
<1>7. CASE /\ ~LocatedNone(b) /\ Meta(b).first_sample > pos
           /\ head_seen' = b
           /\ GoTo("resolve_previous") /\ search' = NoSearch
           /\ UNCHANGED <<cursor, args, closed_seen, oldest_seen>>
  <2>1. /\ rpc' = "resolve_previous" /\ outcome' = outcome /\ search'.head = 0
        /\ search' \in [sample : Nat, lo : Nat, head : Nat]
    BY <1>7 DEF GoTo, NoSearch
  <2>2. /\ log' = log /\ meta_head' = meta_head /\ stream_start' = stream_start /\ pos' = pos
        /\ closed' = closed /\ oldest_valid_block' = oldest_valid_block
    BY <1>1, <1>7, SameReads
  <2>3. args.len > 0 /\ outcome # "Closed" /\ ~cursor'.at
        /\ (closed_seen \in BOOLEAN /\ (closed_seen => closed))
    BY <1>1, <1>2, <1>7 DEF ReaderInv, StageInv, StepInv, ClosedInv, Away
  <2>4. b # 0
    <3>1. b = 0 => Meta(b).first_sample = stream_start
      BY DEF Meta, stream_start
    <3>2. 1 \in 1..Len(log)
      BY <1>2, LogTypes
    <3>3. stream_start \in Nat
      BY <1>2, <3>2, LogTypes DEF stream_start
    <3> QED BY <1>2, <1>7, <3>1, <3>3
  <2>5. b \in 1..(meta_head - 1) /\ b - 1 \in Nat
    BY <1>2, <1>4, <1>7, <2>4 DEF LocatedNone
  <2>6. oldest_valid_block <= b - 1 => EndOf(Meta(b - 1)) <= pos
    <3>1. oldest_valid_block \in Nat
      BY <1>2, LogTypes
    <3>2. oldest_valid_block <= b - 1 => search.lo <= b - 1 /\ b - 1 < b
      BY <1>4, <2>5, <3>1
    <3> QED BY <1>4, <2>5, <3>2
  <2>7. pos < Meta(b).first_sample
    <3>1. b < Len(log) /\ b + 1 \in 1..Len(log)
      BY <1>4, <1>7, LogTypes DEF LocatedNone
    <3> QED BY <1>2, <1>7, <3>1, LogTypes DEF Meta
  <2>8. ResolveInv'
    BY <1>2, <1>7, <2>1, <2>2, <2>3, <2>5, <2>6, <2>7 DEF ResolveInv, Meta, EndOf
  <2>9. StepInv' /\ LapInv'
    BY <1>7, <2>1, <2>3 DEF StepInv, LapInv, Stepping, Lapping, Resyncing
  <2>10. SearchInv'
    BY <2>1 DEF SearchInv
  <2>11. ClosedInv'
    BY <1>7, <2>1, <2>2, <2>3 DEF ClosedInv
  <2>12. ReaderType'
    BY <1>1, <1>2, <1>4, <1>7, <2>1, CountersType DEF ReaderType, Resolving
  <2>13. CursorInv' /\ EveryIndexAccounted'
    BY <1>1, <1>7, Stayed DEF ReaderInv
  <2> QED BY <1>2, <2>8, <2>9, <2>10, <2>11, <2>12, <2>13 DEF ReaderInv, StageInv
<1> QED BY <1>3, <1>5, <1>6, <1>7

LEMMA ResolvePreviousInv ==
  ASSUME ReaderInv, ResolvePrevious
  PROVE  ReaderInv'
<1> DEFINE b == head_seen
           first == log[b + 1].first_sample
<1>1. rpc = "resolve_previous" /\ UNCHANGED ringVars /\ start' = start
  BY DEF ResolvePrevious, writerVars
<1>2. /\ ~cursor.at /\ LogInv /\ meta_head \in Nat /\ ReaderType /\ pos \in Nat
      /\ rpc \notin Away /\ LogInv' /\ start = pos /\ meta_head > 0 /\ pos > stream_start
      /\ b \in 1..(meta_head - 1) /\ pos < first /\ b \in Nat /\ b < meta_head /\ NothingCounted
      /\ oldest_valid_block <= b - 1 => EndOf(log[b]) <= pos
  <2>1. Meta(b - 1) = log[b] /\ Meta(b) = log[b + 1]
    <3>1. b \in Nat /\ (b - 1) + 1 = b
      BY DEF ReaderInv, ReaderType
    <3> QED BY <3>1 DEF Meta
  <2>2. LogInv /\ ReaderType /\ ResolveInv /\ CursorInv /\ LogInv'
    BY <1>1, SameLog DEF ReaderInv, StageInv
  <2>3. /\ ~cursor.at /\ meta_head > 0 /\ pos > stream_start
        /\ b \in 1..(meta_head - 1) /\ pos < Meta(b).first_sample
        /\ oldest_valid_block <= b - 1 => EndOf(Meta(b - 1)) <= pos
    BY <1>1, <2>2 DEF ResolveInv, Resolving
  <2>4. start = pos /\ NothingCounted
    BY <2>2, <2>3 DEF CursorInv
  <2>5. meta_head \in Nat /\ pos \in Nat /\ rpc \notin Away
    BY <1>1, <2>2, LogTypes DEF ReaderType, pos, Away
  <2>6. b \in Nat /\ b < meta_head
    BY <2>3, <2>5
  <2> QED BY <2>1, <2>2, <2>3, <2>4, <2>5, <2>6
<1>3. /\ b + 1 \in 1..Len(log) /\ b \in 1..Len(log) /\ meta_head \in 1..Len(log)
      /\ b + 1 <= meta_head /\ b < Len(log)
  BY <1>2, LogTypes
<1>4. /\ first \in Nat /\ first < EndOf(log[b + 1]) /\ log[b + 1].gaps_total \in Nat
      /\ EndOf(log[meta_head]) \in Nat /\ EndOf(log[b + 1]) \in Nat
  BY <1>2, <1>3, LogTypes
<1>5. first <= EndOf(log[meta_head]) /\ AtBlock(first, b)
  <2>1. EndOf(log[b + 1]) <= EndOf(log[meta_head])
    BY <1>2, <1>3, BlocksInOrder
  <2>2. first <= EndOf(log[meta_head]) /\ first <= EndOf(log[b + 1]) /\ first <= first
    BY <1>4, <2>1
  <2> HIDE DEF b
  <2>3. \A p \in Nat : p = first => AtBlock(p, b)
    BY <1>2, <1>3, <1>4, <2>2, InBlock
  <2> QED BY <1>4, <2>2, <2>3
<1>6. /\ stream_start \in Nat
      /\ Cardinality(GapIndices(stream_start, first)) = log[b + 1].gaps_total
  <2>1. first <= EndOf(log[b + 1]) /\ first <= first
    BY <1>4
  <2> QED BY <1>2, <1>3, <1>4, <2>1, GapsAt
<1>7. CASE /\ HasMeta(b - 1)
           /\ cursor' = At(pos, b, SatSub(log[b + 1].gaps_total, first - pos))
           /\ Loop
           /\ UNCHANGED <<counters, unknown_gaps>>
  <2>1. EndOf(log[b]) <= pos
    BY <1>2, <1>7, LogTypes DEF HasMeta
  <2>2. AtBlock(pos, b)
    <3>1. pos < EndOf(log[b + 1]) /\ b \in 0..Len(log)
      BY <1>2, <1>3, <1>4
    <3> QED BY <1>2, <2>1, <3>1, AtBlockIs
  <2>3. Cardinality(GapIndices(pos, first)) = first - pos
    BY <1>2, <1>3, <1>4, <2>2, NextBlock
  <2>4. Cardinality(GapIndices(stream_start, pos)) \in Nat
    BY <1>2, <1>6, GapsFinite
  <2>5. log[b + 1].gaps_total = Cardinality(GapIndices(stream_start, pos)) + (first - pos)
    <3>1. Cardinality(GapIndices(stream_start, first))
            = Cardinality(GapIndices(stream_start, pos)) + Cardinality(GapIndices(pos, first))
      <4>1. stream_start <= pos /\ pos <= first
        BY <1>2, <1>4, <1>6
      <4> QED BY <1>2, <1>4, <1>6, <4>1, GapsSplit
    <3> QED BY <1>6, <2>3, <3>1
  <2>6. SatSub(log[b + 1].gaps_total, first - pos) = Cardinality(GapIndices(stream_start, pos))
    <3> HIDE DEF first
    <3>1. first - pos \in Nat
      BY <1>2, <1>4
    <3> QED BY <2>4, <2>5, <3>1 DEF SatSub
  <2>7. CursorInv' /\ EveryIndexAccounted'
    <3>1. start' = pos /\ stream_start <= pos /\ pos <= EndOf(log[meta_head]) /\ b <= meta_head
      BY <1>1, <1>2, <1>4, <1>5, <1>6
    <3>2. UNCHANGED counters /\ UNCHANGED unknown_gaps
      BY <1>7
    <3>3. \A g \in Nat : g = Cardinality(GapIndices(stream_start, pos)) =>
            CursorInv' /\ EveryIndexAccounted'
      <4> HIDE DEF b, first
      <4>1. cursor' = At(pos, b, Cardinality(GapIndices(stream_start, pos)))
        BY <1>7, <2>6
      <4>2. \A p \in Nat : p = pos => CursorInv' /\ EveryIndexAccounted'
        BY <1>1, <1>2, <2>2, <2>4, <3>1, <3>2, <4>1, Begins
      <4> QED BY <1>2, <4>2
    <3> QED BY <2>4, <3>3
  <2>8. /\ StageInv' /\ rpc' = "read" /\ args' \in [len : Nat, limit : Nat]
        /\ head_seen' \in Nat /\ oldest_seen' \in Nat
        /\ search' \in [sample : Nat, lo : Nat, head : Nat]
    BY <1>2, <1>7, Looped
  <2>9. ReaderType'
    <3>1. cursor' \in [at : BOOLEAN, sample : Nat, block : Nat, gaps : Nat]
      BY <1>2, <1>7, <2>4, <2>6 DEF At
    <3>2. UNCHANGED counters /\ UNCHANGED unknown_gaps
      BY <1>7
    <3> QED BY <1>1, <1>2, <2>8, <3>1, <3>2, CountersType DEF ReaderType
  <2> QED BY <1>2, <2>7, <2>8, <2>9 DEF ReaderInv
<1>8. CASE /\ ~HasMeta(b - 1)
           /\ Overrun(first - pos, 0, first, b, log[b + 1].gaps_total)
           /\ unknown_gaps' = Cardinality(GapIndices(pos, first))
  <2>1. /\ cursor' = At(first, b, log[b + 1].gaps_total) /\ Return("Overrun")
        /\ samples_read' = 0 /\ lost_samples' = first - pos
        /\ gap_samples' = 0 /\ shed_samples' = 0
    <3> HIDE DEF b, first
    <3>1. /\ lost_samples' = 0 + (first - pos)
          /\ first - pos \in Int
      BY <1>2, <1>4, <1>8 DEF Overrun, NothingCounted
    <3> QED BY <1>2, <1>8, <3>1 DEF Overrun, NothingCounted
  <2>2. Stands(cursor', start')
    <3>1. stream_start <= first /\ pos <= first
      BY <1>2, <1>4, <1>6
    <3> HIDE DEF first
    <3> QED BY <1>1, <1>2, <1>5, <2>1, <3>1 DEF Stands, At
  <2>3. Books(cursor', start', samples_read', lost_samples', gap_samples', shed_samples',
              unknown_gaps')
    <3> HIDE DEF first
    <3>1. /\ Cardinality(GapIndices(pos, first)) \in Nat /\ first - pos \in Nat
          /\ start' = pos /\ cursor'.sample = first
          /\ cursor'.gaps = log[b + 1].gaps_total
      BY <1>1, <1>2, <1>4, <2>1, GapsFinite DEF At
    <3> QED BY <1>6, <1>8, <2>1, <3>1 DEF Books
  <2>4. CursorInv' /\ EveryIndexAccounted'
    <3>1. cursor'.at
      BY <2>1 DEF At
    <3> QED BY <1>1, <2>2, <2>3, <3>1, MovedOnSameLog
  <2>5. /\ StageInv' /\ rpc' = "idle" /\ args' \in [len : Nat, limit : Nat]
        /\ head_seen' \in Nat /\ oldest_seen' \in Nat
        /\ search' \in [sample : Nat, lo : Nat, head : Nat]
    BY <2>1, Returned
  <2>6. ReaderType'
    <3>1. Cardinality(GapIndices(pos, first)) \in Nat /\ first - pos \in Nat
      BY <1>2, <1>4, GapsFinite
    <3>2. cursor' \in [at : BOOLEAN, sample : Nat, block : Nat, gaps : Nat]
      BY <1>2, <1>4, <2>1 DEF At
    <3> HIDE DEF first
    <3> QED BY <1>1, <1>2, <1>8, <2>1, <2>5, <3>1, <3>2 DEF ReaderType, Away
  <2> QED BY <1>2, <2>4, <2>5, <2>6 DEF ReaderInv
<1> QED BY <1>7, <1>8 DEF ResolvePrevious, Meta

(* A reader inside read that stays where it is and turns to the block, or to lapped. *)
LEMMA TurnsToBlock ==
  ASSUME ReaderInv, UNCHANGED ringVars, UNCHANGED <<cursor, policy, start, unknown_gaps>>,
         UNCHANGED counters, rpc \in Stepping \ {"step_head"},
         UNCHANGED <<outcome, args, oldest_seen, search>>,
         closed_seen' = closed_seen, head_seen' \in Nat,
         rpc' \in {"step_oldest", "step_copy", "lapped"},
         rpc' = "step_copy" => From < args.limit
  PROVE  ReaderInv'
<1>1. /\ LogInv /\ ReaderType /\ LogInv'
      /\ ResolveInv /\ StepInv /\ LapInv /\ SearchInv /\ ClosedInv
  BY SameLog DEF ReaderInv, StageInv
<1>2. /\ log' = log /\ meta_head' = meta_head /\ closed' = closed
      /\ oldest_valid_sample' = oldest_valid_sample
      /\ oldest_valid_block' = oldest_valid_block
      /\ stream_start' = stream_start /\ StreamEnd' = StreamEnd
      /\ pos' = pos /\ From' = From
  BY SameReads
<1>3. /\ cursor.at /\ pos < args.limit /\ cursor.block < meta_head /\ args.len > 0
      /\ rpc \notin Locating /\ outcome # "Closed" /\ search.head \in Nat
  BY <1>1 DEF StepInv, Stepping, Away, Locating, ClosedInv, ReaderType
<1>4. ResolveInv'
  BY DEF ResolveInv, Resolving
<1>5. StepInv'
  BY <1>2, <1>3 DEF StepInv, Stepping
<1>6. LapInv'
  BY <1>2, <1>3 DEF LapInv, Lapping, Resyncing
<1>7. SearchInv'
  BY <1>1, <1>3 DEF SearchInv
<1>8. ClosedInv'
  BY <1>1, <1>2, <1>3 DEF ClosedInv
<1>9. ReaderType'
  BY <1>1, CountersType DEF ReaderType, Stepping, Lapping
<1>10. CursorInv' /\ EveryIndexAccounted'
  BY Stayed DEF ReaderInv
<1> QED BY <1>1, <1>4, <1>5, <1>6, <1>7, <1>8, <1>9, <1>10 DEF ReaderInv, StageInv

(* A positioned reader at a committed block stands before its end. *)
LEMMA AtCommitted ==
  ASSUME LogInv, ReaderType, CursorInv, cursor.at, cursor.block < meta_head
  PROVE  /\ pos \in Nat /\ cursor.block \in Nat /\ cursor.block < Len(log)
         /\ cursor.block + 1 <= meta_head /\ cursor.block + 1 \in 1..Len(log)
         /\ meta_head \in 1..Len(log) /\ meta_head \in Nat
         /\ AtBlock(pos, cursor.block)
         /\ pos < EndOf(Meta(cursor.block))
         /\ Meta(cursor.block).first_sample \in Nat /\ EndOf(Meta(cursor.block)) \in Nat
<1>1. pos \in Nat /\ cursor.block \in Nat
  BY DEF ReaderType, pos
<1>2. /\ cursor.block < Len(log) /\ cursor.block + 1 <= meta_head /\ meta_head \in Nat
      /\ meta_head \in 1..Len(log)
  BY <1>1, LogTypes
<1>3. AtBlock(pos, cursor.block)
  BY DEF CursorInv, Stands, pos
<1>4. cursor.block + 1 \in 1..Len(log) /\ pos < EndOf(Meta(cursor.block))
  BY <1>1, <1>2, <1>3, NextBlock DEF Meta
<1>5. Meta(cursor.block).first_sample \in Nat /\ EndOf(Meta(cursor.block)) \in Nat
  BY <1>4, LogTypes DEF Meta
<1> QED BY <1>1, <1>2, <1>3, <1>4, <1>5

(* The record found is never one the cursor is already past. *)
LEMMA StepMetaInv ==
  ASSUME ReaderInv, StepMeta
  PROVE  ReaderInv'
<1>1. /\ rpc = "step_meta" /\ rpc \in Stepping \ {"step_head"}
      /\ UNCHANGED ringVars /\ UNCHANGED counters /\ UNCHANGED <<policy, start, unknown_gaps>>
  BY DEF StepMeta, KeepCounters, NoGhosts, writerVars, Stepping
<1>2. pos < EndOf(Meta(cursor.block)) /\ pos \in Nat /\ EndOf(Meta(cursor.block)) \in Nat
  <2>1. LogInv /\ ReaderType /\ CursorInv /\ cursor.at /\ cursor.block < meta_head
    BY <1>1 DEF ReaderInv, StageInv, StepInv, Stepping
  <2> QED BY <2>1, AtCommitted
<1>3. /\ UNCHANGED <<cursor, outcome, args, closed_seen, oldest_seen, search>>
      /\ rpc' \in {"step_oldest", "lapped"}
      /\ head_seen' \in {head_seen, 0}
  <2>1. ~(HasMeta(cursor.block) /\ pos >= EndOf(Meta(cursor.block)))
    BY <1>2
  <2> QED BY <2>1 DEF StepMeta, GoTo, GoToBlock, frame
<1>4. head_seen' \in Nat
  BY <1>3 DEF ReaderInv, ReaderType
<1> QED BY <1>1, <1>3, <1>4, TurnsToBlock

(* A positioned reader moves on to q in block k, and counts what it passes. *)
LEMMA MovesOn ==
  ASSUME ReaderInv, cursor.at, UNCHANGED ringVars, UNCHANGED <<start, unknown_gaps>>,
         NEW q \in Nat, NEW k \in Nat, NEW g \in Nat, pos <= q,
         g = Cardinality(GapIndices(pos, q)),
         cursor' = At(q, k, cursor.gaps + g),
         k <= meta_head, AtBlock(q, k), q <= EndOf(log[meta_head]),
         samples_read' \in Nat, lost_samples' \in Nat, shed_samples' \in Nat,
         gap_samples' = gap_samples + g,
         samples_read' + lost_samples' + shed_samples'
           = samples_read + lost_samples + shed_samples + (q - pos) - g
  PROVE  /\ LogInv' /\ CursorInv' /\ EveryIndexAccounted'
         /\ cursor' \in [at : BOOLEAN, sample : Nat, block : Nat, gaps : Nat]
         /\ gap_samples' \in Nat
<1>1. LogInv /\ ReaderType /\ CursorInv /\ EveryIndexAccounted /\ LogInv'
  BY SameLog DEF ReaderInv
<1>2. /\ pos \in Nat /\ start \in Nat /\ gap_samples \in Nat /\ cursor.gaps \in Nat
      /\ samples_read \in Nat /\ lost_samples \in Nat /\ shed_samples \in Nat
      /\ unknown_gaps \in Nat
  BY <1>1 DEF ReaderType, pos
<1>3. /\ start <= q /\ stream_start <= q
      /\ samples_read + lost_samples + gap_samples + shed_samples = pos - start
      /\ gap_samples + g + unknown_gaps = Cardinality(GapIndices(start, q))
      /\ cursor.gaps + g = Cardinality(GapIndices(stream_start, q))
  BY <1>1, BooksJump
<1>4. meta_head > 0
  BY <1>1 DEF CursorInv, Stands
<1>5. cursor'.at /\ cursor'.sample = q /\ cursor'.block = k /\ cursor'.gaps = cursor.gaps + g
  BY DEF At
<1>6. Stands(cursor', start')
  BY <1>3, <1>4, <1>5 DEF Stands
<1>7. samples_read' + lost_samples' + gap_samples' + shed_samples' = q - start
  <2> HIDE DEF pos
  <2> QED BY <1>2, <1>3
<1>8. Books(cursor', start', samples_read', lost_samples', gap_samples', shed_samples',
            unknown_gaps')
  BY <1>2, <1>3, <1>5, <1>7 DEF Books
<1>9. cursor' \in [at : BOOLEAN, sample : Nat, block : Nat, gaps : Nat] /\ gap_samples' \in Nat
  BY <1>2 DEF At
<1> QED BY <1>1, <1>5, <1>6, <1>8, <1>9, MovedOnSameLog

LEMMA StepOldestInv ==
  ASSUME ReaderInv, StepOldest
  PROVE  ReaderInv'
<1>1. /\ rpc = "step_oldest" /\ rpc \in Stepping \ {"step_head"} /\ rpc \notin Away
      /\ UNCHANGED ringVars /\ UNCHANGED <<policy, start, unknown_gaps>>
      /\ UNCHANGED <<samples_read, lost_samples, shed_samples>>
  BY DEF StepOldest, NoGhosts, writerVars, Stepping, Away
<1>2. LogInv /\ ReaderType /\ cursor.at /\ pos < args.limit /\ cursor.block < meta_head
  BY <1>1 DEF ReaderInv, StageInv, StepInv
<1>3. CASE /\ UNCHANGED <<cursor, gap_samples>>
           /\ \/ GoToBlock("lapped")
              \/ GoToBlock("step_copy") /\ From < args.limit
  <2>1. UNCHANGED counters
    BY <1>1, <1>3 DEF counters
  <2>2. /\ UNCHANGED <<outcome, args, closed_seen, oldest_seen, search>>
        /\ rpc' \in {"step_copy", "lapped"}
        /\ rpc' = "step_copy" => From < args.limit
        /\ head_seen' \in Nat
    BY <1>3 DEF GoToBlock, GoTo
  <2> QED BY <1>1, <1>3, <2>1, <2>2, TurnsToBlock
<1>4. CASE /\ From >= args.limit
           /\ gap_samples' = gap_samples + (args.limit - pos)
           /\ cursor' = At(args.limit, cursor.block, cursor.gaps + (args.limit - pos))
           /\ Nothing(FALSE, head_seen)
  <2> DEFINE q == args.limit
             k == cursor.block
  <2>1. /\ pos \in Nat /\ q \in Nat /\ k \in Nat /\ pos <= q /\ k < Len(log) /\ k + 1 <= meta_head
        /\ AtBlock(pos, k) /\ meta_head \in Nat /\ pos < q
    <3>1. CursorInv /\ args.limit \in Nat
      BY <1>2 DEF ReaderInv, ReaderType
    <3>2. /\ pos \in Nat /\ k \in Nat /\ k < Len(log) /\ k + 1 <= meta_head
          /\ AtBlock(pos, k) /\ meta_head \in Nat
      BY <1>2, <3>1, AtCommitted
    <3> QED BY <1>2, <3>1, <3>2
  <2>2. k + 1 \in 1..Len(log) /\ meta_head \in 1..Len(log)
    BY <1>2, <2>1, LogTypes
  <2>3. /\ log[k + 1].first_sample \in Nat /\ log[k + 1].first_sample < EndOf(log[k + 1])
        /\ EndOf(log[k + 1]) \in Nat /\ EndOf(log[meta_head]) \in Nat
    BY <1>2, <2>2, LogTypes
  <2>4. q <= log[k + 1].first_sample
    <3>1. From = IF pos >= log[k + 1].first_sample THEN pos ELSE log[k + 1].first_sample
      BY DEF From, MaxOf, Meta
    <3> QED BY <1>4, <2>1, <2>3, <3>1
  <2>5. Cardinality(GapIndices(pos, q)) = q - pos /\ AtBlock(q, k)
    BY <1>2, <2>1, <2>4, NextBlock
  <2>6. q <= EndOf(log[meta_head])
    <3>1. EndOf(log[k + 1]) <= EndOf(log[meta_head])
      BY <1>2, <2>1, <2>2, BlocksInOrder
    <3> QED BY <2>1, <2>3, <2>4, <3>1
  <2>7. /\ LogInv' /\ CursorInv' /\ EveryIndexAccounted'
        /\ cursor' \in [at : BOOLEAN, sample : Nat, block : Nat, gaps : Nat]
        /\ gap_samples' \in Nat
    <3>1. /\ cursor' = At(q, k, cursor.gaps + (q - pos)) /\ gap_samples' = gap_samples + (q - pos)
          /\ UNCHANGED ringVars /\ UNCHANGED <<start, unknown_gaps>>
      BY <1>1, <1>4
    <3>2. /\ samples_read' \in Nat /\ lost_samples' \in Nat /\ shed_samples' \in Nat
          /\ samples_read' + lost_samples' + shed_samples'
               = samples_read + lost_samples + shed_samples + (q - pos) - (q - pos)
      <4>1. /\ samples_read \in Nat /\ lost_samples \in Nat /\ shed_samples \in Nat
        BY <1>2 DEF ReaderType
      <4> HIDE DEF q
      <4> QED BY <1>1, <2>1, <4>1
    <3>3. q - pos \in Nat /\ k <= meta_head
      BY <2>1
    <3> HIDE DEF q, k
    <3>4. \A g \in Nat : g = q - pos =>
            /\ LogInv' /\ CursorInv' /\ EveryIndexAccounted'
            /\ cursor' \in [at : BOOLEAN, sample : Nat, block : Nat, gaps : Nat]
            /\ gap_samples' \in Nat
      BY <1>2, <2>1, <2>5, <2>6, <3>1, <3>2, <3>3, MovesOn
    <3> QED BY <3>3, <3>4
  <2>8. /\ StageInv' /\ rpc' = "idle" /\ args' \in [len : Nat, limit : Nat]
        /\ head_seen' \in Nat /\ oldest_seen' \in Nat
        /\ search' \in [sample : Nat, lo : Nat, head : Nat]
    <3>1. Return("Empty")
      BY <1>4 DEF Nothing
    <3> QED BY <3>1, Returned
  <2>9. ReaderType'
    BY <1>1, <1>2, <2>7, <2>8 DEF ReaderType, Away
  <2> QED BY <2>7, <2>8, <2>9 DEF ReaderInv
<1> QED BY <1>3, <1>4 DEF StepOldest

(* A chunk begins where nothing was produced since the position, and is all produced. *)
LEMMA ChunkGaps ==
  ASSUME LogInv, ReaderType, CursorInv, EveryIndexAccounted, StepInv, cursor.at,
         cursor.block < meta_head, rpc = "step_provenance"
  PROVE  LET m == Meta(cursor.block)
             end == From + Fits
         IN  /\ \A i \in pos..(From - 1) : ~Produced(i)
             /\ Cardinality(GapIndices(pos, end)) = From - pos
             /\ m.gaps_total = cursor.gaps + (From - pos)
             /\ ~BlockStart => From = pos
<1> DEFINE m == Meta(cursor.block)
           k == cursor.block
           end == From + Fits
<1>1. /\ m.first_sample \in Nat /\ EndOf(m) \in Nat /\ m.gaps_total \in Nat
      /\ pos \in Nat /\ From \in Nat /\ pos <= From
      /\ From = IF pos >= m.first_sample THEN pos ELSE m.first_sample
      /\ From < EndOf(m)
      /\ Fits \in Nat /\ Fits > 0 /\ From + Fits <= EndOf(m)
  BY ChunkFits
<1>2. /\ k \in Nat /\ k < Len(log) /\ k + 1 \in 1..Len(log) /\ AtBlock(pos, k)
  BY AtCommitted
<1>3. m = log[k + 1]
  BY DEF Meta
<1>4. ASSUME NEW i \in pos..(From - 1) PROVE ~Produced(i)
  <2> HIDE DEF m, k
  <2>1. i \in Nat /\ pos <= i /\ i < m.first_sample
    BY <1>1
  <2>2. k \in 0..Len(log)
    BY <1>2
  <2> QED BY <1>1, <1>2, <1>3, <2>1, <2>2, NothingBeforeBlock
<1>5. Cardinality(GapIndices(pos, From)) = From - pos
  BY <1>1, <1>4, GapsAll
<1>6. Cardinality(GapIndices(From, end)) = 0
  <2>1. ASSUME NEW i \in From..(end - 1) PROVE Produced(i)
    <3> HIDE DEF m, k
    <3>1. i >= m.first_sample /\ i < EndOf(m)
      <4>1. m.first_sample <= From
        BY <1>1
      <4> QED BY <1>1, <4>1
    <3>2. k + 1 \in DOMAIN log
      BY <1>2 DEF LogInv, LogType
    <3> QED BY <1>3, <3>1, <3>2 DEF Produced
  <2> HIDE DEF m, k
  <2>2. end \in Nat
    BY <1>1
  <2> QED BY <1>1, <2>1, <2>2, GapsNone
<1>7. end \in Nat /\ From <= end /\ pos <= end /\ m.first_sample <= end /\ end <= EndOf(m)
  <2> HIDE DEF m, k
  <2> QED BY <1>1
<1>8. Cardinality(GapIndices(pos, end)) = From - pos
  <2>1. Cardinality(GapIndices(pos, end))
          = Cardinality(GapIndices(pos, From)) + Cardinality(GapIndices(From, end))
    BY <1>1, <1>7, GapsSplit
  <2> HIDE DEF m, k, end
  <2> QED BY <1>1, <1>5, <1>6, <2>1
<1>9. m.gaps_total = cursor.gaps + (From - pos)
  <2> HIDE DEF m, k, end
  <2>1. Cardinality(GapIndices(stream_start, end)) = m.gaps_total
    BY <1>2, <1>3, <1>7, GapsAt
  <2>2. cursor.gaps + Cardinality(GapIndices(pos, end)) = Cardinality(GapIndices(stream_start, end))
    BY <1>7, BooksJump
  <2> QED BY <1>8, <2>1, <2>2
<1>10. ~BlockStart => From = pos
  BY <1>1 DEF BlockStart
<1> QED BY <1>4, <1>8, <1>9, <1>10

LEMMA StepDeliverInv ==
  ASSUME ReaderInv, StepDeliver
  PROVE  ReaderInv'
<1> DEFINE m == Meta(cursor.block)
           end == From + Fits
           k == IF end = EndOf(m) THEN cursor.block + 1 ELSE cursor.block
           g == From - pos
<1>1. /\ rpc = "step_provenance" /\ UNCHANGED ringVars
      /\ UNCHANGED <<lost_samples, shed_samples, start, unknown_gaps>>
      /\ cursor' = At(end, k, IF BlockStart THEN m.gaps_total ELSE cursor.gaps)
      /\ samples_read' = samples_read + Fits /\ gap_samples' = gap_samples + g
      /\ Return("Data")
  BY DEF StepDeliver, NoGhosts, writerVars
<1>2. /\ LogInv /\ ReaderType /\ CursorInv /\ EveryIndexAccounted /\ StepInv
      /\ cursor.at /\ cursor.block < meta_head
  BY <1>1 DEF ReaderInv, StageInv, StepInv, Stepping
<1>3. /\ m.first_sample \in Nat /\ EndOf(m) \in Nat /\ m.gaps_total \in Nat
      /\ pos \in Nat /\ From \in Nat /\ pos <= From
      /\ From = IF pos >= m.first_sample THEN pos ELSE m.first_sample
      /\ From < EndOf(m)
      /\ Fits \in Nat /\ Fits > 0 /\ end <= EndOf(m)
  BY <1>1, <1>2, ChunkFits
<1>4. /\ Cardinality(GapIndices(pos, end)) = g /\ m.gaps_total = cursor.gaps + g
      /\ ~BlockStart => From = pos
  BY <1>1, <1>2, ChunkGaps
<1>5. /\ cursor.block \in Nat /\ cursor.block < Len(log) /\ cursor.block + 1 <= meta_head
      /\ cursor.block + 1 \in 1..Len(log) /\ meta_head \in 1..Len(log) /\ meta_head \in Nat
  BY <1>2, AtCommitted
<1>6. m = log[cursor.block + 1]
  BY DEF Meta
<1> HIDE DEF m
<1>7. end \in Nat /\ g \in Nat /\ pos <= end /\ m.first_sample <= end
  BY <1>3
<1>8. AtBlock(end, k) /\ k \in Nat /\ k <= meta_head
  <2>1. /\ end < EndOf(m) => AtBlock(end, cursor.block)
        /\ end = EndOf(m) => AtBlock(end, cursor.block + 1)
    BY <1>2, <1>3, <1>5, <1>6, <1>7, InBlock
  <2> HIDE DEF end
  <2>2. CASE end = EndOf(m)
    BY <1>5, <2>1, <2>2
  <2>3. CASE end # EndOf(m)
    <3>1. end < EndOf(m)
      BY <1>3, <1>7, <2>3
    <3> QED BY <1>5, <2>1, <2>3, <3>1
  <2> QED BY <2>2, <2>3
<1>9. end <= EndOf(log[meta_head])
  <2>1. EndOf(m) <= EndOf(log[meta_head]) /\ EndOf(log[meta_head]) \in Nat
    BY <1>2, <1>5, <1>6, BlocksInOrder, LogTypes
  <2> QED BY <1>3, <1>7, <2>1
<1>10. cursor' = At(end, k, cursor.gaps + g)
  <2>1. cursor.gaps \in Nat
    BY <1>2 DEF ReaderType
  <2>2. (IF BlockStart THEN m.gaps_total ELSE cursor.gaps) = cursor.gaps + g
    BY <1>3, <1>4, <2>1
  <2> QED BY <1>1, <2>2 DEF m
<1>11. /\ samples_read' \in Nat /\ lost_samples' \in Nat /\ shed_samples' \in Nat
       /\ samples_read' + lost_samples' + shed_samples'
            = samples_read + lost_samples + shed_samples + (end - pos) - g
  <2>1. samples_read \in Nat /\ lost_samples \in Nat /\ shed_samples \in Nat
    BY <1>2 DEF ReaderType
  <2> QED BY <1>1, <1>3, <2>1
<1>12. /\ LogInv' /\ CursorInv' /\ EveryIndexAccounted'
       /\ cursor' \in [at : BOOLEAN, sample : Nat, block : Nat, gaps : Nat]
       /\ gap_samples' \in Nat
  <2> HIDE DEF k, end, g
  <2>1. /\ gap_samples' = gap_samples + g /\ UNCHANGED ringVars
        /\ UNCHANGED <<start, unknown_gaps>>
    BY <1>1
  <2> QED BY <1>2, <1>4, <1>7, <1>8, <1>9, <1>10, <1>11, <2>1, MovesOn
<1>13. /\ StageInv' /\ rpc' = "idle" /\ args' \in [len : Nat, limit : Nat]
       /\ head_seen' \in Nat /\ oldest_seen' \in Nat
       /\ search' \in [sample : Nat, lo : Nat, head : Nat]
  BY <1>1, Returned
<1>14. ReaderType'
  BY <1>1, <1>2, <1>11, <1>12, <1>13 DEF ReaderType, Away
<1> QED BY <1>12, <1>13, <1>14 DEF ReaderInv

(* Where a lapped reader is put: it stays if the block holds its position, or jumps forward. *)
LEMMA ResyncInv ==
  ASSUME ReaderInv, rpc \in {"lap_newest", "resync_locate"}, UNCHANGED ringVars,
         UNCHANGED <<policy, start, unknown_gaps>>,
         NEW b \in Nat, b < meta_head, NEW target \in Nat, Resync(b, target),
         Meta(b).first_sample <= target, target < EndOf(Meta(b)),
         target <= pos => AtBlock(pos, b)
  PROVE  ReaderInv'
<1>1. /\ LogInv /\ ReaderType /\ CursorInv /\ EveryIndexAccounted /\ cursor.at /\ rpc \notin Away
      /\ LogInv'
  BY SameLog DEF ReaderInv, StageInv, LapInv, Lapping, Resyncing, Away
<1>2. /\ pos \in Nat /\ cursor.gaps \in Nat /\ meta_head \in Nat /\ b < Len(log) /\ b <= meta_head
      /\ b + 1 \in 1..Len(log) /\ b + 1 <= meta_head /\ meta_head \in 1..Len(log)
      /\ samples_read \in Nat /\ lost_samples \in Nat /\ shed_samples \in Nat
  <2>1. /\ pos \in Nat /\ cursor.gaps \in Nat
        /\ samples_read \in Nat /\ lost_samples \in Nat /\ shed_samples \in Nat
    BY <1>1 DEF ReaderType, pos
  <2>2. meta_head \in Nat /\ meta_head <= Len(log) /\ Len(log) \in Nat
    BY <1>1, LogTypes
  <2> QED BY <2>1, <2>2
<1>3. /\ EndOf(Meta(b)) \in Nat /\ EndOf(log[meta_head]) \in Nat
      /\ EndOf(Meta(b)) <= EndOf(log[meta_head]) /\ Meta(b).first_sample \in Nat
  BY <1>1, <1>2, BlocksInOrder, LogTypes DEF Meta
<1>4. CASE /\ target <= pos /\ cursor' = At(pos, b, cursor.gaps) /\ Loop
           /\ UNCHANGED counters
  <2>1. pos <= EndOf(log[meta_head]) /\ stream_start <= pos /\ start <= pos /\ start \in Nat
    BY <1>1 DEF CursorInv, Stands, pos, ReaderType
  <2>2. /\ CursorInv' /\ EveryIndexAccounted'
        /\ cursor' \in [at : BOOLEAN, sample : Nat, block : Nat, gaps : Nat]
    <3>1. cursor' \in [at : BOOLEAN, sample : Nat, block : Nat, gaps : Nat]
      BY <1>2, <1>4 DEF At
    <3>2. Stands(cursor', start') /\ cursor'.at
      BY <1>2, <1>4, <2>1 DEF Stands, At
    <3>3. Books(cursor', start', samples_read', lost_samples', gap_samples', shed_samples',
                unknown_gaps')
      BY <1>1, <1>4 DEF Books, At, EveryIndexAccounted, counters
    <3> QED BY <3>1, <3>2, <3>3, MovedOnSameLog
  <2>3. /\ StageInv' /\ rpc' = "read" /\ args' \in [len : Nat, limit : Nat]
        /\ head_seen' \in Nat /\ oldest_seen' \in Nat
        /\ search' \in [sample : Nat, lo : Nat, head : Nat]
    BY <1>1, <1>4, Looped
  <2>4. ReaderType'
    BY <1>1, <1>4, <2>2, <2>3, CountersType DEF ReaderType
  <2> QED BY <1>1, <2>2, <2>3, <2>4 DEF ReaderInv
<1>5. CASE /\ pos < target
           /\ Overrun(target - pos - SkippedGap(b, target), SkippedGap(b, target), target, b,
                      Meta(b).gaps_total)
  <2> DEFINE g == SkippedGap(b, target)
  <2>1. /\ g = Cardinality(GapIndices(pos, target))
        /\ Meta(b).gaps_total = cursor.gaps + Cardinality(GapIndices(pos, target))
    <3>1. target <= EndOf(Meta(b))
      BY <1>3
    <3> QED BY <1>1, <1>2, <1>5, <3>1, SkippedGapIs
  <2>2. g \in Nat /\ g <= target - pos
    BY <1>2, <1>5, <2>1, GapsFinite
  <2>3. AtBlock(target, b) /\ target <= EndOf(log[meta_head])
    <3>1. target < EndOf(log[b + 1]) /\ log[b + 1].first_sample <= target
          /\ target <= EndOf(log[b + 1])
      BY <1>3 DEF Meta
    <3> QED BY <1>1, <1>2, <1>3, <3>1, InBlock
  <2>4. /\ cursor' = At(target, b, cursor.gaps + g) /\ Return("Overrun")
        /\ lost_samples' = lost_samples + (target - pos - g)
        /\ gap_samples' = gap_samples + g
        /\ UNCHANGED <<samples_read, shed_samples>>
    BY <1>5, <2>1 DEF Overrun
  <2> HIDE DEF g
  <2>5. /\ samples_read' \in Nat /\ lost_samples' \in Nat /\ shed_samples' \in Nat
        /\ samples_read' + lost_samples' + shed_samples'
             = samples_read + lost_samples + shed_samples + (target - pos) - g
    BY <1>2, <2>2, <2>4
  <2>6. /\ CursorInv' /\ EveryIndexAccounted'
        /\ cursor' \in [at : BOOLEAN, sample : Nat, block : Nat, gaps : Nat]
        /\ gap_samples' \in Nat
    <3>1. pos <= target
      BY <1>2, <1>5
    <3> QED BY <1>1, <1>2, <2>1, <2>2, <2>3, <2>4, <2>5, <3>1, MovesOn
  <2>7. /\ StageInv' /\ rpc' = "idle" /\ args' \in [len : Nat, limit : Nat]
        /\ head_seen' \in Nat /\ oldest_seen' \in Nat
        /\ search' \in [sample : Nat, lo : Nat, head : Nat]
    BY <2>4, Returned
  <2>8. ReaderType'
    BY <1>1, <2>5, <2>6, <2>7 DEF ReaderType, Away
  <2> QED BY <1>1, <2>6, <2>7, <2>8 DEF ReaderInv
<1>6. target <= pos \/ pos < target
  BY <1>2
<1> QED BY <1>4, <1>5, <1>6 DEF Resync

(* The located block is where the cursor stands if the code finds that nothing was lost. *)
LEMMA LosslessIsAtBlock ==
  ASSUME LogInv, ReaderType, CursorInv, EveryIndexAccounted, cursor.at,
         NEW b \in Nat, b < Len(log), pos < EndOf(Meta(b)),
         \/ Meta(b).first_sample <= pos
         \/ Meta(b).gaps_total - cursor.gaps = Meta(b).first_sample - pos
  PROVE  AtBlock(pos, b)
<1> DEFINE first == Meta(b).first_sample
<1>1. /\ pos \in Nat /\ cursor.gaps \in Nat /\ b + 1 \in 1..Len(log) /\ b \in 0..Len(log)
  BY LogTypes DEF ReaderType, pos
<1>2. /\ first \in Nat /\ first < EndOf(Meta(b)) /\ EndOf(Meta(b)) \in Nat
      /\ Meta(b).gaps_total \in Nat
  BY <1>1, LogTypes DEF Meta
<1>3. CASE first <= pos
  <2>1. log[b + 1].first_sample <= pos /\ pos <= EndOf(log[b + 1]) /\ pos < EndOf(log[b + 1])
    BY <1>1, <1>2, <1>3 DEF Meta
  <2> QED BY <1>1, <2>1, InBlock
<1>4. CASE pos < first /\ Meta(b).gaps_total - cursor.gaps = first - pos
  <2>1. Meta(b).gaps_total = cursor.gaps + Cardinality(GapIndices(pos, first))
    <3>1. first <= first /\ first <= EndOf(Meta(b))
      BY <1>2
    <3> QED BY <1>2, <1>4, <3>1, SkippedGapIs
  <2>2. Cardinality(GapIndices(pos, first)) \in Nat
    BY <1>1, <1>2, GapsFinite
  <2>3. Cardinality(GapIndices(pos, first)) = first - pos
    <3> HIDE DEF first
    <3> QED BY <1>1, <1>2, <1>4, <2>1, <2>2
  <2>4. \A i \in pos..(first - 1) : ~Produced(i)
    <3>1. pos <= first
      BY <1>1, <1>2, <1>4
    <3> QED BY <1>1, <1>2, <2>3, <3>1, GapsAll
  <2>5. b = 0 \/ EndOf(log[b]) <= pos
    <3> SUFFICES ASSUME b # 0, ~(EndOf(log[b]) <= pos) PROVE FALSE
      OBVIOUS
    <3>1. b \in 1..Len(log) /\ b < b + 1
      BY <1>1
    <3>2. /\ EndOf(log[b]) \in Nat /\ log[b].first_sample \in Nat
          /\ log[b].first_sample < EndOf(log[b])
      BY <3>1, LogTypes
    <3>3. EndOf(log[b]) <= first
      BY <1>1, <3>1, BlocksInOrder DEF Meta
    <3>4. Produced(EndOf(log[b]) - 1)
      <4>1. EndOf(log[b]) - 1 >= log[b].first_sample /\ EndOf(log[b]) - 1 < EndOf(log[b])
        BY <3>2
      <4>2. b \in DOMAIN log
        BY <3>1 DEF LogInv, LogType
      <4> QED BY <4>1, <4>2 DEF Produced
    <3>5. EndOf(log[b]) - 1 \in pos..(first - 1)
      <4> HIDE DEF first
      <4> QED BY <1>1, <1>2, <3>2, <3>3
    <3> QED BY <2>4, <3>4, <3>5
  <2>6. pos < EndOf(log[b + 1])
    BY DEF Meta
  <2> QED BY <1>1, <2>5, <2>6, AtBlockIs
<1> QED BY <1>1, <1>2, <1>3, <1>4

(* The answer of a lapped reader's locate is a block, and never one before the cursor's. *)
LEMMA LapAnswer ==
  ASSUME ReaderInv, rpc = "lap_locate", NEW b \in 0..meta_head, Located(b)
  PROVE  /\ ~LocatedNone(b) /\ b \in Nat /\ b < meta_head /\ b < Len(log)
         /\ cursor.block <= b /\ pos < EndOf(Meta(b))
         /\ cursor.block < b => cursor.block < oldest_valid_block
<1>1. /\ LogInv /\ ReaderType /\ CursorInv /\ SearchInv /\ cursor.at /\ cursor.block < meta_head
      /\ search.sample = pos /\ (search.head > 0 => cursor.block < search.head)
  BY DEF ReaderInv, StageInv, LapInv, Lapping, SearchInv
<1>2. /\ pos \in Nat /\ cursor.block \in Nat /\ AtBlock(pos, cursor.block)
      /\ pos < EndOf(Meta(cursor.block)) /\ EndOf(Meta(cursor.block)) \in Nat
      /\ cursor.block < Len(log) /\ meta_head \in Nat
  BY <1>1, AtCommitted
<1>3. /\ search.head <= meta_head /\ search.lo <= oldest_valid_block
      /\ search.lo \in Nat /\ search.head \in Nat /\ search.head > 0
      /\ b <= search.head /\ b \in Nat
      /\ b = search.head => EndOf(Meta(search.head - 1)) <= pos
      /\ b # search.head => b < search.head /\ b < Len(log) /\ pos < EndOf(Meta(b))
      /\ \A c \in Nat : search.lo <= c /\ c < b => EndOf(Meta(c)) <= pos
  BY <1>1, LocatedIs
<1>4. b # search.head
  <2> SUFFICES ASSUME b = search.head PROVE FALSE
    OBVIOUS
  <2>1. (search.head - 1) + 1 = search.head /\ search.head \in 1..Len(log)
    BY <1>1, <1>3, LogTypes
  <2>2. EndOf(log[search.head]) <= pos
    BY <1>3, <2>1 DEF Meta
  <2>3. search.head <= cursor.block
    BY <1>2, <2>1, <2>2 DEF AtBlock
  <2> QED BY <1>1, <1>2, <1>3, <2>3
<1>5. cursor.block <= b
  <2>1. b + 1 \in 1..Len(log)
    BY <1>1, <1>3, <1>4, LogTypes
  <2>2. EndOf(log[b + 1]) \in Nat
    BY <1>1, <2>1, LogTypes
  <2>3. ~(EndOf(log[b + 1]) <= pos)
    BY <1>2, <1>3, <1>4, <2>2 DEF Meta
  <2>4. ~(b + 1 <= cursor.block)
    BY <1>2, <2>1, <2>3 DEF AtBlock
  <2> QED BY <1>2, <1>3, <2>4
<1>6. ASSUME cursor.block < b PROVE cursor.block < oldest_valid_block
  <2>1. ~(EndOf(Meta(cursor.block)) <= pos)
    BY <1>2
  <2>2. ~(search.lo <= cursor.block)
    BY <1>2, <1>3, <1>6, <2>1
  <2>3. oldest_valid_block \in Nat
    BY <1>1, LogTypes
  <2> QED BY <1>2, <1>3, <2>2, <2>3
<1>7. b < meta_head
  BY <1>2, <1>3, <1>4
<1> QED BY <1>3, <1>4, <1>5, <1>6, <1>7 DEF LocatedNone

LEMMA LapLocatedInv ==
  ASSUME ReaderInv, LapLocated
  PROVE  ReaderInv'
<1>1. /\ rpc = "lap_locate" /\ rpc \notin Away
      /\ UNCHANGED ringVars /\ UNCHANGED counters /\ UNCHANGED <<policy, start, unknown_gaps>>
  BY DEF LapLocated, KeepCounters, NoGhosts, writerVars, Away
<1>2. PICK b \in 0..meta_head :
        /\ Located(b)
        /\ IF Lossless(b)
           THEN /\ cursor' = At(pos, b, cursor.gaps)
                /\ Loop
           ELSE /\ GoTo(IF policy = "Latest" THEN "lap_head" ELSE "resync_oldest")
                /\ search' = NoSearch
                /\ UNCHANGED <<cursor, args, closed_seen, head_seen, oldest_seen>>
  BY DEF LapLocated
<1>3. /\ ~LocatedNone(b) /\ b \in Nat /\ b < meta_head /\ b < Len(log)
      /\ cursor.block <= b /\ pos < EndOf(Meta(b))
      /\ cursor.block < b => cursor.block < oldest_valid_block
  BY <1>1, <1>2, LapAnswer
<1>4. /\ LogInv /\ ReaderType /\ CursorInv /\ EveryIndexAccounted /\ LogInv'
      /\ cursor.at /\ cursor.block < meta_head /\ oldest_seen <= oldest_valid_sample
      /\ ResolveInv /\ StepInv /\ ClosedInv
  BY <1>1, SameLog DEF ReaderInv, StageInv, LapInv, Lapping
<1>5. pos \in Nat /\ cursor.gaps \in Nat /\ meta_head \in Nat /\ cursor.block \in Nat
  BY <1>4, LogTypes DEF ReaderType, pos
<1>6. CASE Lossless(b) /\ cursor' = At(pos, b, cursor.gaps) /\ Loop
  <2>1. AtBlock(pos, b)
    BY <1>3, <1>4, <1>6, LosslessIsAtBlock DEF Lossless
  <2>2. pos <= EndOf(log[meta_head]) /\ stream_start <= pos /\ start <= pos /\ meta_head > 0
    BY <1>4 DEF CursorInv, Stands, pos
  <2>3. Stands(cursor', start') /\ cursor'.at
    BY <1>1, <1>3, <1>5, <1>6, <2>1, <2>2 DEF Stands, At
  <2>4. Books(cursor', start', samples_read', lost_samples', gap_samples', shed_samples',
              unknown_gaps')
    BY <1>1, <1>4, <1>6 DEF Books, At, EveryIndexAccounted, counters
  <2>5. CursorInv' /\ EveryIndexAccounted'
    BY <1>1, <2>3, <2>4, MovedOnSameLog
  <2>6. /\ StageInv' /\ rpc' = "read" /\ args' \in [len : Nat, limit : Nat]
        /\ head_seen' \in Nat /\ oldest_seen' \in Nat
        /\ search' \in [sample : Nat, lo : Nat, head : Nat]
    BY <1>1, <1>6, Looped
  <2>7. cursor' \in [at : BOOLEAN, sample : Nat, block : Nat, gaps : Nat]
    BY <1>3, <1>5, <1>6 DEF At
  <2>8. ReaderType'
    BY <1>1, <1>4, <2>6, <2>7, CountersType DEF ReaderType
  <2> QED BY <1>4, <2>5, <2>6, <2>8 DEF ReaderInv
<1>7. CASE /\ ~Lossless(b)
           /\ GoTo(IF policy = "Latest" THEN "lap_head" ELSE "resync_oldest")
           /\ search' = NoSearch
           /\ UNCHANGED <<cursor, args, closed_seen, head_seen, oldest_seen>>
  <2>1. NextIsGone
    <3>1. CASE cursor.block < b
      BY <1>3, <3>1 DEF NextIsGone
    <3>2. CASE cursor.block = b
      <4> DEFINE first == Meta(b).first_sample
      <4>1. /\ first \in Nat /\ EndOf(Meta(b)) \in Nat /\ Meta(b).gaps_total \in Nat
            /\ first < EndOf(Meta(b))
        <5>1. b + 1 \in 1..Len(log)
          BY <1>3, LogTypes
        <5> QED BY <1>4, <5>1, LogTypes DEF Meta
      <4>2. pos < first => Meta(b).gaps_total - cursor.gaps = first - pos
        <5> SUFFICES ASSUME pos < first PROVE Meta(b).gaps_total - cursor.gaps = first - pos
          OBVIOUS
        <5>1. AtBlock(pos, b)
          BY <1>4, <3>2, AtCommitted
        <5>2. pos <= first /\ first <= first /\ first <= EndOf(Meta(b))
          BY <1>5, <4>1
        <5>3. Cardinality(GapIndices(pos, first)) = first - pos
          BY <1>3, <1>4, <1>5, <4>1, <5>1, <5>2, NextBlock DEF Meta
        <5>4. Meta(b).gaps_total = cursor.gaps + Cardinality(GapIndices(pos, first))
          BY <1>3, <1>4, <4>1, <5>2, SkippedGapIs
        <5> HIDE DEF first
        <5> QED BY <1>5, <4>1, <5>3, <5>4
      <4>3. MaxOf(pos, first) = From
        BY <3>2 DEF From
      <4>4. ~(From >= oldest_seen)
        <5>1. first <= pos \/ pos < first
          BY <1>5, <4>1
        <5> HIDE DEF first
        <5>2. first = Meta(b).first_sample
          BY DEF first
        <5> QED BY <1>3, <1>7, <4>2, <4>3, <5>1, <5>2 DEF Lossless
      <4>5. From \in Nat /\ oldest_seen \in Nat /\ oldest_valid_sample \in Nat
        <5>1. From \in Nat
          BY <1>5, <4>1, <4>3 DEF MaxOf
        <5> QED BY <1>4, <5>1, LogTypes DEF ReaderType
      <4>6. From < oldest_valid_sample
        BY <1>4, <4>4, <4>5
      <4> QED BY <4>6 DEF NextIsGone, Overwritten
    <3> QED BY <1>3, <1>5, <3>1, <3>2
  <2>2. /\ rpc' = IF policy = "Latest" THEN "lap_head" ELSE "resync_oldest"
        /\ outcome' = outcome /\ search'.head = 0
        /\ search' \in [sample : Nat, lo : Nat, head : Nat]
    BY <1>7 DEF GoTo, NoSearch
  <2>3. /\ meta_head' = meta_head /\ NextIsGone' = NextIsGone /\ closed' = closed
    BY <1>1, <1>7, SameReads
  <2>4. args.len > 0 /\ outcome # "Closed" /\ (closed_seen \in BOOLEAN /\ (closed_seen => closed))
    BY <1>1, <1>4 DEF StepInv, ClosedInv, Away
  <2>5. ResolveInv' /\ StepInv'
    BY <1>7, <2>2, <2>4 DEF ResolveInv, Resolving, StepInv, Stepping
  <2>6. LapInv'
    BY <1>1, <1>4, <1>7, <2>1, <2>2, <2>3 DEF LapInv, Lapping, Resyncing
  <2>7. SearchInv'
    BY <2>2 DEF SearchInv
  <2>8. ClosedInv'
    BY <1>7, <2>2, <2>3, <2>4 DEF ClosedInv
  <2>9. ReaderType'
    <3>1. rpc' \in Lapping
      BY <2>2 DEF Lapping, Resyncing
    <3> QED BY <1>1, <1>4, <1>7, <2>2, <3>1, CountersType DEF ReaderType
  <2>10. CursorInv' /\ EveryIndexAccounted'
    BY <1>1, <1>4, <1>7, Stayed
  <2> QED BY <1>4, <2>5, <2>6, <2>7, <2>8, <2>9, <2>10 DEF ReaderInv, StageInv
<1> QED BY <1>2, <1>6, <1>7

LEMMA LapNewestInv ==
  ASSUME ReaderInv, LapNewest
  PROVE  ReaderInv'
<1> DEFINE b == head_seen - 1
           first == Meta(b).first_sample
<1>1. /\ rpc = "lap_newest" /\ rpc \in {"lap_newest", "resync_locate"} /\ rpc \notin Away
      /\ UNCHANGED ringVars /\ UNCHANGED <<policy, start, unknown_gaps>>
  BY DEF LapNewest, NoGhosts, writerVars, Away
<1>2. /\ LogInv /\ ReaderType /\ CursorInv /\ cursor.at /\ cursor.block < meta_head /\ NextIsGone
      /\ policy = "Latest" /\ head_seen \in 1..meta_head /\ cursor.block < head_seen
      /\ SearchInv /\ StepInv /\ ClosedInv /\ LogInv'
  BY <1>1, SameLog DEF ReaderInv, StageInv, LapInv, Lapping, Resyncing
<1>3. /\ pos \in Nat /\ cursor.block \in Nat /\ AtBlock(pos, cursor.block)
      /\ cursor.block + 1 \in 1..Len(log) /\ meta_head \in Nat
      /\ pos < EndOf(log[cursor.block + 1]) /\ EndOf(log[cursor.block + 1]) \in Nat
  BY <1>2, AtCommitted DEF Meta
<1>4. /\ b \in Nat /\ b < meta_head /\ b + 1 \in 1..Len(log) /\ cursor.block <= b
      /\ b + 1 = head_seen
  BY <1>2, <1>3, LogTypes
<1>5. first \in Nat /\ first < EndOf(Meta(b)) /\ first <= first
  BY <1>2, <1>4, LogTypes DEF Meta
<1>6. first <= pos => AtBlock(pos, b)
  <2> SUFFICES ASSUME first <= pos PROVE cursor.block = b
    BY <1>3
  <2> SUFFICES ASSUME cursor.block < b PROVE FALSE
    BY <1>3, <1>4
  <2>1. cursor.block + 1 < b + 1
    BY <1>3, <1>4
  <2>2. EndOf(log[cursor.block + 1]) <= first
    BY <1>2, <1>3, <1>4, <2>1, BlocksInOrder DEF Meta
  <2> QED BY <1>3, <1>5, <2>2
<1>7. CASE HasMeta(b) /\ Resync(b, first)
  <2> HIDE DEF b, first
  <2>1. first = Meta(b).first_sample
    BY DEF first
  <2>2. \A t \in Nat : t = first => ReaderInv'
    BY <1>1, <1>4, <1>5, <1>6, <1>7, <2>1, ResyncInv
  <2> QED BY <1>5, <2>2
<1>8. CASE GoTo("lap_head") /\ UNCHANGED <<cursor, counters, frame>>
  <2>1. /\ rpc' = "lap_head" /\ outcome' = outcome
        /\ UNCHANGED <<args, closed_seen, head_seen, oldest_seen, search>>
        /\ UNCHANGED cursor /\ UNCHANGED counters
    BY <1>8 DEF GoTo, frame
  <2>2. /\ meta_head' = meta_head /\ NextIsGone' = NextIsGone /\ closed' = closed
    BY <1>1, <2>1, SameReads
  <2>3. /\ args.len > 0 /\ outcome # "Closed" /\ (closed_seen \in BOOLEAN /\ (closed_seen => closed))
        /\ ~(search.head > 0)
    BY <1>1, <1>2 DEF StepInv, ClosedInv, Away, SearchInv, Locating
  <2>4. ResolveInv' /\ StepInv'
    BY <2>1, <2>3 DEF ResolveInv, Resolving, StepInv, Stepping
  <2>5. LapInv'
    BY <1>1, <1>2, <2>1, <2>2 DEF LapInv, Lapping, Resyncing
  <2>6. SearchInv' /\ ClosedInv'
    BY <2>1, <2>2, <2>3 DEF SearchInv, ClosedInv
  <2>7. ReaderType'
    <3>1. rpc' \in Lapping
      BY <2>1 DEF Lapping, Resyncing
    <3> QED BY <1>1, <1>2, <2>1, <3>1, CountersType DEF ReaderType
  <2>8. CursorInv' /\ EveryIndexAccounted'
    BY <1>1, <2>1, Stayed DEF ReaderInv
  <2> QED BY <1>2, <2>4, <2>5, <2>6, <2>7, <2>8 DEF ReaderInv, StageInv
<1> QED BY <1>7, <1>8 DEF LapNewest

(* The block a resync under Oldest goes to holds the sample it aims at. *)
LEMMA ResyncLocatedInv ==
  ASSUME ReaderInv, ResyncLocated
  PROVE  ReaderInv'
<1>1. /\ rpc = "resync_locate" /\ rpc \in {"lap_newest", "resync_locate"} /\ rpc \notin Away
      /\ UNCHANGED ringVars /\ UNCHANGED <<policy, start, unknown_gaps>>
  BY DEF ResyncLocated, NoGhosts, writerVars, Away
<1>2. PICK b \in 0..meta_head :
        /\ Located(b)
        /\ \/ LocatedNone(b) /\ Nothing(FALSE, b) /\ UNCHANGED <<cursor, counters>>
           \/ ~LocatedNone(b) /\ Resync(b, MaxOf(Meta(b).first_sample, search.sample))
  BY DEF ResyncLocated
<1>3. /\ LogInv /\ ReaderType /\ CursorInv /\ cursor.at /\ cursor.block < meta_head /\ LogInv'
      /\ SearchInv /\ pos <= search.sample
  BY <1>1, SameLog DEF ReaderInv, StageInv, LapInv, Lapping, Resyncing, SearchInv
<1>4. CASE LocatedNone(b) /\ Nothing(FALSE, b) /\ UNCHANGED <<cursor, counters>>
  <2>1. /\ StageInv' /\ rpc' = "idle" /\ args' \in [len : Nat, limit : Nat]
        /\ head_seen' \in Nat /\ oldest_seen' \in Nat
        /\ search' \in [sample : Nat, lo : Nat, head : Nat]
    <3>1. Return("Empty")
      BY <1>4 DEF Nothing
    <3> QED BY <3>1, Returned
  <2>2. UNCHANGED cursor /\ UNCHANGED counters
    BY <1>4
  <2>3. ReaderType'
    BY <1>1, <1>3, <2>1, <2>2, CountersType DEF ReaderType, Away
  <2>4. CursorInv' /\ EveryIndexAccounted'
    BY <1>1, <2>2, Stayed DEF ReaderInv
  <2> QED BY <1>3, <2>1, <2>3, <2>4 DEF ReaderInv
<1>5. CASE ~LocatedNone(b) /\ Resync(b, MaxOf(Meta(b).first_sample, search.sample))
  <2> DEFINE first == Meta(b).first_sample
             target == MaxOf(first, search.sample)
  <2>1. /\ b \in Nat /\ b < search.head /\ search.head <= meta_head /\ b < Len(log)
        /\ search.sample < EndOf(Meta(b)) /\ search.sample \in Nat /\ search.head \in Nat
    BY <1>2, <1>3, <1>5, LocatedIs DEF LocatedNone
  <2>2. pos \in Nat /\ meta_head \in Nat /\ b < meta_head /\ b + 1 \in 1..Len(log)
    BY <1>3, <2>1, LogTypes DEF ReaderType, pos
  <2>3. first \in Nat /\ first < EndOf(Meta(b)) /\ EndOf(Meta(b)) \in Nat
    BY <1>3, <2>2, LogTypes DEF Meta
  <2> HIDE DEF first
  <2>4. target \in Nat /\ first <= target /\ target < EndOf(Meta(b))
    BY <2>1, <2>3 DEF MaxOf
  <2>5. target <= pos => first <= pos /\ pos < EndOf(Meta(b))
    BY <1>3, <2>1, <2>2, <2>3 DEF MaxOf
  <2>6. target <= pos => AtBlock(pos, b)
    <3> SUFFICES ASSUME target <= pos PROVE AtBlock(pos, b)
      OBVIOUS
    <3>1. log[b + 1].first_sample <= pos /\ pos < EndOf(log[b + 1]) /\ pos <= EndOf(log[b + 1])
      BY <2>2, <2>3, <2>5 DEF first, Meta
    <3> QED BY <1>3, <2>1, <2>2, <3>1, InBlock
  <2>7. Resync(b, target) /\ first = Meta(b).first_sample
    BY <1>5 DEF first
  <2> HIDE DEF target
  <2> QED BY <1>1, <2>1, <2>2, <2>4, <2>6, <2>7, ResyncInv
<1> QED BY <1>2, <1>4, <1>5

LEMMA ShedToLatestInv ==
  ASSUME ReaderInv, ShedToLatest
  PROVE  ReaderInv'
<1> DEFINE b == head_seen - 1
           first == Meta(b).first_sample
           g == SkippedGap(b, first)
           sheds == HasMeta(b) /\ first > pos
<1>1. /\ rpc = "shed" /\ UNCHANGED ringVars
      /\ UNCHANGED <<policy, samples_read, lost_samples, start, unknown_gaps>>
      /\ cursor' = IF sheds THEN At(first, b, Meta(b).gaps_total) ELSE cursor
      /\ gap_samples' = IF sheds THEN gap_samples + g ELSE gap_samples
      /\ shed_samples' = IF sheds THEN shed_samples + ((first - pos) - g) ELSE shed_samples
      /\ Return("Shed")
  BY DEF ShedToLatest, NoGhosts, writerVars
<1>2. /\ LogInv /\ ReaderType /\ CursorInv /\ EveryIndexAccounted /\ LogInv'
      /\ cursor.at /\ head_seen \in 1..meta_head
  BY <1>1, SameLog DEF ReaderInv, StageInv, LapInv
<1>3. /\ pos \in Nat /\ cursor.gaps \in Nat
      /\ samples_read \in Nat /\ lost_samples \in Nat /\ shed_samples \in Nat
  BY <1>2 DEF ReaderType, pos
<1>4. /\ b \in Nat /\ b < meta_head /\ b + 1 \in 1..Len(log) /\ b < Len(log)
      /\ b <= meta_head /\ meta_head \in Nat /\ meta_head \in 1..Len(log) /\ b + 1 <= meta_head
  BY <1>2, LogTypes
<1>5. first \in Nat /\ first < EndOf(Meta(b)) /\ EndOf(Meta(b)) \in Nat
      /\ EndOf(Meta(b)) <= EndOf(log[meta_head]) /\ EndOf(log[meta_head]) \in Nat
  BY <1>2, <1>4, LogTypes, BlocksInOrder DEF Meta
<1>6. /\ StageInv' /\ rpc' = "idle" /\ args' \in [len : Nat, limit : Nat]
      /\ head_seen' \in Nat /\ oldest_seen' \in Nat
      /\ search' \in [sample : Nat, lo : Nat, head : Nat]
  BY <1>1, Returned
<1>7. CASE ~sheds
  <2>1. UNCHANGED cursor /\ UNCHANGED counters
    BY <1>1, <1>7 DEF counters
  <2>2. ReaderType'
    BY <1>1, <1>2, <1>6, <2>1, CountersType DEF ReaderType, Away
  <2>3. CursorInv' /\ EveryIndexAccounted'
    BY <1>1, <1>2, <2>1, Stayed
  <2> QED BY <1>2, <1>6, <2>2, <2>3 DEF ReaderInv
<1>8. CASE sheds
  <2>1. /\ g = Cardinality(GapIndices(pos, first))
        /\ Meta(b).gaps_total = cursor.gaps + Cardinality(GapIndices(pos, first))
    <3>1. first <= first /\ first <= EndOf(Meta(b)) /\ pos < first
      BY <1>3, <1>5, <1>8
    <3> QED BY <1>2, <1>4, <1>5, <3>1, SkippedGapIs
  <2>2. g \in Nat /\ g <= first - pos /\ pos <= first
    <3>1. pos <= first
      BY <1>3, <1>5, <1>8
    <3> HIDE DEF first, g
    <3> QED BY <1>3, <1>5, <2>1, <3>1, GapsFinite
  <2>3. AtBlock(first, b) /\ first <= EndOf(log[meta_head])
    <3>1. first < EndOf(log[b + 1]) /\ log[b + 1].first_sample <= first
          /\ first <= EndOf(log[b + 1])
      BY <1>5 DEF Meta
    <3>2. first <= EndOf(log[meta_head])
      BY <1>5
    <3> HIDE DEF b, first
    <3>3. \A q \in Nat : q = first => AtBlock(q, b)
      BY <1>2, <1>4, <1>5, <3>1, InBlock
    <3> QED BY <1>5, <3>2, <3>3
  <2>4. /\ cursor' = At(first, b, cursor.gaps + g)
        /\ shed_samples' = shed_samples + ((first - pos) - g)
        /\ gap_samples' = gap_samples + g
        /\ UNCHANGED <<samples_read, lost_samples>>
    BY <1>1, <1>8, <2>1
  <2> HIDE DEF g, first, b
  <2>5. /\ samples_read' \in Nat /\ lost_samples' \in Nat /\ shed_samples' \in Nat
        /\ samples_read' + lost_samples' + shed_samples'
             = samples_read + lost_samples + shed_samples + (first - pos) - g
    BY <1>3, <1>5, <2>2, <2>4
  <2>6. /\ CursorInv' /\ EveryIndexAccounted'
        /\ cursor' \in [at : BOOLEAN, sample : Nat, block : Nat, gaps : Nat]
        /\ gap_samples' \in Nat
    <3>1. UNCHANGED ringVars /\ UNCHANGED <<start, unknown_gaps>>
      BY <1>1
    <3> QED BY <1>2, <1>4, <1>5, <2>1, <2>2, <2>3, <2>4, <2>5, <3>1, MovesOn
  <2>7. ReaderType'
    BY <1>1, <1>2, <1>6, <2>5, <2>6 DEF ReaderType, Away
  <2> QED BY <1>2, <1>6, <2>6, <2>7 DEF ReaderInv
<1> QED BY <1>7, <1>8

-----------------------------------------------------------------------------
(* Waiting, and being notified *)

LEMMA Idles ==
  ASSUME ReaderInv,
         UNCHANGED <<ringVars, cursor, counters, policy, frame, start, unknown_gaps>>,
         rpc \in Away \ {"detached", "shed"}, rpc' \in Away \ {"detached", "shed"},
         outcome' = "none" \/ (outcome' = outcome /\ rpc # "idle")
  PROVE  ReaderInv'
<1>1. /\ UNCHANGED ringVars /\ UNCHANGED counters
      /\ UNCHANGED <<ringVars, cursor, counters, start, unknown_gaps>>
      /\ UNCHANGED <<cursor, policy, start, unknown_gaps>>
      /\ UNCHANGED <<args, closed_seen, head_seen, oldest_seen, search>>
  BY DEF frame
<1>2. /\ LogInv /\ ReaderType /\ CursorInv /\ EveryIndexAccounted /\ LogInv'
      /\ SearchInv /\ ClosedInv
  BY <1>1, SameLog DEF ReaderInv, StageInv
<1>3. ~(search.head > 0) /\ closed' = closed
  BY <1>1, <1>2 DEF SearchInv, Locating, Away, ringVars
<1>4. ResolveInv' /\ StepInv' /\ LapInv'
  BY DEF ResolveInv, Resolving, StepInv, Stepping, LapInv, Lapping, Resyncing, Away
<1>5. SearchInv'
  BY <1>1, <1>3 DEF SearchInv, Away
<1>6. ClosedInv'
  BY <1>1, <1>2, <1>3 DEF ClosedInv
<1>7. ReaderType'
  BY <1>1, <1>2, CountersType DEF ReaderType
<1>8. CursorInv' /\ EveryIndexAccounted'
  BY <1>1, <1>2, Stayed
<1> QED BY <1>2, <1>4, <1>5, <1>6, <1>7, <1>8 DEF ReaderInv, StageInv

LEMMA WaitInv ==
  ASSUME ReaderInv, BeginWait \/ WaitStep \/ SliceEnds
  PROVE  ReaderInv'
<1>1. UNCHANGED <<ringVars, cursor, counters, policy, frame, start, unknown_gaps>>
  BY DEF BeginWait, WaitStep, WaitHead, WaitClosed, Park, SliceEnds, waitFrame, writerVars
<1>2. /\ rpc \in Away \ {"detached", "shed"} /\ rpc' \in Away \ {"detached", "shed"}
      /\ outcome' = "none" \/ (outcome' = outcome /\ rpc # "idle")
  BY DEF BeginWait, WaitStep, WaitHead, WaitClosed, Park, SliceEnds, Away
<1> QED BY <1>1, <1>2, Idles

(* A step that changes neither the log nor the reader. *)
LEMMA Unmoved ==
  ASSUME ReaderInv, UNCHANGED ringVars,
         UNCHANGED <<cursor, counters, policy, frame, rpc, outcome, start, unknown_gaps>>
  PROVE  ReaderInv'
<1>1. /\ UNCHANGED counters
      /\ UNCHANGED <<ringVars, cursor, counters, start, unknown_gaps>>
      /\ UNCHANGED <<cursor, policy, start, unknown_gaps, rpc, outcome>>
      /\ UNCHANGED <<args, closed_seen, head_seen, oldest_seen, search>>
  BY DEF frame
<1>2. /\ LogInv /\ ReaderType /\ CursorInv /\ EveryIndexAccounted /\ LogInv'
      /\ ResolveInv /\ StepInv /\ LapInv /\ SearchInv /\ ClosedInv
  BY SameLog DEF ReaderInv, StageInv
<1>3. /\ log' = log /\ meta_head' = meta_head /\ closed' = closed
      /\ oldest_valid_sample' = oldest_valid_sample
      /\ oldest_valid_block' = oldest_valid_block
      /\ stream_start' = stream_start /\ StreamEnd' = StreamEnd
      /\ pos' = pos /\ From' = From /\ NextIsGone' = NextIsGone
  BY <1>1, SameReads
<1>4. ResolveInv'
  BY <1>1, <1>2, <1>3 DEF ResolveInv, Meta, EndOf
<1>5. StepInv'
  BY <1>1, <1>2, <1>3 DEF StepInv
<1>6. LapInv'
  BY <1>1, <1>2, <1>3 DEF LapInv
<1>7. SearchInv' /\ ClosedInv'
  BY <1>1, <1>2, <1>3 DEF SearchInv, ClosedInv
<1>8. ReaderType'
  BY <1>1, <1>2, CountersType DEF ReaderType
<1>9. CursorInv' /\ EveryIndexAccounted'
  BY <1>1, <1>2, Stayed
<1> QED BY <1>2, <1>4, <1>5, <1>6, <1>7, <1>8, <1>9 DEF ReaderInv, StageInv

LEMMA NotifyInv ==
  ASSUME ReaderInv, PushNotifies \/ DropNotifies
  PROVE  ReaderInv'
<1>1. /\ UNCHANGED ringVars
      /\ UNCHANGED <<cursor, counters, policy, frame, outcome, start, unknown_gaps>>
      /\ rpc' = rpc \/ (rpc = "parked" /\ rpc' = "idle")
  BY DEF PushNotifies, DropNotifies, Notify
<1>2. CASE rpc' = rpc
  BY <1>1, <1>2, Unmoved
<1>3. CASE rpc = "parked" /\ rpc' = "idle"
  <2>1. rpc \in Away \ {"detached", "shed"} /\ rpc' \in Away \ {"detached", "shed"}
    BY <1>3 DEF Away
  <2> QED BY <1>1, <1>3, <2>1, Idles
<1> QED BY <1>1, <1>2, <1>3

-----------------------------------------------------------------------------
(* The writer *)

(* A block announced at or after hi changes nothing below hi. *)
LEMMA GapsKept ==
  ASSUME NEW lo \in Nat, NEW hi \in Nat, log \in Seq(Block), NEW m \in Block,
         log' = Append(log, m), hi <= m.first_sample
  PROVE  GapIndices(lo, hi)' = GapIndices(lo, hi)
<1>1. /\ Len(log') = Len(log) + 1 /\ Len(log) \in Nat
      /\ \A b \in 1..Len(log) : log'[b] = log[b]
      /\ log'[Len(log) + 1] = m
      /\ DOMAIN log = 1..Len(log) /\ DOMAIN log' = 1..(Len(log) + 1)
  OBVIOUS
<1>2. ASSUME NEW i \in lo..(hi - 1)
      PROVE  Produced(i)' <=> Produced(i)
  <2>1. ~(i >= m.first_sample)
    <3>1. m.first_sample \in Nat
      BY DEF Block
    <3> QED BY <3>1
  <2>2. \A b \in DOMAIN log' : b = Len(log) + 1 \/ b \in DOMAIN log
    BY <1>1
  <2>3. \A b \in DOMAIN log : b \in DOMAIN log' /\ log'[b] = log[b]
    BY <1>1
  <2> QED BY <1>1, <2>1, <2>2, <2>3 DEF Produced, EndOf
<1> QED BY <1>2 DEF GapIndices

(* What a push that is accepted announces. *)
LEMMA AnnouncedBlock ==
  ASSUME LogInv, NEW first \in 0..MaxIndex, NEW n \in BlockLens, NEW p \in Provenances,
         AnnounceRecord(first, n, p)
  PROVE  \E m \in Block :
           /\ log' = Append(log, m) /\ m.first_sample = first /\ m.len = n
           /\ m.gaps_total = GapsBefore(first)
           /\ n > 0 /\ n \in Nat /\ first \in Nat /\ first + n <= MaxIndex
           /\ \A b \in 1..Len(log) : EndOf(log[b]) <= first
           /\ log # <<>> =>
                /\ Len(log) \in 1..Len(log)
                /\ GapsBefore(first)
                     = log[Len(log)].gaps_total + (first - EndOf(log[Len(log)]))
           /\ log = <<>> => GapsBefore(first) = 0
<1> DEFINE m == [first_sample |-> first, len |-> n, gaps_total |-> GapsBefore(first),
                 provenance |-> p]
<1>1. first \in Nat /\ n \in Nat /\ MaxIndex \in Nat /\ Len(log) \in Nat
  <2>1. MaxIndex \in Nat /\ BlockLens \subseteq Nat
    BY RingConfigAssumption
  <2>2. Len(log) \in Nat
    BY LogTypes
  <2> QED BY <2>1, <2>2
<1>2. log' = Append(log, m) /\ PushError(first, n, StreamEnd) = "Ok"
  BY DEF AnnounceRecord
<1>3. /\ n # 0 /\ ~(first + n > MaxIndex)
      /\ ~(StreamEnd # -1 /\ first < StreamEnd)
  BY <1>2 DEF PushError
<1>4. CASE log = <<>>
  <2>1. GapsBefore(first) = 0 /\ Len(log) = 0
    BY <1>4 DEF GapsBefore
  <2>2. m \in Block
    BY <1>1, <2>1 DEF Block
  <2>3. n > 0 /\ first + n <= MaxIndex
    BY <1>1, <1>3
  <2> QED BY <1>1, <1>2, <1>4, <2>1, <2>2, <2>3
<1>5. CASE log # <<>>
  <2> DEFINE last == log[Len(log)]
  <2>1. Len(log) \in 1..Len(log)
    <3>1. log \in Seq(Block)
      BY DEF LogInv, LogType
    <3> QED BY <1>1, <1>5, <3>1
  <2>2. EndOf(last) \in Nat /\ last.gaps_total \in Nat
    BY <2>1, LogTypes
  <2>3. StreamEnd = EndOf(last)
    BY <1>5 DEF StreamEnd
  <2>4. EndOf(last) <= first
    BY <1>1, <1>3, <2>2, <2>3
  <2>5. GapsBefore(first) = last.gaps_total + (first - EndOf(last))
    BY <1>5 DEF GapsBefore
  <2>6. GapsBefore(first) \in Nat
    <3> HIDE DEF last
    <3> QED BY <1>1, <2>2, <2>4, <2>5
  <2>7. m \in Block
    BY <1>1, <2>6 DEF Block
  <2>8. ASSUME NEW b \in 1..Len(log) PROVE EndOf(log[b]) <= first
    <3>1. EndOf(log[b]) <= EndOf(last) /\ EndOf(log[b]) \in Nat
      BY <1>1, <2>1, BlocksInOrder, LogTypes
    <3> HIDE DEF last
    <3> QED BY <1>1, <2>2, <2>4, <3>1
  <2>9. n > 0 /\ first + n <= MaxIndex
    BY <1>1, <1>3
  <2> QED BY <1>1, <1>2, <1>5, <2>1, <2>5, <2>7, <2>8, <2>9
<1> QED BY <1>4, <1>5

(* What any step of the writer keeps of what a reader has seen. *)
WriterKeeps ==
  /\ Len(log) <= Len(log') /\ meta_head <= meta_head'
  /\ \A b \in 1..Len(log) : log'[b] = log[b]
  /\ \A b \in 1..Len(log'), a \in 1..Len(log) : b > Len(log) => EndOf(log[a]) <= log'[b].first_sample
  /\ oldest_valid_block <= oldest_valid_block' /\ oldest_valid_sample <= oldest_valid_sample'
  /\ ~closed
  /\ \A a \in 1..Len(log) : \A lo, hi \in Nat :
       hi <= EndOf(log[a]) => GapIndices(lo, hi)' = GapIndices(lo, hi)

LEMMA AnnounceKeeps ==
  ASSUME LogInv, NEW first \in 0..MaxIndex, NEW n \in BlockLens, NEW p \in Provenances,
         AnnounceRecord(first, n, p)
  PROVE  LogInv' /\ WriterKeeps
<1>1. PICK m \in Block :
        /\ log' = Append(log, m) /\ m.first_sample = first /\ m.len = n
        /\ m.gaps_total = GapsBefore(first)
        /\ n > 0 /\ n \in Nat /\ first \in Nat /\ first + n <= MaxIndex
        /\ \A b \in 1..Len(log) : EndOf(log[b]) <= first
        /\ log # <<>> =>
             /\ Len(log) \in 1..Len(log)
             /\ GapsBefore(first) = log[Len(log)].gaps_total + (first - EndOf(log[Len(log)]))
        /\ log = <<>> => GapsBefore(first) = 0
  BY AnnouncedBlock
<1>2. /\ phase = "idle" /\ ~closed /\ phase' = "recording"
      /\ UNCHANGED <<sample_write_end, sample_commit_end, meta_head, closed>>
  BY DEF AnnounceRecord
<1>3. /\ log \in Seq(Block) /\ Len(log) = meta_head /\ meta_head \in Nat /\ Len(log) \in Nat
      /\ sample_write_end \in Nat /\ sample_commit_end \in Nat /\ closed \in BOOLEAN
  BY <1>2 DEF LogInv, LogType
<1>4. /\ log' \in Seq(Block) /\ Len(log') = Len(log) + 1
      /\ \A b \in 1..Len(log) : log'[b] = log[b]
      /\ log'[Len(log) + 1] = m
  BY <1>1, <1>3
<1>5. \A b \in 1..Len(log') : b = Len(log) + 1 \/ b \in 1..Len(log)
  BY <1>3, <1>4
<1>6. EndOf(m) = first + n
  BY <1>1 DEF EndOf
<1>7. /\ Len(log) + 1 \in 1..Len(log') /\ 1 \in 1..Len(log')
      /\ log # <<>> => 1 \in 1..Len(log)
  BY <1>1, <1>3, <1>4
<1>8. LogType'
  BY <1>2, <1>3, <1>4 DEF LogType
<1>9. LogOrder'
  <2>1. ASSUME NEW b \in 1..Len(log') PROVE log'[b].len > 0 /\ (EndOf(log'[b]) <= MaxIndex)
    <3>1. CASE b \in 1..Len(log)
      BY <1>4, <3>1 DEF LogInv, LogOrder
    <3>2. CASE b = Len(log) + 1
      BY <1>1, <1>4, <1>6, <3>2
    <3> QED BY <1>5, <3>1, <3>2
  <2>2. ASSUME NEW a \in 1..Len(log'), NEW b \in 1..Len(log'), a < b
        PROVE  EndOf(log'[a]) <= log'[b].first_sample
    <3>1. a \in 1..Len(log)
      BY <1>3, <1>4, <2>2
    <3>2. CASE b \in 1..Len(log)
      BY <1>4, <2>2, <3>1, <3>2 DEF LogInv, LogOrder
    <3>3. CASE b = Len(log) + 1
      BY <1>1, <1>4, <3>1, <3>3
    <3> QED BY <1>5, <3>2, <3>3
  <2> QED BY <2>1, <2>2 DEF LogOrder, EndOf
<1>10. ASSUME NEW lo \in Nat, NEW hi \in Nat, hi <= first
       PROVE  GapIndices(lo, hi)' = GapIndices(lo, hi)
  BY <1>1, <1>3, <1>10, GapsKept
<1>11. ASSUME NEW a \in 1..Len(log), NEW lo \in Nat, NEW hi \in Nat, hi <= EndOf(log[a])
       PROVE  GapIndices(lo, hi)' = GapIndices(lo, hi)
  <2>1. hi <= first
    BY <1>1, <1>11, LogTypes
  <2> QED BY <1>10, <2>1
<1>12. LogGaps'
  <2> SUFFICES ASSUME NEW b \in 1..Len(log')
               PROVE  (log[b].gaps_total
                         = Cardinality(GapIndices(stream_start, log[b].first_sample)))'
    BY DEF LogGaps
  <2>1. CASE b \in 1..Len(log)
    <3>1. log # <<>>
      BY <1>3, <2>1
    <3>2. stream_start' = stream_start /\ log'[b] = log[b] /\ stream_start \in Nat
      BY <1>4, <1>7, <2>1, <3>1, LogTypes DEF stream_start
    <3>3. log[b].first_sample \in Nat /\ log[b].first_sample <= EndOf(log[b])
      BY <2>1, LogTypes
    <3>4. \A lo, hi \in Nat :
            hi <= EndOf(log[b]) => GapIndices(lo, hi)' = GapIndices(lo, hi)
      BY <1>11, <2>1
    <3>5. log[b].gaps_total = Cardinality(GapIndices(stream_start, log[b].first_sample))
      BY <2>1 DEF LogInv, LogGaps
    <3> QED BY <3>2, <3>3, <3>4, <3>5
  <2>2. CASE b = Len(log) + 1 /\ log = <<>>
    <3>1. b = 1 /\ log'[1] = m
      BY <1>3, <1>4, <2>2
    <3>2. stream_start' = first
      BY <1>1, <3>1 DEF stream_start
    <3>3. \A lo, hi \in Nat : lo = first /\ hi = first => GapIndices(lo, hi)' = {}
      BY DEF GapIndices
    <3>4. Cardinality({}) = 0
      BY FS_EmptySet
    <3> QED BY <1>1, <2>2, <3>1, <3>2, <3>3, <3>4
  <2>3. CASE b = Len(log) + 1 /\ log # <<>>
    <3> DEFINE last == log[Len(log)]
               e == EndOf(last)
    <3>1. /\ Len(log) \in 1..Len(log) /\ e \in Nat /\ last.gaps_total \in Nat
          /\ last.first_sample <= e /\ e <= first
      BY <1>1, <2>3, LogTypes
    <3>2. /\ stream_start \in Nat /\ stream_start <= e
          /\ Cardinality(GapIndices(stream_start, e)) = last.gaps_total
      <4>1. e <= EndOf(last)
        BY <3>1
      <4> QED BY <3>1, <4>1, GapsAt
    <3>3. Cardinality(GapIndices(e, first)) = first - e
      <4>1. ASSUME NEW i \in e..(first - 1) PROVE ~Produced(i)
        <5>1. ASSUME NEW c \in 1..Len(log) PROVE ~(i < EndOf(log[c]))
          <6>1. EndOf(log[c]) <= e /\ EndOf(log[c]) \in Nat
            BY <1>3, <3>1, BlocksInOrder, LogTypes
          <6> HIDE DEF e
          <6> QED BY <1>1, <3>1, <6>1
        <5>2. DOMAIN log = 1..Len(log)
          BY <1>3
        <5> QED BY <5>1, <5>2 DEF Produced
      <4> QED BY <1>1, <3>1, <4>1, GapsAll
    <3>4. Cardinality(GapIndices(stream_start, first))
            = Cardinality(GapIndices(stream_start, e)) + Cardinality(GapIndices(e, first))
      BY <1>1, <3>1, <3>2, GapsSplit
    <3>5. m.gaps_total = Cardinality(GapIndices(stream_start, first))
      <4>1. m.gaps_total = last.gaps_total + (first - e)
        BY <1>1, <2>3
      <4> QED BY <3>2, <3>3, <3>4, <4>1
    <3>6. log'[b] = m /\ stream_start' = stream_start
      BY <1>4, <1>7, <2>3 DEF stream_start
    <3>7. \A lo, hi \in Nat : hi <= first => GapIndices(lo, hi)' = GapIndices(lo, hi)
      BY <1>10
    <3>8. first <= first
      BY <1>1
    <3> QED BY <1>1, <3>2, <3>5, <3>6, <3>7, <3>8
  <2> QED BY <1>5, <2>1, <2>2, <2>3
<1>13. LogCommits'
  <2>1. \A b \in 1..meta_head' : EndOf(log'[b]) <= sample_commit_end'
    BY <1>2, <1>3, <1>4 DEF LogInv, LogCommits
  <2>2. sample_write_end' <= EndOf(log'[Len(log')])
    <3>1. EndOf(log'[Len(log')]) = first + n
      BY <1>4, <1>6
    <3>2. CASE log = <<>>
      BY <1>1, <1>2, <1>3, <3>1, <3>2 DEF LogInv, LogCommits
    <3>3. CASE log # <<>>
      <4>1. EndOf(log[Len(log)]) <= first /\ EndOf(log[Len(log)]) \in Nat
        BY <1>1, <3>3, LogTypes
      <4>2. sample_write_end <= EndOf(log[Len(log)])
        BY <3>3 DEF LogInv, LogCommits
      <4> QED BY <1>1, <1>2, <1>3, <3>1, <4>1, <4>2
    <3> QED BY <3>2, <3>3
  <2>3. log' # <<>>
    BY <1>3, <1>4
  <2> QED BY <1>2, <2>1, <2>2, <2>3 DEF LogCommits, EndOf
<1>14. WriterKeeps
  <2>1. oldest_valid_block <= oldest_valid_block'
    BY <1>3, <1>4, RingConfigAssumption DEF oldest_valid_block, meta_write_end, SatSub
  <2>2. oldest_valid_sample <= oldest_valid_sample'
    <3>1. oldest_valid_sample' = oldest_valid_sample /\ oldest_valid_sample \in Nat
      BY <1>2, LogTypes DEF oldest_valid_sample
    <3> QED BY <3>1
  <2>3. \A b \in 1..Len(log'), a \in 1..Len(log) :
          b > Len(log) => EndOf(log[a]) <= log'[b].first_sample
    BY <1>1, <1>3, <1>4
  <2>4. Len(log) <= Len(log') /\ meta_head <= meta_head'
    BY <1>2, <1>3, <1>4
  <2>5. \A a \in 1..Len(log) : \A lo, hi \in Nat :
          hi <= EndOf(log[a]) => GapIndices(lo, hi)' = GapIndices(lo, hi)
    BY <1>11
  <2> QED BY <1>2, <1>4, <2>1, <2>2, <2>3, <2>4, <2>5 DEF WriterKeeps
<1> QED BY <1>8, <1>9, <1>12, <1>13, <1>14 DEF LogInv

LEMMA SatSubMonotone ==
  ASSUME NEW a \in Nat, NEW b \in Nat, NEW c \in Nat, a <= b
  PROVE  SatSub(a, c) <= SatSub(b, c)
  BY DEF SatSub

(* The other steps of the writer leave the blocks alone. *)
LEMMA CommitKeeps ==
  ASSUME LogInv, AnnounceSamples \/ CommitSamples \/ CommitHead \/ Close
  PROVE  LogInv' /\ WriterKeeps
<1>1. /\ log' = log /\ ~closed /\ log \in Seq(Block) /\ Len(log) \in Nat /\ meta_head \in Nat
      /\ sample_write_end \in Nat /\ sample_commit_end \in Nat
      /\ meta_head <= Len(log) /\ Len(log) <= meta_head + 1
      /\ Len(log) = IF phase = "idle" THEN meta_head ELSE meta_head + 1
      /\ closed => phase = "idle"
  BY LogTypes DEF AnnounceSamples, CommitSamples, CommitHead, Close, LogInv, LogType
<1>2. ASSUME phase # "idle"
      PROVE  /\ Len(log) \in 1..Len(log) /\ Len(log) = meta_head + 1 /\ log # <<>>
             /\ EndOf(log[Len(log)]) \in Nat
             /\ \A b \in 1..Len(log) : EndOf(log[b]) <= EndOf(log[Len(log)])
  <2>1. Len(log) \in 1..Len(log) /\ Len(log) = meta_head + 1 /\ log # <<>>
    BY <1>1, <1>2
  <2>2. EndOf(log[Len(log)]) \in Nat
    BY <2>1, LogTypes
  <2>3. \A b \in 1..Len(log) : EndOf(log[b]) <= EndOf(log[Len(log)])
    BY <1>1, <2>1, BlocksInOrder
  <2> QED BY <2>1, <2>2, <2>3
<1>3. LogOrder' /\ LogGaps'
  <2>1. LogOrder'
    BY <1>1 DEF LogInv, LogOrder, EndOf
  <2>2. stream_start' = stream_start
    BY <1>1 DEF stream_start
  <2>3. \A lo, hi : GapIndices(lo, hi)' = GapIndices(lo, hi)
    BY <1>1 DEF GapIndices, Produced, EndOf
  <2>4. LogGaps'
    BY <1>1, <2>2, <2>3 DEF LogInv, LogGaps
  <2> QED BY <2>1, <2>4
<1>4. LogType' /\ LogCommits' /\ meta_head <= meta_head' /\ sample_write_end <= sample_write_end'
      /\ sample_write_end' \in Nat
  <2>1. CASE AnnounceSamples
    <3>1. /\ phase = "recording" /\ phase' = "storing"
          /\ sample_write_end' = EndOf(log[Len(log)])
          /\ UNCHANGED <<log, sample_commit_end, meta_head, closed>>
      BY <2>1 DEF AnnounceSamples
    <3>2. LogType'
      BY <1>1, <1>2, <3>1 DEF LogInv, LogType
    <3>3. LogCommits'
      BY <1>1, <1>2, <3>1 DEF LogInv, LogCommits, EndOf
    <3>4. sample_write_end <= sample_write_end'
      BY <1>2, <3>1 DEF LogInv, LogCommits
    <3> QED BY <1>1, <1>2, <3>1, <3>2, <3>3, <3>4
  <2>2. CASE CommitSamples
    <3>1. /\ phase = "storing" /\ phase' = "committing"
          /\ sample_commit_end' = EndOf(log[Len(log)])
          /\ UNCHANGED <<log, sample_write_end, meta_head, closed>>
      BY <2>2 DEF CommitSamples
    <3>2. LogType'
      BY <1>1, <1>2, <3>1 DEF LogInv, LogType
    <3>3. LogCommits'
      <4>1. \A b \in 1..meta_head : b \in 1..Len(log)
        BY <1>1
      <4>2. \A b \in 1..meta_head : EndOf(log[b]) <= EndOf(log[Len(log)])
        BY <1>2, <3>1, <4>1
      <4>3. EndOf(log[Len(log)]) <= EndOf(log[Len(log)])
        BY <1>2, <3>1
      <4> QED BY <3>1, <4>2, <4>3 DEF LogInv, LogCommits, EndOf
    <3> QED BY <1>1, <3>1, <3>2, <3>3
  <2>3. CASE CommitHead
    <3>1. /\ phase = "committing" /\ phase' = "idle" /\ meta_head' = Len(log)
          /\ UNCHANGED <<log, sample_write_end, sample_commit_end, closed>>
      BY <2>3 DEF CommitHead
    <3>2. LogType'
      BY <1>1, <1>2, <3>1 DEF LogInv, LogType
    <3>3. \A b \in 1..Len(log) : EndOf(log[b]) <= sample_commit_end
      <4>1. EndOf(log[Len(log)]) <= sample_commit_end
        BY <3>1 DEF LogInv, LogCommits
      <4>2. \A b \in 1..Len(log) : EndOf(log[b]) \in Nat
        BY LogTypes
      <4> QED BY <1>1, <1>2, <3>1, <4>1, <4>2
    <3>4. LogCommits'
      BY <3>1, <3>3 DEF LogInv, LogCommits, EndOf
    <3> QED BY <1>1, <1>2, <3>1, <3>2, <3>4
  <2>4. CASE Close
    <3>1. /\ phase = "idle" /\ closed'
          /\ closed' \in BOOLEAN
          /\ UNCHANGED <<log, phase, sample_write_end, sample_commit_end, meta_head>>
      BY <2>4 DEF Close
    <3>2. LogType'
      BY <1>1, <3>1 DEF LogInv, LogType
    <3>3. LogCommits'
      BY <3>1 DEF LogInv, LogCommits, EndOf
    <3> QED BY <1>1, <3>1, <3>2, <3>3
  <2> QED BY <2>1, <2>2, <2>3, <2>4
<1>5. WriterKeeps
  <2>1. oldest_valid_block' = oldest_valid_block /\ oldest_valid_block \in Nat
    BY <1>1, LogTypes DEF oldest_valid_block, meta_write_end
  <2>2. oldest_valid_sample <= oldest_valid_sample'
    <3>1. SampleCap \in Nat
      BY RingConfigAssumption
    <3>2. SatSub(sample_write_end, SampleCap) <= SatSub(sample_write_end', SampleCap)
      BY <1>1, <1>4, <3>1, SatSubMonotone
    <3> QED BY <3>2 DEF oldest_valid_sample
  <2>3. \A b \in 1..Len(log) : ~(b > Len(log))
    BY <1>1
  <2>4. \A lo, hi : GapIndices(lo, hi)' = GapIndices(lo, hi)
    BY <1>1 DEF GapIndices, Produced, EndOf
  <2> QED BY <1>1, <1>4, <2>1, <2>2, <2>3, <2>4 DEF WriterKeeps
<1> QED BY <1>3, <1>4, <1>5 DEF LogInv

LEMMA WriterInv ==
  ASSUME LogInv, WriterNext
  PROVE  LogInv' /\ WriterKeeps
  BY AnnounceKeeps, CommitKeeps DEF WriterNext

(* A position, and the books at it, outlive any step of the writer. *)
LEMMA WritePosition ==
  ASSUME ReaderInv, Write
  PROVE  LogInv' /\ WriterKeeps /\ CursorInv' /\ EveryIndexAccounted'
<1>1. /\ UNCHANGED <<cursor, start, unknown_gaps>>
      /\ UNCHANGED <<samples_read, lost_samples, gap_samples, shed_samples>>
      /\ WriterNext
  BY DEF Write, readerVars
<1>2. LogInv /\ ReaderType /\ LogInv' /\ WriterKeeps
  BY <1>1, WriterInv DEF ReaderInv
<1>3. /\ pos' = pos /\ pos \in Nat /\ start \in Nat /\ cursor.block \in Nat
      /\ meta_head \in Nat /\ meta_head <= Len(log) /\ Len(log) \in Nat
      /\ meta_head' \in Nat /\ meta_head' <= Len(log') /\ Len(log') \in Nat
      /\ meta_head <= meta_head' /\ Len(log) <= Len(log')
  <2>1. pos' = pos /\ pos \in Nat /\ start \in Nat /\ cursor.block \in Nat
    BY <1>1, <1>2 DEF ReaderType, pos
  <2>2. meta_head \in Nat /\ meta_head <= Len(log) /\ Len(log) \in Nat
    BY <1>2, LogTypes
  <2>3. (LogInv => meta_head \in Nat /\ meta_head <= Len(log) /\ Len(log) \in Nat)'
    BY LogTypes, PTL
  <2> QED BY <1>2, <2>1, <2>2, <2>3 DEF WriterKeeps
<1>4. CASE ~cursor.at
  <2>1. ~cursor'.at
    BY <1>1, <1>4
  <2>2. EveryIndexAccounted'
    BY <2>1 DEF EveryIndexAccounted
  <2>3. NothingCounted /\ start = pos
    BY <1>4 DEF ReaderInv, CursorInv
  <2>4. NothingCounted'
    BY <1>1, <2>3 DEF NothingCounted
  <2>5. CursorInv'
    BY <1>1, <1>3, <2>1, <2>3, <2>4 DEF CursorInv
  <2> QED BY <1>2, <2>2, <2>5
<1>5. CASE cursor.at
  <2>1. /\ meta_head > 0 /\ cursor.block <= meta_head /\ AtBlock(pos, cursor.block)
        /\ start <= pos /\ stream_start <= pos /\ pos <= EndOf(log[meta_head])
    BY <1>5 DEF ReaderInv, CursorInv, Stands, pos
  <2>2. meta_head \in 1..Len(log) /\ 1 \in 1..Len(log)
    BY <1>3, <2>1
  <2>3. stream_start' = stream_start /\ stream_start \in Nat
    BY <1>2, <2>2, LogTypes DEF stream_start, WriterKeeps
  <2>4. \A lo, hi \in Nat : hi <= EndOf(log[meta_head]) =>
          GapIndices(lo, hi)' = GapIndices(lo, hi)
    BY <1>2, <2>2 DEF WriterKeeps
  <2>5. EveryIndexAccounted'
    BY <1>1, <1>3, <1>5, <2>1, <2>3, <2>4 DEF ReaderInv, EveryIndexAccounted
  <2>6. (LogInv => \A b \in 1..Len(log) :
           /\ log[b] \in Block
           /\ log[b].first_sample \in Nat /\ log[b].len \in Nat /\ log[b].gaps_total \in Nat
           /\ EndOf(log[b]) \in Nat /\ log[b].first_sample < EndOf(log[b]))'
    BY LogTypes, PTL
  <2>7. \A b \in 1..Len(log) : log'[b] = log[b] /\ EndOf(log'[b]) = EndOf(log[b])
    BY <1>2 DEF WriterKeeps, EndOf
  <2>8. EndOf(log[meta_head]) \in Nat
    BY <1>2, <2>2, LogTypes
  <2>9. ASSUME NEW b \in 1..Len(log') PROVE EndOf(log'[b]) <= pos <=> b <= cursor.block
    <3>1. CASE b \in 1..Len(log)
      BY <2>1, <2>7, <3>1 DEF AtBlock
    <3>2. CASE b > Len(log)
      <4>1. EndOf(log[meta_head]) <= log'[b].first_sample
        BY <1>2, <2>2, <3>2 DEF WriterKeeps
      <4>2. log'[b].first_sample \in Nat /\ EndOf(log'[b]) \in Nat
            /\ log'[b].first_sample < EndOf(log'[b])
        BY <1>2, <2>6 DEF EndOf
      <4>3. ~(EndOf(log'[b]) <= pos)
        BY <1>3, <2>1, <2>8, <4>1, <4>2
      <4> QED BY <1>3, <2>1, <3>2, <4>3
    <3> QED BY <1>3, <3>1, <3>2
  <2>10. pos <= EndOf(log'[meta_head'])
    <3>1. CASE meta_head' \in 1..Len(log)
      <4>1. EndOf(log[meta_head]) <= EndOf(log[meta_head']) /\ EndOf(log[meta_head']) \in Nat
        BY <1>2, <1>3, <2>2, <3>1, BlocksInOrder, LogTypes
      <4> QED BY <1>3, <2>1, <2>7, <2>8, <3>1, <4>1
    <3>2. CASE meta_head' > Len(log)
      <4>1. meta_head' \in 1..Len(log')
        BY <1>3, <3>2
      <4>2. EndOf(log[meta_head]) <= log'[meta_head'].first_sample
        BY <1>2, <2>2, <3>2, <4>1 DEF WriterKeeps
      <4>3. log'[meta_head'].first_sample \in Nat /\ EndOf(log'[meta_head']) \in Nat
            /\ log'[meta_head'].first_sample < EndOf(log'[meta_head'])
        BY <1>2, <2>6, <4>1 DEF EndOf
      <4> QED BY <1>3, <2>1, <2>8, <4>2, <4>3
    <3> QED BY <1>3, <2>1, <3>1, <3>2
  <2>11. meta_head' > 0 /\ cursor.block <= meta_head'
    BY <1>3, <2>1
  <2>12. CursorInv'
    BY <1>1, <1>3, <1>5, <2>1, <2>3, <2>9, <2>10, <2>11
       DEF CursorInv, Stands, AtBlock, pos, EndOf
  <2> QED BY <1>2, <2>5, <2>12
<1> QED BY <1>2, <1>4, <1>5

LEMMA WriteStages ==
  ASSUME ReaderInv, Write
  PROVE  StageInv' /\ ReaderType'
<1>1. /\ UNCHANGED <<cursor, policy, start, unknown_gaps, rpc, args, closed_seen, head_seen,
                     oldest_seen, search, outcome>>
      /\ UNCHANGED <<samples_read, lost_samples, gap_samples, shed_samples>>
  BY DEF Write, readerVars
<1>2. ReaderType'
  BY <1>1 DEF ReaderInv, ReaderType
<1>3. LogInv' /\ WriterKeeps
  BY WritePosition
<1>4. /\ LogInv /\ ReaderType /\ CursorInv
      /\ ResolveInv /\ StepInv /\ LapInv /\ SearchInv /\ ClosedInv
  BY DEF ReaderInv, StageInv
<1>5. /\ pos' = pos /\ pos \in Nat /\ cursor.block \in Nat
      /\ meta_head \in Nat /\ meta_head' \in Nat /\ meta_head <= meta_head' /\ meta_head <= Len(log)
      /\ Len(log) \in Nat
      /\ oldest_valid_block \in Nat /\ oldest_valid_block' \in Nat
      /\ oldest_valid_sample \in Nat /\ oldest_valid_sample' \in Nat
      /\ oldest_valid_block <= oldest_valid_block' /\ oldest_valid_sample <= oldest_valid_sample'
  <2>1. /\ meta_head \in Nat /\ meta_head <= Len(log) /\ Len(log) \in Nat
        /\ oldest_valid_sample \in Nat /\ oldest_valid_block \in Nat
    BY <1>4, LogTypes
  <2>2. (/\ meta_head \in Nat /\ oldest_valid_sample \in Nat /\ oldest_valid_block \in Nat)'
    <3>1. (LogInv => /\ meta_head \in Nat
                     /\ oldest_valid_sample \in Nat /\ oldest_valid_block \in Nat)'
      <4>1. LogInv => /\ meta_head \in Nat
                      /\ oldest_valid_sample \in Nat /\ oldest_valid_block \in Nat
        BY LogTypes
      <4> QED BY LogTypes, PTL
    <3> QED BY <1>3, <3>1
  <2>3. pos' = pos /\ pos \in Nat /\ cursor.block \in Nat
    BY <1>1, <1>4 DEF ReaderType, pos
  <2> QED BY <1>3, <2>1, <2>2, <2>3 DEF WriterKeeps
<1>6. \A c \in Nat : c < meta_head => log'[c + 1] = log[c + 1]
  <2>1. \A c \in Nat : c < meta_head => c + 1 \in 1..Len(log)
    BY <1>5
  <2> QED BY <1>3, <2>1 DEF WriterKeeps
<1>7. meta_head > 0 => stream_start' = stream_start
  <2>1. meta_head > 0 => 0 + 1 = 1 /\ 0 < meta_head
    BY <1>5
  <2> QED BY <1>6, <2>1 DEF stream_start
<1>8. cursor.block < meta_head => From' = From /\ (NextIsGone => NextIsGone')
  <2> SUFFICES ASSUME cursor.block < meta_head
               PROVE  From' = From /\ (NextIsGone => NextIsGone')
    OBVIOUS
  <2>1. From' = From
    BY <1>1, <1>5, <1>6 DEF From, Meta, MaxOf
  <2>2. cursor.at => From \in Nat
    <3> SUFFICES ASSUME cursor.at PROVE From \in Nat
      OBVIOUS
    <3>1. Meta(cursor.block).first_sample \in Nat
      BY <1>4, AtCommitted
    <3> QED BY <1>5, <3>1 DEF From, MaxOf
  <2>3. From \in Nat
    <3>1. cursor.block + 1 \in 1..Len(log)
      BY <1>5
    <3>2. Meta(cursor.block).first_sample \in Nat
      BY <1>4, <3>1, LogTypes DEF Meta
    <3> QED BY <1>5, <3>2 DEF From, MaxOf
  <2>4. Overwritten => Overwritten'
    BY <1>5, <2>1, <2>3 DEF Overwritten
  <2>5. cursor.block < oldest_valid_block => cursor'.block < oldest_valid_block'
    BY <1>1, <1>5
  <2> QED BY <2>1, <2>4, <2>5 DEF NextIsGone
<1>9. ResolveInv'
  <2>1. rpc \in {"detached"} \cup Resolving => ~cursor.at
    BY <1>4 DEF ResolveInv
  <2>2. rpc \in {"resolve_locate", "resolve_previous"} => meta_head' > 0 /\ pos > stream_start'
    BY <1>4, <1>5, <1>7 DEF ResolveInv
  <2>3. ASSUME rpc = "resolve_previous"
        PROVE  /\ head_seen \in 1..(meta_head' - 1)
               /\ pos < log'[head_seen + 1].first_sample
               /\ oldest_valid_block' <= head_seen - 1 => EndOf(log'[(head_seen - 1) + 1]) <= pos
    <3>1. /\ head_seen \in 1..(meta_head - 1) /\ pos < log[head_seen + 1].first_sample
          /\ oldest_valid_block <= head_seen - 1 => EndOf(log[(head_seen - 1) + 1]) <= pos
      BY <1>4, <2>3 DEF ResolveInv, Meta
    <3>2. /\ head_seen \in Nat /\ head_seen < meta_head
          /\ head_seen - 1 \in Nat /\ head_seen - 1 < meta_head
      <4>1. head_seen \in 1..(meta_head - 1) /\ meta_head \in Nat
        BY <1>5, <3>1
      <4> QED BY <4>1
    <3>3. log'[head_seen + 1] = log[head_seen + 1]
          /\ log'[(head_seen - 1) + 1] = log[(head_seen - 1) + 1]
      BY <1>6, <3>2
    <3>4. oldest_valid_block' <= head_seen - 1 => oldest_valid_block <= head_seen - 1
      BY <1>5, <3>2
    <3>5. head_seen \in 1..(meta_head' - 1)
      <4>1. meta_head \in Nat /\ meta_head' \in Nat /\ meta_head <= meta_head'
        BY <1>5
      <4>2. \A h \in Nat, n \in Nat, m \in Nat : h \in 1..(n - 1) /\ n <= m => h \in 1..(m - 1)
        OBVIOUS
      <4> QED BY <3>1, <3>2, <4>1, <4>2
    <3> QED BY <3>1, <3>3, <3>4, <3>5
  <2> QED BY <1>1, <1>5, <2>1, <2>2, <2>3 DEF ResolveInv, Meta, EndOf
<1>10. StepInv'
  <2>1. rpc \in Stepping \ {"step_head"} => cursor.block < meta_head'
    BY <1>4, <1>5 DEF StepInv
  <2>2. rpc \in {"step_copy", "step_provenance"} => From' < args.limit
    BY <1>4, <1>8 DEF StepInv, Stepping
  <2> QED BY <1>1, <1>4, <1>5, <2>1, <2>2 DEF StepInv
<1>11. LapInv'
  <2>1. rpc \in Lapping => cursor.at /\ cursor.block < meta_head /\ cursor.block < meta_head'
    BY <1>4, <1>5 DEF LapInv
  <2>2. rpc = "lap_locate" =>
          oldest_seen <= oldest_valid_sample' /\ (search.head > 0 => cursor.block < search.head)
    BY <1>4, <1>5 DEF LapInv, ReaderType
  <2>3. rpc \in Resyncing => NextIsGone'
    BY <1>4, <1>8, <2>1 DEF LapInv, Lapping
  <2>4. rpc \in {"lap_newest", "shed"} => cursor.at /\ head_seen \in 1..meta_head'
    BY <1>4, <1>5 DEF LapInv
  <2> QED BY <1>1, <1>4, <2>1, <2>2, <2>3, <2>4 DEF LapInv
<1>12. SearchInv'
  <2>1. search.sample \in Nat /\ search.lo \in Nat /\ search.head \in Nat
    BY <1>4 DEF ReaderType
  <2>2. rpc = "resync_locate" =>
          pos <= search.sample /\ (pos < search.sample => search.sample <= oldest_valid_sample')
    BY <1>4, <1>5, <2>1 DEF SearchInv
  <2>3. search.head > 0 => search.head <= meta_head' /\ search.lo <= oldest_valid_block'
    BY <1>4, <1>5, <2>1 DEF SearchInv
  <2> QED BY <1>1, <1>4, <1>5, <2>2, <2>3 DEF SearchInv
<1>13. ClosedInv'
  <2>1. ~closed
    BY <1>3 DEF WriterKeeps
  <2>2. ~closed_seen /\ outcome # "Closed" /\ closed_seen \in BOOLEAN
    BY <1>4, <2>1 DEF ClosedInv
  <2> QED BY <1>1, <2>2 DEF ClosedInv
<1> QED BY <1>2, <1>9, <1>10, <1>11, <1>12, <1>13 DEF StageInv

LEMMA WriteInv ==
  ASSUME ReaderInv, Write
  PROVE  ReaderInv'
  BY WritePosition, WriteStages DEF ReaderInv

-----------------------------------------------------------------------------
(* The invariant *)

LEMMA ReaderInit ==
  ASSUME Init
  PROVE  ReaderInv
<1> USE DEF Init, RingInit
<1>1. log \in Seq(Block) /\ Len(log) = 0
  OBVIOUS
<1>2. LogInv
  <2>1. LogType
    <3>1. /\ phase = "idle" /\ closed = FALSE
          /\ meta_head = 0 /\ sample_write_end = 0 /\ sample_commit_end = 0
      OBVIOUS
    <3>2. Len(log) = IF phase = "idle" THEN meta_head ELSE meta_head + 1
      BY <1>1, <3>1
    <3> HIDE DEF Init, RingInit
    <3>3. /\ phase \in {"idle", "recording", "storing", "committing"}
          /\ sample_write_end \in Nat /\ sample_commit_end \in Nat
          /\ meta_head \in Nat /\ closed \in BOOLEAN
      BY <3>1
    <3>4. closed => phase = "idle"
      BY <3>1
    <3> QED BY <1>1, <3>2, <3>3, <3>4 DEF LogType
  <2>2. LogOrder /\ LogGaps
    BY <1>1 DEF LogOrder, LogGaps
  <2>3. LogCommits
    BY DEF LogCommits
  <2> QED BY <2>1, <2>2, <2>3 DEF LogInv
<1>3. ReaderType
  BY DEF ReaderType, Unresolved, NoArgs, NoSearch, Away
<1>4. CursorInv /\ EveryIndexAccounted
  BY DEF CursorInv, EveryIndexAccounted, Unresolved, NothingCounted, pos
<1>5. ResolveInv /\ StepInv /\ LapInv
  BY DEF ResolveInv, Resolving, StepInv, Stepping, Away, LapInv, Lapping, Resyncing, Unresolved
<1>6. SearchInv /\ ClosedInv
  <2>1. search.head = 0 /\ rpc = "detached" /\ outcome = "none" /\ closed_seen = FALSE
    BY DEF NoSearch
  <2>2. SearchInv
    BY <2>1 DEF SearchInv
  <2>3. ClosedInv
    BY <2>1 DEF ClosedInv
  <2> QED BY <2>2, <2>3
<1> QED BY <1>2, <1>3, <1>4, <1>5, <1>6 DEF ReaderInv, StageInv

LEMMA ReaderStep ==
  ASSUME ReaderInv, [Next]_vars
  PROVE  ReaderInv'
<1>1. CASE Write
  BY <1>1, WriteInv
<1>2. CASE PushNotifies \/ DropNotifies
  BY <1>2, NotifyInv
<1>3. CASE Attach
  BY <1>3, AttachLiveInv, AttachAtInv DEF Attach
<1>4. CASE CallStep
  <2>1. CASE Load
    BY <2>1, LoadInv
  <2>2. CASE \/ ResolveHead \/ ResolveLocated \/ ResolvePrevious
    BY <2>2, ResolveHeadInv, ResolveLocatedInv, ResolvePreviousInv
  <2>3. CASE StepMeta \/ StepOldest \/ StepDeliver
    BY <2>3, StepMetaInv, StepOldestInv, StepDeliverInv
  <2>4. CASE LapLocated \/ LapNewest \/ ResyncLocated \/ ShedToLatest
    BY <2>4, LapLocatedInv, LapNewestInv, ResyncLocatedInv, ShedToLatestInv
  <2>5. CASE WaitStep
    BY <2>5, WaitInv
  <2> QED BY <1>4, <2>1, <2>2, <2>3, <2>4, <2>5 DEF CallStep, Load
<1>5. CASE ReadCall \/ ShedHead
  BY <1>5, LoadInv DEF ReadCall, Load
<1>6. CASE BeginWait \/ SliceEnds
  BY <1>6, WaitInv
<1>7. CASE UNCHANGED vars
  <2>1. /\ UNCHANGED ringVars
        /\ UNCHANGED <<cursor, counters, policy, frame, rpc, outcome, start, unknown_gaps>>
    BY <1>7 DEF vars, writerVars, readerVars, counters, frame
  <2> QED BY <2>1, Unmoved
<1> QED BY <1>1, <1>2, <1>3, <1>4, <1>5, <1>6, <1>7 DEF Next, ReaderNext

(* Whatever the writer pushes between a reader's loads, the log's records count its gaps, the
   cursor stands at the first block that ends after its position, and each stage of a call
   holds what the loads before it found. *)
THEOREM ReaderInvariant == Spec => []ReaderInv
<1>1. Init => ReaderInv
  BY ReaderInit
<1>2. ReaderInv /\ [Next]_vars => ReaderInv'
  BY ReaderStep
<1> QED BY <1>1, <1>2, PTL DEF Spec

(* Every index between a reader's start and its position is accounted exactly once, and what
   is counted as a source gap is what the source never produced. *)
THEOREM EveryIndexIsAccounted == Spec => []EveryIndexAccounted
<1>1. ReaderInv => EveryIndexAccounted
  BY DEF ReaderInv
<1> QED BY <1>1, ReaderInvariant, PTL

(* Closed is only returned once the writer is gone and the reader is past all it pushed. *)
THEOREM ClosedIsDrained == Spec => []ClosedMeansDrained
<1>1. ReaderInv => ClosedMeansDrained
  BY DEF ReaderInv, StageInv, ClosedInv, ClosedMeansDrained, pos
<1> QED BY <1>1, ReaderInvariant, PTL

(* copy_out never finds the samples of a committed block uncommitted: the case step only
   logs ("metadata was committed before its samples") cannot arise. *)
THEOREM SamplesAreCommittedFirst == Spec => [](rpc # "not_committed")
<1>1. ReaderInv => rpc # "not_committed"
  BY DEF ReaderInv, ReaderType, Away, Resolving, Stepping, Lapping, Resyncing
<1> QED BY <1>1, ReaderInvariant, PTL

-----------------------------------------------------------------------------
(* What is delivered, and what is reported lost *)

(* step's chunk is the next samples produced: nothing was produced between the position and
   its first sample, it stays inside one block, and the gap at a block's start agrees with
   the record's cumulative count (step's debug_assert). *)
THEOREM ChunksAreNext == Spec => ChunkIsNext
<1>1. ReaderInv =>
        (StepDeliver =>
           /\ Fits > 0 /\ From + Fits <= EndOf(Meta(cursor.block))
           /\ \A i \in pos..(From - 1) : ~Produced(i)
           /\ BlockStart => cursor.gaps + (From - pos) = Meta(cursor.block).gaps_total)
  <2> SUFFICES ASSUME ReaderInv, StepDeliver
               PROVE  /\ Fits > 0 /\ From + Fits <= EndOf(Meta(cursor.block))
                      /\ \A i \in pos..(From - 1) : ~Produced(i)
                      /\ BlockStart => cursor.gaps + (From - pos) = Meta(cursor.block).gaps_total
    OBVIOUS
  <2>1. /\ rpc = "step_provenance"
        /\ LogInv /\ ReaderType /\ CursorInv /\ EveryIndexAccounted /\ StepInv
        /\ cursor.at /\ cursor.block < meta_head
    BY DEF StepDeliver, ReaderInv, StageInv, StepInv, Stepping
  <2>2. Fits > 0 /\ From + Fits <= EndOf(Meta(cursor.block))
    BY <2>1, ChunkFits
  <2>3. /\ \A i \in pos..(From - 1) : ~Produced(i)
        /\ Meta(cursor.block).gaps_total = cursor.gaps + (From - pos)
    BY <2>1, ChunkGaps
  <2> QED BY <2>2, <2>3
<1> QED BY <1>1, ReaderInvariant, PTL DEF ChunkIsNext

(* What lies before oldest_valid_sample, or in a block before oldest_valid_block, is gone. *)
LEMMA GoneIs ==
  ASSUME LogInv, NEW b \in 1..Len(log), NEW i \in Nat,
         i >= log[b].first_sample, i < EndOf(log[b]),
         i < oldest_valid_sample \/ b - 1 < oldest_valid_block
  PROVE  Gone(i)
<1>1. b \in DOMAIN log /\ b \in Nat /\ Len(log) \in Nat /\ sample_write_end \in Nat
  BY LogTypes DEF LogInv, LogType
<1>2. i < oldest_valid_sample => i + SampleCap < sample_write_end
  BY <1>1, RingConfigAssumption DEF oldest_valid_sample, SatSub
<1>3. b - 1 < oldest_valid_block => b + BlockCap <= meta_write_end
  BY <1>1, RingConfigAssumption DEF oldest_valid_block, meta_write_end, SatSub
<1> QED BY <1>1, <1>2, <1>3 DEF Gone

(* What was produced before a block belongs to an earlier one. *)
LEMMA ProducedEarlier ==
  ASSUME LogInv, NEW b \in Nat, b < Len(log), NEW i \in Nat, i < Meta(b).first_sample,
         Produced(i)
  PROVE  \E c \in Nat : /\ c < b /\ c + 1 \in 1..Len(log)
                        /\ i >= log[c + 1].first_sample /\ i < EndOf(log[c + 1])
<1>1. PICK d \in 1..Len(log) : i >= log[d].first_sample /\ i < EndOf(log[d])
  BY DEF Produced, LogInv, LogType
<1>2. /\ d \in Nat /\ Len(log) \in Nat /\ log[d].first_sample \in Nat
      /\ b + 1 \in 1..Len(log) /\ log[b + 1].first_sample \in Nat
  <2>1. Len(log) \in Nat
    BY LogTypes
  <2>2. b + 1 \in 1..Len(log)
    BY <2>1
  <2> QED BY <2>1, <2>2, LogTypes
<1>3. ~(b + 1 <= d)
  <2>1. b + 1 <= d => log[b + 1].first_sample <= log[d].first_sample
    BY <1>2, BlocksInOrder
  <2> QED BY <1>1, <1>2, <2>1 DEF Meta
<1>4. d - 1 \in Nat /\ d - 1 < b /\ (d - 1) + 1 = d
  BY <1>2, <1>3
<1> QED BY <1>1, <1>4

(* NextIsGone says what it is named for: the first sample produced after the position, in the
   cursor's block, is overwritten or its block's record is. *)
LEMMA NextIsGoneMeans ==
  ASSUME ReaderInv, cursor.at, cursor.block < meta_head, NextIsGone
  PROVE  \E i \in pos..MaxIndex : Gone(i) /\ \A j \in pos..(i - 1) : ~Produced(j)
<1> DEFINE k == cursor.block
           first == log[k + 1].first_sample
<1>1. LogInv /\ ReaderType /\ CursorInv
  BY DEF ReaderInv
<1>2. /\ pos \in Nat /\ k \in Nat /\ k < Len(log) /\ k + 1 \in 1..Len(log) /\ AtBlock(pos, k)
      /\ pos < EndOf(log[k + 1]) /\ first \in Nat /\ EndOf(log[k + 1]) \in Nat
      /\ first < EndOf(log[k + 1])
  BY <1>1, AtCommitted, LogTypes DEF Meta
<1>3. From = IF pos >= first THEN pos ELSE first
  BY DEF From, MaxOf, Meta
<1>4. EndOf(log[k + 1]) <= MaxIndex /\ MaxIndex \in Nat
  BY <1>1, <1>2, RingConfigAssumption DEF LogInv, LogOrder
<1>5. /\ From \in Nat /\ From >= first /\ From < EndOf(log[k + 1]) /\ pos <= From
      /\ From \in pos..MaxIndex
  <2> HIDE DEF first, k
  <2> QED BY <1>2, <1>3, <1>4
<1>6. Gone(From)
  <2>1. (k + 1) - 1 = k
    BY <1>2
  <2>2. From < oldest_valid_sample \/ (k + 1) - 1 < oldest_valid_block
    BY <2>1 DEF NextIsGone, Overwritten
  <2>3. From >= log[k + 1].first_sample
    BY <1>5
  <2> QED BY <1>1, <1>2, <1>5, <2>2, <2>3, GoneIs
<1>7. ASSUME NEW j \in pos..(From - 1) PROVE ~Produced(j)
  <2>1. j \in Nat /\ pos <= j /\ j < log[k + 1].first_sample
    <3> HIDE DEF k
    <3> QED BY <1>2, <1>3, <1>5 DEF first
  <2>2. k \in 0..Len(log)
    BY <1>2
  <2> QED BY <1>1, <1>2, <2>1, <2>2, NothingBeforeBlock
<1> QED BY <1>5, <1>6, <1>7

(* A resync that reports an overrun jumps forward. *)
LEMMA OverrunJumps ==
  ASSUME NEW b, NEW target, Resync(b, target), outcome # "Overrun", outcome' = "Overrun"
  PROVE  ~(target <= pos) /\ cursor'.sample = target
  BY DEF Resync, Loop, Overrun, At

(* The steps that can report one. *)
LEMMA OverrunSteps ==
  ASSUME Next, outcome # "Overrun", outcome' = "Overrun"
  PROVE  ResolvePrevious \/ LapNewest \/ ResyncLocated
<1>1. ~Write
  BY DEF Write, readerVars
<1>2. ~PushNotifies /\ ~DropNotifies
  BY DEF PushNotifies, DropNotifies, Notify
<1>3. ~Attach /\ ~ReadCall /\ ~ShedHead /\ ~BeginWait /\ ~SliceEnds
  BY DEF Attach, AttachLive, AttachAt, GoTo, ReadCall, BeginRead, ShedHead, BeginWait, SliceEnds
<1>4. ~ResolveClosed /\ ~ResolveHead /\ ~ResolveLocated
  BY DEF ResolveClosed, ResolveHead, ResolveLocated, GoTo, Nothing, Return, Loop, BeginLocate
<1>5. ~StepAtLimit /\ ~StepClosed /\ ~StepHead /\ ~StepMeta
  BY DEF StepAtLimit, StepClosed, StepHead, StepMeta, GoTo, GoToBlock, Nothing, Return, Loop
<1>6. ~StepOldest /\ ~StepCopy /\ ~StepDeliver /\ ~StepNoHandle
  BY DEF StepOldest, StepCopy, StepDeliver, StepNoHandle, GoTo, GoToBlock, Nothing, Return
<1>7. ~LapOldest /\ ~LapLocated /\ ~LapHead /\ ~ResyncOldest
  BY DEF LapOldest, LapLocated, LapHead, ResyncOldest, GoTo, BeginLocate, Loop
<1>8. ~LocateSnapshot /\ ~LocateRetry /\ ~ShedToLatest /\ ~WaitStep
  BY DEF LocateSnapshot, LocateRetry, ShedToLatest, Return, WaitStep, WaitHead, WaitClosed, Park
<1> QED BY <1>1, <1>2, <1>3, <1>4, <1>5, <1>6, <1>7, <1>8 DEF Next, ReaderNext, CallStep

(* A start is only given up when the record before its block is gone. *)
LEMMA PreviousOverrun ==
  ASSUME ReaderInv, ResolvePrevious, outcome # "Overrun", outcome' = "Overrun",
         NEW i \in pos..(cursor'.sample - 1), Produced(i)
  PROVE  ~cursor.at /\ Gone(i)
<1>1. /\ rpc = "resolve_previous" /\ ~cursor.at
      /\ LogInv /\ ReaderType /\ pos \in Nat /\ meta_head \in Nat /\ Len(log) \in Nat
      /\ meta_head <= Len(log) /\ oldest_valid_block \in Nat
      /\ head_seen \in 1..(meta_head - 1)
  BY LogTypes DEF ReaderInv, StageInv, ResolveInv, Resolving, ResolvePrevious, ReaderType, pos
<1>2. ~HasMeta(head_seen - 1) /\ cursor'.sample = Meta(head_seen).first_sample
  BY DEF ResolvePrevious, Loop, Overrun, At
<1>3. head_seen \in Nat /\ head_seen < Len(log) /\ head_seen - 1 < oldest_valid_block
  BY <1>1, <1>2 DEF HasMeta
<1>4. Meta(head_seen).first_sample \in Nat
  <2>1. head_seen + 1 \in 1..Len(log)
    BY <1>1, <1>3
  <2> QED BY <1>1, <2>1, LogTypes DEF Meta
<1>5. i \in Nat /\ i < Meta(head_seen).first_sample
  BY <1>1, <1>2, <1>4
<1>6. PICK c \in Nat : /\ c < head_seen /\ c + 1 \in 1..Len(log)
                       /\ i >= log[c + 1].first_sample /\ i < EndOf(log[c + 1])
  BY <1>1, <1>3, <1>5, ProducedEarlier
<1>7. (c + 1) - 1 < oldest_valid_block
  BY <1>1, <1>3, <1>6
<1> QED BY <1>1, <1>5, <1>6, <1>7, GoneIs

(* A resync under Oldest skips only what is gone. *)
LEMMA ResyncOverrun ==
  ASSUME ReaderInv, ResyncLocated, outcome # "Overrun", outcome' = "Overrun",
         NEW i \in pos..(cursor'.sample - 1), Produced(i)
  PROVE  Gone(i)
<1>1. /\ rpc = "resync_locate" /\ cursor.at /\ LogInv /\ ReaderType /\ SearchInv /\ pos \in Nat
      /\ pos <= search.sample /\ (pos < search.sample => search.sample <= oldest_valid_sample)
      /\ search.sample \in Nat /\ oldest_valid_sample \in Nat /\ oldest_valid_block \in Nat
  BY LogTypes DEF ReaderInv, StageInv, LapInv, Lapping, Resyncing, SearchInv, ResyncLocated,
                  ReaderType, pos
<1>2. PICK b \in 0..meta_head :
        Located(b) /\ ~LocatedNone(b) /\ Resync(b, MaxOf(Meta(b).first_sample, search.sample))
  BY DEF ResyncLocated, Nothing, Return
<1>3. /\ cursor'.sample = MaxOf(Meta(b).first_sample, search.sample)
  BY <1>2, OverrunJumps
<1>4. /\ b \in Nat /\ b < Len(log) /\ search.lo \in Nat /\ search.lo <= oldest_valid_block
      /\ \A c \in Nat : search.lo <= c /\ c < b => EndOf(Meta(c)) <= search.sample
  BY <1>1, <1>2, LocatedIs DEF LocatedNone
<1>5. Meta(b).first_sample \in Nat
  <2>1. b + 1 \in 1..Len(log)
    BY <1>1, <1>4, LogTypes
  <2> QED BY <1>1, <2>1, LogTypes DEF Meta
<1>6. i \in Nat /\ pos <= i /\ (i < Meta(b).first_sample \/ i < search.sample)
  BY <1>1, <1>3, <1>5 DEF MaxOf
<1>7. CASE i < search.sample
  <2>1. i < oldest_valid_sample
    BY <1>1, <1>6, <1>7
  <2>2. PICK d \in 1..Len(log) : i >= log[d].first_sample /\ i < EndOf(log[d])
    BY <1>1 DEF Produced, LogInv, LogType
  <2> QED BY <1>1, <1>6, <2>1, <2>2, GoneIs
<1>8. CASE ~(i < search.sample)
  <2>1. PICK c \in Nat : /\ c < b /\ c + 1 \in 1..Len(log)
                         /\ i >= log[c + 1].first_sample /\ i < EndOf(log[c + 1])
    BY <1>1, <1>4, <1>6, <1>8, ProducedEarlier
  <2>2. EndOf(log[c + 1]) \in Nat
    BY <1>1, <2>1, LogTypes
  <2>3. ~(search.lo <= c)
    <3>1. search.lo <= c => EndOf(log[c + 1]) <= search.sample
      BY <1>4, <2>1 DEF Meta
    <3> QED BY <1>1, <1>6, <1>8, <2>1, <2>2, <3>1
  <2>4. (c + 1) - 1 < oldest_valid_block
    BY <1>1, <1>4, <2>1, <2>3
  <2> QED BY <1>1, <1>6, <2>1, <2>4, GoneIs
<1> QED BY <1>7, <1>8

(* A positioned reader reports an overrun only if the next sample it needs is gone, and
   neither ResyncPolicy::Oldest nor a start already gone skips anything still readable. *)
THEOREM OverrunsAreReal == Spec => OverrunOnlyIfGone
<1>1. ReaderInv /\ [Next]_vars =>
        [outcome # "Overrun" /\ outcome' = "Overrun" =>
           /\ cursor.at => \E i \in pos..MaxIndex :
                Gone(i) /\ \A j \in pos..(i - 1) : ~Produced(j)
           /\ policy = "Oldest" \/ ~cursor.at =>
                \A i \in pos..(cursor'.sample - 1) : Produced(i) => Gone(i)]_vars
  <2> SUFFICES ASSUME ReaderInv, [Next]_vars, outcome # "Overrun", outcome' = "Overrun"
               PROVE  /\ cursor.at => \E i \in pos..MaxIndex :
                           Gone(i) /\ \A j \in pos..(i - 1) : ~Produced(j)
                      /\ policy = "Oldest" \/ ~cursor.at =>
                           \A i \in pos..(cursor'.sample - 1) : Produced(i) => Gone(i)
    OBVIOUS
  <2>1. ResolvePrevious \/ LapNewest \/ ResyncLocated
    BY OverrunSteps DEF vars, readerVars
  <2>2. CASE ResolvePrevious
    <3>1. ~cursor.at
      BY <2>2 DEF ReaderInv, StageInv, ResolveInv, Resolving, ResolvePrevious
    <3> QED BY <2>2, <3>1, PreviousOverrun
  <2>3. CASE LapNewest
    <3>1. policy = "Latest" /\ cursor.at /\ cursor.block < meta_head /\ NextIsGone
      BY <2>3 DEF ReaderInv, StageInv, LapInv, Lapping, Resyncing, LapNewest
    <3> QED BY <3>1, NextIsGoneMeans
  <2>4. CASE ResyncLocated
    <3>1. cursor.at /\ cursor.block < meta_head /\ NextIsGone
      BY <2>4 DEF ReaderInv, StageInv, LapInv, Lapping, Resyncing, ResyncLocated
    <3> QED BY <2>4, <3>1, NextIsGoneMeans, ResyncOverrun
  <2> QED BY <2>1, <2>2, <2>3, <2>4
<1> QED BY <1>1, ReaderInvariant, PTL DEF Spec, OverrunOnlyIfGone

(* The books are kept by subtractions that saturate; none ever does.  A jump into a committed
   block skips no more gap indices than indices (report_overrun's debug_assert; shed_to_latest computes
   the same), and a start in a known source gap has the gap in its block's count
   (resolve's debug_assert). *)
THEOREM GapCountsNeverSaturate ==
  Spec => [](/\ cursor.at =>
                  \A b \in 0..(meta_head - 1), q \in (pos + 1)..MaxIndex :
                    Meta(b).first_sample <= q /\ q <= EndOf(Meta(b)) =>
                      /\ cursor.gaps <= Meta(b).gaps_total
                      /\ Meta(b).gaps_total - cursor.gaps <= q - pos
             /\ rpc = "resolve_previous" /\ HasMeta(head_seen - 1) =>
                  Meta(head_seen).first_sample - pos <= Meta(head_seen).gaps_total)
<1>1. ASSUME ReaderInv, cursor.at,
             NEW b \in 0..(meta_head - 1), NEW q \in (pos + 1)..MaxIndex,
             Meta(b).first_sample <= q, q <= EndOf(Meta(b))
      PROVE  cursor.gaps <= Meta(b).gaps_total /\ Meta(b).gaps_total - cursor.gaps <= q - pos
  <2>1. /\ LogInv /\ ReaderType /\ CursorInv /\ EveryIndexAccounted
        /\ pos \in Nat /\ cursor.gaps \in Nat /\ meta_head \in Nat /\ Len(log) \in Nat
        /\ meta_head <= Len(log) /\ MaxIndex \in Nat
    BY <1>1, LogTypes, RingConfigAssumption DEF ReaderInv, ReaderType, pos
  <2>2. b \in Nat /\ b < Len(log) /\ q \in Nat /\ pos < q /\ pos <= q
    BY <2>1
  <2>3. Meta(b).gaps_total = cursor.gaps + Cardinality(GapIndices(pos, q))
    BY <1>1, <2>1, <2>2, SkippedGapIs
  <2>4. /\ Cardinality(GapIndices(pos, q)) \in Nat
        /\ Cardinality(GapIndices(pos, q)) <= q - pos
    BY <2>1, <2>2, GapsFinite
  <2> QED BY <2>1, <2>2, <2>3, <2>4
<1>2. ASSUME ReaderInv, rpc = "resolve_previous", HasMeta(head_seen - 1)
      PROVE  Meta(head_seen).first_sample - pos <= Meta(head_seen).gaps_total
  <2> DEFINE b == head_seen
             first == log[b + 1].first_sample
  <2>1. /\ LogInv /\ pos \in Nat /\ meta_head \in Nat /\ Len(log) \in Nat
        /\ meta_head <= Len(log) /\ oldest_valid_block \in Nat
        /\ pos > stream_start /\ b \in 1..(meta_head - 1) /\ pos < first
        /\ oldest_valid_block <= b - 1 => EndOf(Meta(b - 1)) <= pos
    BY <1>2, LogTypes
       DEF ReaderInv, ReaderType, StageInv, ResolveInv, Resolving, pos, Meta
  <2>2. /\ b \in Nat /\ b < Len(log) /\ b + 1 \in 1..Len(log) /\ b \in 0..Len(log)
        /\ (b - 1) + 1 = b /\ 1 \in 1..Len(log)
    BY <2>1
  <2>3. EndOf(log[b]) <= pos
    BY <1>2, <2>1, <2>2 DEF HasMeta, Meta
  <2>4. /\ first \in Nat /\ first < EndOf(log[b + 1]) /\ EndOf(log[b + 1]) \in Nat
        /\ log[b + 1].gaps_total \in Nat /\ stream_start \in Nat
    BY <2>1, <2>2, LogTypes DEF stream_start
  <2> HIDE DEF b, first
  <2>5. /\ pos < EndOf(log[b + 1]) /\ pos <= first /\ stream_start <= pos
        /\ log[b + 1].first_sample <= first /\ first <= EndOf(log[b + 1])
    BY <2>1, <2>4 DEF first
  <2>6. AtBlock(pos, b)
    BY <2>1, <2>2, <2>3, <2>5, AtBlockIs
  <2>7. Cardinality(GapIndices(pos, first)) = first - pos
    BY <2>1, <2>2, <2>4, <2>5, <2>6, NextBlock DEF first
  <2>8. Cardinality(GapIndices(stream_start, first)) = log[b + 1].gaps_total
    BY <2>1, <2>2, <2>4, <2>5, GapsAt
  <2>9. /\ Cardinality(GapIndices(stream_start, first))
             = Cardinality(GapIndices(stream_start, pos)) + Cardinality(GapIndices(pos, first))
        /\ Cardinality(GapIndices(stream_start, pos)) \in Nat
    <3>1. Cardinality(GapIndices(stream_start, pos)) \in Nat
      BY <2>1, <2>4, GapsFinite
    <3> QED BY <2>1, <2>4, <2>5, <3>1, GapsSplit
  <2>10. first - pos <= log[b + 1].gaps_total
    BY <2>1, <2>4, <2>7, <2>8, <2>9
  <2> QED BY <2>10 DEF b, first, Meta
<1>3. ReaderInv =>
        /\ cursor.at =>
             \A b \in 0..(meta_head - 1), q \in (pos + 1)..MaxIndex :
               Meta(b).first_sample <= q /\ q <= EndOf(Meta(b)) =>
                 /\ cursor.gaps <= Meta(b).gaps_total
                 /\ Meta(b).gaps_total - cursor.gaps <= q - pos
        /\ rpc = "resolve_previous" /\ HasMeta(head_seen - 1) =>
             Meta(head_seen).first_sample - pos <= Meta(head_seen).gaps_total
  BY <1>1, <1>2
<1> QED BY <1>3, ReaderInvariant, PTL

=============================================================================
