--------------------------- MODULE FlowGateProofs ---------------------------
(***************************************************************************)
(* Proofs about FlowGate for every ring, every set of readers and chains,  *)
(* every source gap and every interleaving: no registered claim is ever    *)
(* overwritten, a chain within the slack misses nothing, and a held writer *)
(* always has somebody to wait for.                                        *)
(***************************************************************************)
EXTENDS FlowGate, WellFoundedInduction, TLAPS

USE RingConfigAssumption

-----------------------------------------------------------------------------
(* The inductive invariant *)

(* Between pushes the counters agree with the log, whose blocks are in order. *)
LogInv ==
  /\ log \in Seq(Block) /\ phase = "idle" /\ closed \in BOOLEAN
  /\ meta_head = Len(log)
  /\ sample_write_end = IF log = <<>> THEN 0 ELSE EndOf(log[Len(log)])
  /\ \A b \in 1..Len(log) : log[b].len \in 1..SampleCap /\ EndOf(log[b]) <= MaxIndex
  /\ \A a, b \in 1..Len(log) : a < b => EndOf(log[a]) <= log[b].first_sample

GateType ==
  /\ cursors \subseteq Readers /\ scan \subseteq Readers
  /\ claim \in [Readers -> 0..Released]
  /\ rpc \in [Readers -> {"new", "claimed", "reading", "read", "done"}]
  /\ pos \in [Readers -> 0..MaxIndex] /\ spared \in [Readers -> Nat]
  /\ cpc \in {"source", "poll", "scan", "push"}
  /\ offer \in [first : Nat, len : Nat]
  /\ view \in [oldest : SUBSET Nat, next : SUBSET Nat]
  /\ low \in 0..Released /\ waited \in BOOLEAN /\ stop \in BOOLEAN

(* The block in hand comes after the log, and the ring is still as it was seen before the wait. *)
CaptureInv ==
  /\ cpc # "source" =>
       offer.len \in BlockLens /\ offer.len > 0 /\ StreamEnd <= offer.first
  /\ cpc \in {"poll", "scan"} => view.oldest = oldest_sample /\ view.next = next_sample

HoldInv ==
  /\ holding = IF waited THEN 1 ELSE 0
  /\ waited => cpc \in {"poll", "scan"}

(* A registered reader is on the list and claims nothing it has read on from; nobody else *)
(* claims anything.  A claim is behind its reader only while there is something to read.  *)
CursorInv == \A r \in Readers :
  /\ Registered(r) => r \in cursors /\ claim[r] <= pos[r]
  /\ ~Registered(r) => claim[r] = Released
  /\ rpc[r] = "reading" => claim[r] = pos[r] \/ Ahead(pos[r]) # {}
  /\ rpc[r] = "new" => pos[r] = 0

(* Claims only grow, and nobody registers during the scan: what it has found is a bound. *)
ScanInv == cpc = "scan" => \A r \in Readers : Registered(r) /\ r \notin scan => low <= claim[r]

GateInv == LogInv /\ GateType /\ CaptureInv /\ HoldInv /\ CursorInv /\ ScanInv

Produced(i) == \E b \in 1..Len(log) : log[b].first_sample <= i /\ i < EndOf(log[b])

(* Nothing a reader has yet to read is dropped, by what is written or what was let through. *)
KeptInv ==
  ~stop => \A r \in Readers : Registered(r) =>
    \A i \in 0..MaxIndex : Produced(i) /\ pos[r] <= i /\ spared[r] <= i => Dropped <= i

(* Why a block after prev, ending at end, was let through: the claim c had caught up, or the  *)
(* block is within the slack of the claim, or of a block that has no sample just before it.   *)
Within(c, prev, end) ==
  \/ prev <= c
  \/ end <= c + slack
  \/ \E b \in 1..Len(log) : /\ end <= log[b].first_sample + slack
                            /\ b > 1 => EndOf(log[b - 1]) < log[b].first_sample

(* The latest block, written or let through, was let through with e registered. *)
SlackInv == \A e \in Early :
  /\ rpc[e] # "new"
  /\ ~stop /\ Registered(e) =>
       /\ Len(log) > 1 => Within(claim[e], EndOf(log[Len(log) - 1]), EndOf(log[Len(log)]))
       /\ cpc = "push" /\ log # <<>> => Within(claim[e], StreamEnd, offer.first + offer.len)

(* Blocks of at least m samples are m apart. *)
Spaced(m) == \A a, b \in 1..Len(log) : a <= b => EndOf(log[a]) + (b - a) * m <= EndOf(log[b])

-----------------------------------------------------------------------------
(* The ring's lookups *)

(* A set of naturals has a least member. *)
LEMMA Least ==
  ASSUME NEW T \in SUBSET Nat, T # {}
  PROVE  \E m \in T : \A n \in T : m <= n
<1> DEFINE R == OpToRel(<, Nat)
<1>1. IsWellFoundedOn(R, Nat)
  BY NatLessThanWellFounded
<1>2. \A y \in Nat, x \in Nat : y < x => <<y, x>> \in R
  BY DEF OpToRel
<1> HIDE DEF R
<1>3. PICK m \in T : \A n \in T : ~ (<<n, m>> \in R)
  BY <1>1, WFMin
<1>4. \A n \in T : ~(n < m)
  BY <1>2, <1>3
<1> QED BY <1>3, <1>4

LEMMA FirstIs ==
  ASSUME NEW T \in SUBSET Nat, T # {}
  PROVE  First(T) \in T /\ \A n \in T : First(T) <= n
  BY Least DEF First

LEMMA SlackIs ==
  /\ slack \in Nat /\ slack > 0 /\ slack <= SampleCap
  /\ SampleCap > 1 => slack + slack <= SampleCap
  BY DEF slack

(* The newest block ends the stream and is retained whole. *)
LEMMA Newest ==
  ASSUME LogInv, log # <<>>
  PROVE  /\ Len(log) \in Nat \ {0} /\ StreamEnd = EndOf(log[Len(log)])
         /\ StreamEnd \in 1..MaxIndex
         /\ oldest_valid_sample = SatSub(StreamEnd, SampleCap)
         /\ oldest_valid_sample \in Nat /\ oldest_valid_sample < StreamEnd
         /\ oldest_valid_sample <= log[Len(log)].first_sample
         /\ oldest_valid_block \in Nat /\ oldest_valid_block < Len(log)
         /\ \A b \in 1..Len(log) :
              /\ log[b] \in Block /\ log[b].first_sample \in Nat /\ EndOf(log[b]) \in 1..MaxIndex
              /\ log[b].first_sample < EndOf(log[b])
              /\ EndOf(log[b]) <= StreamEnd
<1>1. Len(log) \in Nat \ {0} /\ \A b \in 1..Len(log) : log[b] \in Block
  BY DEF LogInv
<1>2. ASSUME NEW b \in 1..Len(log)
      PROVE  /\ log[b].first_sample \in Nat /\ log[b].len \in 1..SampleCap
             /\ EndOf(log[b]) \in 1..MaxIndex /\ log[b].first_sample < EndOf(log[b])
             /\ EndOf(log[b]) = log[b].first_sample + log[b].len
  <2>1. log[b].first_sample \in Nat
    BY <1>1 DEF Block
  <2>2. log[b].len \in 1..SampleCap /\ EndOf(log[b]) <= MaxIndex
    BY DEF LogInv
  <2> QED BY <2>1, <2>2 DEF EndOf
<1>3. StreamEnd = EndOf(log[Len(log)]) /\ sample_write_end = StreamEnd
  BY DEF StreamEnd, LogInv
<1>4. Len(log) \in 1..Len(log)
  BY <1>1
<1>5. StreamEnd \in 1..MaxIndex
  BY <1>2, <1>3, <1>4
<1>6. oldest_valid_sample = SatSub(StreamEnd, SampleCap)
  BY <1>3 DEF oldest_valid_sample
<1>7. /\ oldest_valid_sample \in Nat /\ oldest_valid_sample < StreamEnd
      /\ oldest_valid_sample <= log[Len(log)].first_sample
  BY <1>2, <1>3, <1>4, <1>5, <1>6 DEF SatSub
<1>8. oldest_valid_block \in Nat /\ oldest_valid_block < Len(log)
  BY <1>1 DEF oldest_valid_block, meta_write_end, SatSub
<1>9. ASSUME NEW b \in 1..Len(log) PROVE EndOf(log[b]) <= StreamEnd
  <2>1. CASE b = Len(log)
    BY <2>1, <1>3, <1>5
  <2>2. CASE b < Len(log)
    <3>1. EndOf(log[b]) <= log[Len(log)].first_sample
      BY <2>2, <1>4 DEF LogInv
    <3> QED BY <3>1, <1>2, <1>3, <1>4
  <2> QED BY <1>1, <2>1, <2>2
<1> QED BY <1>1, <1>2, <1>3, <1>5, <1>6, <1>7, <1>8, <1>9

(* The blocks ahead of a position are those that end after it. *)
LEMMA AheadIs ==
  ASSUME LogInv, NEW i \in Nat
  PROVE  /\ Ahead(i) \in SUBSET Nat
         /\ \A b \in Ahead(i) : b + 1 \in 1..Len(log) /\ EndOf(log[b + 1]) > i /\ Meta(b) = log[b + 1]
         /\ \A b \in 1..Len(log) : EndOf(log[b]) > i => b - 1 \in Ahead(i)
         /\ Ahead(i) # {} <=> log # <<>> /\ StreamEnd > i
<1>1. Len(log) \in Nat /\ meta_head = Len(log)
  BY DEF LogInv
<1>2. Ahead(i) = {b \in 0..(Len(log) - 1) : EndOf(log[b + 1]) > i}
  BY <1>1 DEF Ahead, Meta
<1>3. \A b \in 1..Len(log) : EndOf(log[b]) > i => b - 1 \in Ahead(i)
  <2> SUFFICES ASSUME NEW b \in 1..Len(log), EndOf(log[b]) > i PROVE b - 1 \in Ahead(i)
    OBVIOUS
  <2>1. b - 1 \in 0..(Len(log) - 1) /\ (b - 1) + 1 = b
    BY <1>1
  <2> QED BY <1>2, <2>1
<1>4. \A b \in Ahead(i) : b + 1 \in 1..Len(log) /\ EndOf(log[b + 1]) > i /\ Meta(b) = log[b + 1]
  BY <1>1, <1>2 DEF Meta
<1>5. ASSUME Ahead(i) # {} PROVE log # <<>> /\ StreamEnd > i
  <2>1. PICK b \in 1..Len(log) : EndOf(log[b]) > i
    BY <1>4, <1>5
  <2>2. log # <<>>
    BY <1>1, <2>1
  <2>3. EndOf(log[b]) <= StreamEnd /\ EndOf(log[b]) \in Nat /\ StreamEnd \in Nat
    BY <2>2, Newest
  <2> QED BY <2>1, <2>2, <2>3
<1>6. ASSUME log # <<>>, StreamEnd > i PROVE Ahead(i) # {}
  <2>1. Len(log) \in 1..Len(log) /\ EndOf(log[Len(log)]) > i
    BY <1>6, <1>1, Newest
  <2> QED BY <2>1, <1>3
<1> QED BY <1>2, <1>3, <1>4, <1>5, <1>6, <1>1

(* The block at or after a position, where reading goes on. *)
LEMMA NextBlock ==
  ASSUME LogInv, NEW i \in Nat, Ahead(i) # {}
  PROVE  \E b \in 1..Len(log) :
           /\ First(Ahead(i)) = b - 1 /\ Meta(First(Ahead(i))) = log[b]
           /\ EndOf(log[b]) > i
           /\ \A a \in 1..Len(log) : EndOf(log[a]) > i => b <= a
           /\ Start(i) = MaxOf(log[b].first_sample, i)
<1>1. /\ Ahead(i) \in SUBSET Nat /\ log # <<>>
      /\ \A b \in Ahead(i) : b + 1 \in 1..Len(log) /\ EndOf(log[b + 1]) > i /\ Meta(b) = log[b + 1]
      /\ \A b \in 1..Len(log) : EndOf(log[b]) > i => b - 1 \in Ahead(i)
  BY AheadIs
<1> DEFINE f == First(Ahead(i))
<1>2. f \in Ahead(i) /\ f \in Nat /\ \A n \in Ahead(i) : f <= n
  BY <1>1, FirstIs
<1>3. Start(i) = MaxOf(Meta(f).first_sample, i)
  BY DEF Start
<1> HIDE DEF f
<1> DEFINE b == f + 1
<1>4. b \in 1..Len(log) /\ f = b - 1 /\ Meta(f) = log[b] /\ EndOf(log[b]) > i
  BY <1>1, <1>2
<1>5. ASSUME NEW a \in 1..Len(log), EndOf(log[a]) > i PROVE b <= a
  <2>1. a - 1 \in Ahead(i)
    BY <1>5, <1>1
  <2>2. f <= a - 1
    BY <2>1, <1>2
  <2> QED BY <2>2, <1>2, <1>1 DEF LogInv
<1> QED BY <1>3, <1>4, <1>5 DEF f

(* The oldest retained sample is in the oldest retained block. *)
LEMMA OldestIs ==
  ASSUME LogInv, log # <<>>
  PROVE  \E b \in 1..Len(log) :
           /\ oldest_sample = {MaxOf(log[b].first_sample, oldest_valid_sample)}
           /\ oldest_valid_block < b /\ oldest_valid_sample < EndOf(log[b])
           /\ \A a \in 1..Len(log) :
                oldest_valid_block < a /\ oldest_valid_sample < EndOf(log[a]) => b <= a
<1>1. /\ Len(log) \in Nat \ {0} /\ oldest_valid_sample \in Nat /\ oldest_valid_block \in Nat
      /\ oldest_valid_block < Len(log) /\ oldest_valid_sample < EndOf(log[Len(log)])
  BY Newest
<1>2. /\ Ahead(oldest_valid_sample) \in SUBSET Nat
      /\ \A b \in Ahead(oldest_valid_sample) :
           b + 1 \in 1..Len(log) /\ EndOf(log[b + 1]) > oldest_valid_sample /\ Meta(b) = log[b + 1]
      /\ \A b \in 1..Len(log) : EndOf(log[b]) > oldest_valid_sample => b - 1 \in Ahead(oldest_valid_sample)
  BY <1>1, AheadIs
<1>3. \A b \in 1..Len(log) :
        oldest_valid_block < b /\ oldest_valid_sample < EndOf(log[b]) => b - 1 \in Retained
  BY <1>1, <1>2 DEF Retained
<1>4. Len(log) - 1 \in Retained /\ Retained \in SUBSET Nat
  BY <1>1, <1>2, <1>3 DEF Retained
<1> DEFINE f == First(Retained)
<1>5. f \in Retained /\ f \in Nat /\ \A n \in Retained : f <= n
  BY <1>4, FirstIs
<1>6. oldest_sample = {MaxOf(Meta(f).first_sample, oldest_valid_sample)}
  BY <1>4 DEF oldest_sample
<1> HIDE DEF f
<1> DEFINE b == f + 1
<1>7. /\ b \in 1..Len(log) /\ Meta(f) = log[b]
      /\ oldest_valid_block < b /\ oldest_valid_sample < EndOf(log[b])
  BY <1>1, <1>2, <1>5 DEF Retained
<1>8. ASSUME NEW a \in 1..Len(log), oldest_valid_block < a, oldest_valid_sample < EndOf(log[a])
      PROVE  b <= a
  <2>1. a - 1 \in Retained
    BY <1>3, <1>8
  <2>2. f <= a - 1
    BY <2>1, <1>5
  <2> QED BY <2>2, <1>1, <1>5
<1> QED BY <1>6, <1>7, <1>8

(* ... before the newest sample, and an index of the stream. *)
LEMMA OldestInStream ==
  ASSUME LogInv, log # <<>>, NEW o \in oldest_sample
  PROVE  o \in 0..MaxIndex /\ o < StreamEnd /\ oldest_valid_sample <= o
<1>1. PICK b \in 1..Len(log) : /\ oldest_sample = {MaxOf(log[b].first_sample, oldest_valid_sample)}
                               /\ oldest_valid_sample < EndOf(log[b])
  BY OldestIs
<1>2. /\ log[b].first_sample \in Nat /\ EndOf(log[b]) \in 1..MaxIndex
      /\ log[b].first_sample < EndOf(log[b]) /\ EndOf(log[b]) <= StreamEnd
      /\ oldest_valid_sample \in Nat /\ StreamEnd \in 1..MaxIndex
  BY Newest
<1> QED BY <1>1, <1>2 DEF MaxOf

LEMMA OldestOfEmpty ==
  ASSUME LogInv, log = <<>>
  PROVE  oldest_sample = {} /\ next_sample = {}
<1>1. meta_head = 0
  BY DEF LogInv
<1> QED BY <1>1 DEF oldest_sample, next_sample, Retained, Ahead

LEMMA NextIs ==
  ASSUME LogInv, log # <<>>
  PROVE  next_sample = {StreamEnd}
<1>1. meta_head = Len(log) /\ Len(log) \in Nat \ {0} /\ (Len(log) - 1) + 1 = Len(log)
  BY Newest DEF LogInv
<1> QED BY <1>1, Newest DEF next_sample, Meta

(* What is read next is in the stream, and ahead. *)
LEMMA ReadForward ==
  ASSUME LogInv, NEW i \in 0..MaxIndex, Ahead(i) # {}
  PROVE  /\ EndOf(Meta(First(Ahead(i)))) \in 0..MaxIndex
         /\ i < EndOf(Meta(First(Ahead(i))))
<1>1. PICK b \in 1..Len(log) : Meta(First(Ahead(i))) = log[b] /\ EndOf(log[b]) > i
  BY NextBlock
<1>2. log # <<>>
  BY AheadIs
<1> QED BY <1>1, <1>2, Newest

(* A lapped reader resumes further on, at a sample there is. *)
LEMMA ResumeForward ==
  ASSUME LogInv, NEW i \in 0..MaxIndex, Ahead(i) # {}, Lapped(i),
         NEW j \in oldest_sample \cup {Meta(meta_head - 1).first_sample}
  PROVE  j \in 0..MaxIndex /\ i < j /\ Ahead(j) # {}
<1>1. PICK b \in 1..Len(log) :
        /\ First(Ahead(i)) = b - 1 /\ EndOf(log[b]) > i
        /\ \A a \in 1..Len(log) : EndOf(log[a]) > i => b <= a
        /\ Start(i) = MaxOf(log[b].first_sample, i)
  BY NextBlock
<1>2. log # <<>> /\ Len(log) \in 1..Len(log)
  BY AheadIs DEF LogInv
<1>3. b - 1 < oldest_valid_block \/ MaxOf(log[b].first_sample, i) < oldest_valid_sample
  BY <1>1 DEF Lapped
<1>4. /\ StreamEnd \in 1..MaxIndex /\ StreamEnd = EndOf(log[Len(log)])
      /\ oldest_valid_sample \in Nat /\ oldest_valid_sample <= log[Len(log)].first_sample
      /\ oldest_valid_block \in Nat /\ oldest_valid_block < Len(log)
      /\ \A a \in 1..Len(log) : /\ log[a].first_sample \in Nat /\ EndOf(log[a]) \in 1..MaxIndex
                                /\ log[a].first_sample < EndOf(log[a])
  BY <1>2, Newest
<1>5. \A a, c \in 1..Len(log) : a < c => EndOf(log[a]) <= log[c].first_sample
  BY DEF LogInv
<1>6. ASSUME NEW c \in 1..Len(log), oldest_valid_block < c, b - 1 < oldest_valid_block
      PROVE  i < log[c].first_sample
  <2>1. b < c
    BY <1>6, <1>4
  <2>2. EndOf(log[b]) <= log[c].first_sample
    BY <2>1, <1>5
  <2> QED BY <2>2, <1>1, <1>4
<1>7. CASE j = Meta(meta_head - 1).first_sample
  <2>1. j = log[Len(log)].first_sample
    BY <1>7, <1>2 DEF LogInv, Meta
  <2>2. j \in 0..MaxIndex /\ j < StreamEnd /\ oldest_valid_sample <= j
    BY <2>1, <1>2, <1>4
  <2>3. Ahead(j) # {}
    BY <2>2, <1>2, AheadIs
  <2>4. i < j
    <3>1. CASE b - 1 < oldest_valid_block
      BY <2>1, <3>1, <1>2, <1>4, <1>6
    <3>2. CASE MaxOf(log[b].first_sample, i) < oldest_valid_sample
      <4>1. i < oldest_valid_sample
        BY <3>2, <1>4 DEF MaxOf
      <4> QED BY <2>2, <4>1, <1>4
    <3> QED BY <1>3, <3>1, <3>2
  <2> QED BY <2>2, <2>3, <2>4
<1>8. CASE j \in oldest_sample
  <2>1. j \in 0..MaxIndex /\ j < StreamEnd /\ oldest_valid_sample <= j
    BY <1>2, <1>8, OldestInStream
  <2>2. Ahead(j) # {}
    BY <2>1, <1>2, AheadIs
  <2>3. PICK c \in 1..Len(log) : /\ j = MaxOf(log[c].first_sample, oldest_valid_sample)
                                 /\ oldest_valid_block < c
    BY <1>2, <1>8, OldestIs
  <2>4. log[c].first_sample \in Nat /\ log[c].first_sample <= j
    BY <2>3, <1>4 DEF MaxOf
  <2>5. CASE b - 1 < oldest_valid_block
    BY <2>1, <2>2, <2>3, <2>4, <2>5, <1>6
  <2>6. CASE MaxOf(log[b].first_sample, i) < oldest_valid_sample
    <3>1. i < oldest_valid_sample
      BY <2>6, <1>4 DEF MaxOf
    <3> QED BY <2>1, <2>2, <3>1, <1>4
  <2> QED BY <1>3, <2>5, <2>6
<1> QED BY <1>7, <1>8

-----------------------------------------------------------------------------
(* A reader's step *)

ReaderStages == {"new", "claimed", "reading", "read", "done"}

(* What a step of r does, whichever it is: it moves r forward, or registers it outside the    *)
(* scan with what has been dropped, or releases its claim; and nothing else.                  *)
Moves(r) ==
  /\ UNCHANGED <<ringVars, holding, cpc, waiting, scanner, stop>>
  /\ claim' \in [Readers -> 0..Released] /\ pos' \in [Readers -> 0..MaxIndex]
  /\ rpc' \in [Readers -> ReaderStages] /\ spared' \in [Readers -> Nat]
  /\ cursors' \subseteq Readers
  /\ \A q \in Readers \ {r} : /\ claim'[q] = claim[q] /\ pos'[q] = pos[q]
                              /\ rpc'[q] = rpc[q] /\ spared'[q] = spared[q]
  /\ {q \in cursors : claim[q] # Released} \subseteq cursors'
  /\ rpc'[r] # "new"
  /\ rpc'[r] = "done" => claim'[r] = Released
  /\ rpc'[r] # "done" =>
       /\ r \in cursors' /\ claim'[r] <= pos'[r]
       /\ rpc'[r] = "reading" => claim'[r] = pos'[r] \/ Ahead(pos'[r]) # {}
       /\ rpc[r] = "new" => cpc # "scan" /\ spared'[r] = Dropped
       /\ rpc[r] # "new" => /\ Registered(r) /\ claim[r] <= claim'[r] /\ pos[r] <= pos'[r]
                            /\ spared'[r] = spared[r] \/ spared[r] <= pos'[r]

LEMMA DroppedIs ==
  ASSUME LogInv, GateType
  PROVE  Dropped \in Nat
<1>1. /\ oldest_valid_sample \in Nat
  <2>1. CASE log = <<>>
    BY <2>1 DEF LogInv, oldest_valid_sample, SatSub
  <2>2. CASE log # <<>>
    BY <2>2, Newest
  <2> QED BY <2>1, <2>2
<1>2. SatSub(offer.first + offer.len, SampleCap) \in Nat
  BY DEF GateType, SatSub
<1> QED BY <1>1, <1>2 DEF Dropped, MaxOf

LEMMA ReaderMoves ==
  ASSUME LogInv, GateType, CursorInv, NEW r \in Readers,
         \/ Begin(r) \/ (\E start \in 0..MaxIndex : Attach(r, start))
         \/ ReadStep(r) \/ Drop(r)
  PROVE  Moves(r)
<1> USE DEF ReaderStages
<1>1. /\ claim \in [Readers -> 0..Released] /\ pos \in [Readers -> 0..MaxIndex]
      /\ rpc \in [Readers -> ReaderStages] /\ spared \in [Readers -> Nat]
      /\ cursors \subseteq Readers
      /\ pos[r] \in 0..MaxIndex /\ claim[r] \in 0..Released /\ spared[r] \in Nat
  BY DEF GateType
<1>2. /\ Registered(r) => r \in cursors /\ claim[r] <= pos[r]
      /\ rpc[r] = "reading" => claim[r] = pos[r] \/ Ahead(pos[r]) # {}
      /\ rpc[r] = "new" => pos[r] = 0
  BY DEF CursorInv
<1>3. 0 \in 0..MaxIndex /\ Released \in Nat /\ MaxIndex < Released /\ Released = MaxIndex + 1
  BY DEF Released
<1>4. ASSUME rpc[r] = "new", NEW from \in 0..MaxIndex, cpc # "scan", Register(r, from),
             NEW pc \in {"claimed", "reading"}, rpc' = [rpc EXCEPT ![r] = pc],
             pos' = [pos EXCEPT ![r] = from],
             UNCHANGED <<ringVars, holding, cpc, waiting, scanner, stop>>
      PROVE  Moves(r)
  <2>1. Dropped \in Nat
    BY DroppedIs
  <2>2. /\ cursors' = {q \in cursors : claim[q] # Released} \cup {r}
        /\ claim' = [claim EXCEPT ![r] = from]
        /\ spared' = [spared EXCEPT ![r] = Dropped]
    BY <1>4 DEF Register
  <2>3. from \in 0..Released
    BY <1>3
  <2> HIDE DEF Dropped
  <2> QED BY <1>1, <1>4, <2>1, <2>2, <2>3 DEF Moves
<1>5. CASE Begin(r)
  <2>1. pos' = [pos EXCEPT ![r] = 0]
    BY <1>1, <1>2, <1>5 DEF Begin
  <2> QED BY <1>3, <1>4, <1>5, <2>1 DEF Begin, Unlocked
<1>6. CASE \E start \in 0..MaxIndex : Attach(r, start)
  BY <1>4, <1>6 DEF Attach, Unlocked
<1>7. ASSUME Registered(r), NEW j \in 0..MaxIndex, pos[r] <= j, pos' = [pos EXCEPT ![r] = j],
             NEW c \in {claim[r], j}, claim' = [claim EXCEPT ![r] = c],
             NEW pc \in {"reading", "read"}, rpc' = [rpc EXCEPT ![r] = pc],
             pc = "reading" => c = j \/ Ahead(j) # {},
             NEW s \in Nat, spared' = [spared EXCEPT ![r] = s], s = spared[r] \/ spared[r] <= j,
             cursors' = cursors, UNCHANGED <<ringVars, holding, cpc, waiting, scanner, stop>>
      PROVE  Moves(r)
  <2>1. c \in 0..Released /\ c <= j /\ claim[r] <= c
    BY <1>1, <1>2, <1>3, <1>7
  <2>2. rpc[r] # "new"
    BY <1>7 DEF Registered
  <2>3. /\ claim'[r] = c /\ pos'[r] = j /\ rpc'[r] = pc /\ spared'[r] = s
        /\ claim' \in [Readers -> 0..Released] /\ pos' \in [Readers -> 0..MaxIndex]
        /\ rpc' \in [Readers -> ReaderStages] /\ spared' \in [Readers -> Nat]
        /\ \A q \in Readers \ {r} : /\ claim'[q] = claim[q] /\ pos'[q] = pos[q]
                                    /\ rpc'[q] = rpc[q] /\ spared'[q] = spared[q]
    BY <1>1, <1>7, <2>1
  <2> QED BY <1>1, <1>2, <1>7, <2>1, <2>2, <2>3 DEF Moves
<1>8. CASE StartChain(r)
  <2> DEFINE j == IF oldest_sample = {} THEN pos[r] ELSE MaxOf(pos[r], First(oldest_sample))
  <2>1. Registered(r) /\ rpc' = [rpc EXCEPT ![r] = "reading"]
        /\ claim' = [claim EXCEPT ![r] = j] /\ pos' = [pos EXCEPT ![r] = j]
        /\ spared' = spared /\ cursors' = cursors
        /\ UNCHANGED <<ringVars, holding, cpc, waiting, scanner, stop>>
    BY <1>8 DEF StartChain, Registered
  <2>2. j \in 0..MaxIndex /\ pos[r] <= j
    <3>1. CASE oldest_sample = {}
      BY <3>1, <1>1
    <3>2. CASE oldest_sample # {}
      <4>1. log # <<>>
        BY <3>2, OldestOfEmpty
      <4>2. \A o \in oldest_sample : o \in 0..MaxIndex
        BY <4>1, OldestInStream
      <4>3. First(oldest_sample) \in 0..MaxIndex
        BY <3>2, <4>2, FirstIs
      <4> QED BY <3>2, <4>3, <1>1 DEF MaxOf
    <3> QED BY <3>1, <3>2
  <2>3. spared' = [spared EXCEPT ![r] = spared[r]]
    BY <1>1, <2>1
  <2> HIDE DEF j
  <2> QED BY <1>1, <1>7, <2>1, <2>2, <2>3
<1>9. CASE Read(r)
  <2> DEFINE j == EndOf(Meta(First(Ahead(pos[r]))))
             s == IF pos'[r] >= spared[r] THEN 0 ELSE spared[r]
  <2>1. rpc[r] = "reading" /\ Ahead(pos[r]) # {} /\ pos' = [pos EXCEPT ![r] = j]
        /\ spared' = [spared EXCEPT ![r] = s] /\ rpc' = [rpc EXCEPT ![r] = "read"]
        /\ claim' = claim /\ cursors' = cursors
        /\ UNCHANGED <<ringVars, holding, cpc, waiting, scanner, stop>>
    BY <1>1, <1>9 DEF Read, Reads, claims
  <2>2. j \in 0..MaxIndex /\ pos[r] <= j
    BY <1>1, <2>1, ReadForward
  <2> HIDE DEF j
  <2>3. s \in Nat /\ (s = spared[r] \/ spared[r] <= j)
    BY <1>1, <2>1, <2>2
  <2>4. claim' = [claim EXCEPT ![r] = claim[r]] /\ Registered(r)
    BY <1>1, <2>1 DEF Registered
  <2> HIDE DEF s
  <2> QED BY <1>7, <2>1, <2>2, <2>3, <2>4
<1>10. CASE SetCursor(r)
  <2> DEFINE j == pos[r]
             s == spared[r]
  <2>1. /\ Registered(r) /\ pos' = [pos EXCEPT ![r] = j] /\ spared' = [spared EXCEPT ![r] = s]
        /\ claim' = [claim EXCEPT ![r] = j] /\ rpc' = [rpc EXCEPT ![r] = "reading"]
        /\ cursors' = cursors /\ UNCHANGED <<ringVars, holding, cpc, waiting, scanner, stop>>
    BY <1>1, <1>10 DEF SetCursor, Registered
  <2>2. j \in 0..MaxIndex /\ pos[r] <= j /\ s \in Nat /\ s = spared[r]
    BY <1>1
  <2> HIDE DEF j, s
  <2> QED BY <1>7, <2>1, <2>2
<1>11. CASE Overrun(r)
  <2>1. PICK j \in oldest_sample \cup {Meta(meta_head - 1).first_sample} :
          /\ pos' = [pos EXCEPT ![r] = j]
          /\ spared' = [spared EXCEPT ![r] = IF j >= spared[r] THEN 0 ELSE spared[r]]
          /\ claim' \in {claim, [claim EXCEPT ![r] = j]}
    BY <1>1, <1>11 DEF Overrun
  <2>2. rpc[r] = "reading" /\ Ahead(pos[r]) # {} /\ Lapped(pos[r])
        /\ rpc' = [rpc EXCEPT ![r] = "reading"]
        /\ cursors' = cursors /\ UNCHANGED <<ringVars, holding, cpc, waiting, scanner, stop>>
    BY <1>1, <1>11 DEF Overrun, Reads
  <2>3. j \in 0..MaxIndex /\ pos[r] < j /\ Ahead(j) # {}
    BY <1>1, <2>2, ResumeForward
  <2> DEFINE s == IF j >= spared[r] THEN 0 ELSE spared[r]
  <2>4. s \in Nat /\ (s = spared[r] \/ spared[r] <= j)
    BY <1>1, <2>3
  <2>5. PICK c \in {claim[r], j} : claim' = [claim EXCEPT ![r] = c]
    BY <1>1, <2>1
  <2>6. Registered(r) /\ spared' = [spared EXCEPT ![r] = s] /\ pos[r] <= j
    BY <1>1, <2>1, <2>2, <2>3 DEF Registered
  <2> HIDE DEF s
  <2> QED BY <1>7, <2>1, <2>2, <2>3, <2>4, <2>5, <2>6
<1>12. CASE Drop(r)
  <2>1. /\ claim' = [claim EXCEPT ![r] = Released] /\ rpc' = [rpc EXCEPT ![r] = "done"]
        /\ cursors' = cursors /\ pos' = pos /\ spared' = spared
        /\ UNCHANGED <<ringVars, holding, cpc, waiting, scanner, stop>>
    BY <1>12 DEF Drop
  <2> QED BY <1>1, <1>3, <2>1 DEF Moves
<1> QED BY <1>5, <1>6, <1>8, <1>9, <1>10, <1>11, <1>12 DEF ReadStep

-----------------------------------------------------------------------------
(* Every step *)

LEMMA GateSteps ==
  ASSUME LogInv, GateType, CursorInv, [Next]_vars
  PROVE  \/ \E r \in Readers : Moves(r)
         \/ \E gap \in Gaps, n \in BlockLens : Offer(gap, n)
         \/ Poll \/ Load \/ Hold \/ Admit \/ Push \/ PushRefused
         \/ End \/ SetStop \/ UNCHANGED vars
<1>1. ASSUME NEW r \in Readers,
             \/ Begin(r) \/ (\E start \in 0..MaxIndex : Attach(r, start)) \/ ReadStep(r) \/ Drop(r)
      PROVE  Moves(r)
  BY <1>1, ReaderMoves
<1> QED BY <1>1 DEF Next, CaptureStep

(* While the ring stands still, so does what its handles see. *)
LEMMA RingStays ==
  ASSUME UNCHANGED ringVars
  PROVE  /\ oldest_sample' = oldest_sample /\ next_sample' = next_sample
         /\ StreamEnd' = StreamEnd /\ oldest_valid_sample' = oldest_valid_sample
         /\ \A i \in Nat : Ahead(i)' = Ahead(i)
         /\ \A i \in Nat : Produced(i)' = Produced(i)
  BY DEF ringVars, oldest_sample, next_sample, Retained, Ahead, First, Meta, EndOf, MaxOf,
         oldest_valid_sample, oldest_valid_block, meta_write_end, SatSub, StreamEnd, Produced

LEMMA PushIs ==
  ASSUME LogInv, GateType, Push
  PROVE  /\ Len(log') = Len(log) + 1 /\ log' \in Seq(Block)
         /\ \A b \in 1..Len(log) : log'[b] = log[b]
         /\ log'[Len(log) + 1].first_sample = offer.first
         /\ log'[Len(log) + 1].len = offer.len
         /\ EndOf(log'[Len(log) + 1]) = offer.first + offer.len
         /\ offer.first \in Nat /\ offer.len \in 1..SampleCap /\ offer.first + offer.len <= MaxIndex
         /\ log # <<>> => StreamEnd <= offer.first
         /\ StreamEnd' = offer.first + offer.len
         /\ sample_write_end' = offer.first + offer.len
         /\ oldest_valid_sample' = SatSub(offer.first + offer.len, SampleCap)
<1>1. offer.first \in Nat /\ offer.len \in Nat
  BY DEF GateType
<1>2. PushError(offer.first, offer.len, StreamEnd) = "Ok"
  BY DEF Push
<1>3. /\ offer.len # 0 /\ offer.len <= SampleCap /\ offer.first + offer.len <= MaxIndex
      /\ StreamEnd # -1 => StreamEnd <= offer.first
  <2>1. StreamEnd \in Int
    <3>1. CASE log = <<>>
      BY <3>1 DEF StreamEnd
    <3>2. CASE log # <<>>
      BY <3>2, Newest
    <3> QED BY <3>1, <3>2
  <2> QED BY <1>1, <1>2, <2>1 DEF PushError
<1>4. log # <<>> => StreamEnd <= offer.first
  <2> SUFFICES ASSUME log # <<>> PROVE StreamEnd <= offer.first
    OBVIOUS
  <2>1. StreamEnd \in 1..MaxIndex
    BY Newest
  <2> QED BY <1>3, <2>1
<1>5. GapsBefore(offer.first) \in Nat
  <2>1. CASE log = <<>>
    BY <2>1 DEF GapsBefore
  <2>2. CASE log # <<>>
    <3>1. log[Len(log)] \in Block /\ StreamEnd = EndOf(log[Len(log)]) /\ StreamEnd \in Nat
      BY <2>2, Newest
    <3>2. log[Len(log)].gaps_total \in Nat
      BY <3>1 DEF Block
    <3> QED BY <2>2, <3>1, <3>2, <1>1, <1>4 DEF GapsBefore
  <2> QED BY <2>1, <2>2
<1>6. PICK p \in Provenances :
        log' = Append(log, [first_sample |-> offer.first, len |-> offer.len,
                            gaps_total |-> GapsBefore(offer.first), provenance |-> p])
  BY DEF Push
<1> DEFINE m == [first_sample |-> offer.first, len |-> offer.len,
                 gaps_total |-> GapsBefore(offer.first), provenance |-> p]
<1>7. m \in Block /\ m.first_sample = offer.first /\ m.len = offer.len
      /\ EndOf(m) = offer.first + offer.len
  BY <1>1, <1>5 DEF Block, EndOf
<1>8. log' = Append(log, m) /\ log \in Seq(Block)
  BY <1>6 DEF LogInv
<1> HIDE DEF m
<1>9. /\ Len(log') = Len(log) + 1 /\ log' \in Seq(Block) /\ Len(log) \in Nat
      /\ \A b \in 1..Len(log) : log'[b] = log[b]
      /\ log'[Len(log) + 1] = m /\ log' # <<>>
  BY <1>7, <1>8
<1>10. EndOf(log'[Len(log) + 1]) = offer.first + offer.len
  BY <1>7, <1>9
<1>11. StreamEnd' = offer.first + offer.len
  BY <1>9, <1>7 DEF StreamEnd, EndOf
<1>12. /\ sample_write_end' = offer.first + offer.len
       /\ oldest_valid_sample' = SatSub(offer.first + offer.len, SampleCap)
  BY DEF Push, oldest_valid_sample, SatSub
<1> QED BY <1>1, <1>3, <1>4, <1>7, <1>9, <1>10, <1>11, <1>12

LEMMA LogStep ==
  ASSUME LogInv, GateType, CursorInv, [Next]_vars
  PROVE  LogInv'
<1>1. ASSUME UNCHANGED ringVars PROVE LogInv'
  BY <1>1 DEF ringVars, LogInv, EndOf
<1>2. CASE Push
  <2>1. /\ Len(log') = Len(log) + 1 /\ log' \in Seq(Block) /\ Len(log) \in Nat
        /\ \A b \in 1..Len(log) : log'[b] = log[b]
        /\ log'[Len(log) + 1].first_sample = offer.first /\ log'[Len(log) + 1].len = offer.len
        /\ EndOf(log'[Len(log) + 1]) = offer.first + offer.len
        /\ offer.first \in Nat /\ offer.len \in 1..SampleCap /\ offer.first + offer.len <= MaxIndex
        /\ log # <<>> => StreamEnd <= offer.first
        /\ sample_write_end' = offer.first + offer.len
    BY <1>2, PushIs DEF LogInv
  <2>2. phase' = "idle" /\ closed' \in BOOLEAN /\ meta_head' = Len(log') /\ log' # <<>>
    BY <1>2, <2>1 DEF LogInv, Push
  <2>3. sample_write_end' = EndOf(log'[Len(log')])
    BY <2>1
  <2>4. ASSUME NEW b \in 1..Len(log')
        PROVE  log'[b].len \in 1..SampleCap /\ EndOf(log'[b]) <= MaxIndex
    <3>1. CASE b \in 1..Len(log)
      BY <3>1, <2>1 DEF LogInv
    <3>2. CASE b = Len(log) + 1
      BY <3>2, <2>1
    <3> QED BY <2>1, <3>1, <3>2
  <2>5. ASSUME NEW a \in 1..Len(log'), NEW b \in 1..Len(log'), a < b
        PROVE  EndOf(log'[a]) <= log'[b].first_sample
    <3>1. a \in 1..Len(log) /\ log # <<>>
      BY <2>1, <2>5
    <3>2. CASE b \in 1..Len(log)
      BY <3>1, <3>2, <2>1, <2>5 DEF LogInv
    <3>3. CASE b = Len(log) + 1
      <4>1. EndOf(log[a]) <= StreamEnd /\ EndOf(log[a]) \in Nat /\ StreamEnd \in Nat
        BY <3>1, Newest
      <4> QED BY <3>1, <3>3, <4>1, <2>1
    <3> QED BY <2>1, <3>2, <3>3
  <2> QED BY <2>1, <2>2, <2>3, <2>4, <2>5 DEF LogInv, EndOf
<1>3. CASE End
  BY <1>3 DEF End, Close, LogInv, EndOf
<1> QED BY <1>1, <1>2, <1>3, GateSteps
        DEF Moves, Offer, Poll, Load, Hold, Admit, PushRefused, SetStop, vars

LEMMA SeenIs ==
  ASSUME LogInv
  PROVE  /\ oldest_sample \in SUBSET Nat /\ next_sample \in SUBSET Nat
         /\ StreamEnd \in Int /\ StreamEnd <= MaxOf(StreamEnd, 0) /\ MaxOf(StreamEnd, 0) \in Nat
<1>1. CASE log = <<>>
  BY <1>1, OldestOfEmpty DEF StreamEnd, MaxOf
<1>2. CASE log # <<>>
  <2>1. \A o \in oldest_sample : o \in Nat
    BY <1>2, OldestInStream
  <2>2. next_sample = {StreamEnd} /\ StreamEnd \in Nat
    BY <1>2, NextIs, Newest
  <2> QED BY <2>1, <2>2 DEF MaxOf
<1> QED BY <1>1, <1>2

(* The block in hand. *)
LEMMA OfferIs ==
  ASSUME LogInv, GateType, NEW gap \in Gaps, NEW n \in BlockLens, Offer(gap, n)
  PROVE  /\ offer' \in [first : Nat, len : Nat] /\ offer'.len > 0 /\ offer'.len = n
         /\ StreamEnd <= offer'.first
         /\ view' \in [oldest : SUBSET Nat, next : SUBSET Nat]
         /\ view'.oldest = oldest_sample /\ view'.next = next_sample
<1>1. gap \in Nat /\ n \in Nat /\ n > 0
  BY GateAssumption DEF Offer
<1>2. offer' = [first |-> MaxOf(StreamEnd, 0) + gap, len |-> n]
      /\ view' = [oldest |-> oldest_sample, next |-> next_sample]
  BY DEF Offer
<1> QED BY <1>1, <1>2, SeenIs

LEMMA TypeStep ==
  ASSUME LogInv, GateType, CursorInv, [Next]_vars
  PROVE  GateType'
<1>1. ASSUME NEW r \in Readers, Moves(r) PROVE GateType'
  BY <1>1 DEF Moves, GateType, ReaderStages, waiting, scanner
<1>2. ASSUME NEW gap \in Gaps, NEW n \in BlockLens, Offer(gap, n) PROVE GateType'
  <2>1. offer' \in [first : Nat, len : Nat] /\ view' \in [oldest : SUBSET Nat, next : SUBSET Nat]
    BY <1>2, OfferIs
  <2> QED BY <1>2, <2>1 DEF Offer, GateType, claims, readers, scanner
<1>3. CASE Poll
  <2>1. Released \in 0..Released
    BY DEF Released
  <2> QED BY <1>3, <2>1 DEF Poll, GateType, claims, readers, waiting
<1>4. CASE Load
  BY <1>4 DEF Load, GateType, claims, readers, waiting
<1>5. CASE Hold \/ Admit
  <2>1. Released \in 0..Released /\ NoView \in [oldest : SUBSET Nat, next : SUBSET Nat]
    BY DEF Released, NoView
  <2> QED BY <1>5, <2>1 DEF Hold, Admit, GateType, claims, readers, scanner
<1>6. CASE Push \/ PushRefused
  <2>1. NoBlock \in [first : Nat, len : Nat]
    BY DEF NoBlock
  <2> QED BY <1>6, <2>1 DEF Push, PushRefused, GateType, claims, readers, scanner
<1>7. CASE End \/ SetStop \/ UNCHANGED vars
  BY <1>7 DEF End, SetStop, vars, GateType, claims, readers, waiting, scanner
<1> QED BY <1>1, <1>2, <1>3, <1>4, <1>5, <1>6, <1>7, GateSteps

LEMMA CaptureStays ==
  ASSUME LogInv, GateType, CursorInv, CaptureInv, [Next]_vars
  PROVE  CaptureInv'
<1>1. ASSUME UNCHANGED ringVars, UNCHANGED <<offer, view>>,
             \/ cpc' = cpc
             \/ cpc' = "source"
             \/ cpc \in {"poll", "scan"}
      PROVE  CaptureInv'
  BY <1>1, RingStays DEF CaptureInv
<1>2. ASSUME NEW r \in Readers, Moves(r) PROVE CaptureInv'
  BY <1>1, <1>2 DEF Moves, waiting
<1>3. ASSUME NEW gap \in Gaps, NEW n \in BlockLens, Offer(gap, n) PROVE CaptureInv'
  <2>1. UNCHANGED ringVars /\ cpc' = "poll"
    BY <1>3 DEF Offer
  <2> QED BY <1>3, <2>1, OfferIs, RingStays DEF CaptureInv
<1>4. CASE Poll \/ Load \/ Hold
  BY <1>1, <1>4 DEF Poll, Load, Hold, Scanned, waiting
<1>5. CASE Admit
  <2>1. UNCHANGED ringVars /\ offer' = offer /\ cpc' = "push" /\ cpc = "scan"
    BY <1>5 DEF Admit, Scanned
  <2> QED BY <2>1, RingStays DEF CaptureInv
<1>6. CASE Push \/ PushRefused
  BY <1>6 DEF Push, PushRefused, CaptureInv
<1>7. CASE End
  BY <1>7 DEF End, CaptureInv
<1>8. CASE SetStop \/ UNCHANGED vars
  BY <1>1, <1>8 DEF SetStop, vars, waiting
<1> QED BY <1>2, <1>3, <1>4, <1>5, <1>6, <1>7, <1>8, GateSteps

LEMMA HoldStep ==
  ASSUME LogInv, GateType, CursorInv, HoldInv, [Next]_vars
  PROVE  HoldInv'
<1>1. ASSUME UNCHANGED <<holding, waited>>,
             cpc' = cpc \/ cpc' \in {"poll", "scan"} \/ cpc \notin {"poll", "scan"}
      PROVE  HoldInv'
  BY <1>1 DEF HoldInv
<1>2. CASE Hold
  BY <1>2 DEF Hold, HoldInv, GateType
<1>3. CASE Admit
  BY <1>3 DEF Admit, HoldInv, GateType
<1> QED BY <1>1, <1>2, <1>3, GateSteps
        DEF Moves, Offer, Poll, Load, Push, PushRefused, End, SetStop, vars, waiting

LEMMA CursorStep ==
  ASSUME LogInv, GateType, CursorInv, [Next]_vars
  PROVE  CursorInv'
<1>1. ASSUME NEW r \in Readers, Moves(r) PROVE CursorInv'
  <2> SUFFICES ASSUME NEW q \in Readers
               PROVE  /\ Registered(q)' => q \in cursors' /\ claim'[q] <= pos'[q]
                      /\ ~Registered(q)' => claim'[q] = Released
                      /\ rpc'[q] = "reading" => claim'[q] = pos'[q] \/ Ahead(pos[q])' # {}
                      /\ rpc'[q] = "new" => pos'[q] = 0
    BY DEF CursorInv
  <2>1. UNCHANGED ringVars /\ pos'[q] \in Nat /\ claim'[q] \in Nat /\ rpc'[q] \in ReaderStages
    BY <1>1 DEF Moves, Released
  <2>2. Ahead(pos[q])' = Ahead(pos'[q])
    BY <2>1 DEF ringVars, Ahead, Meta, EndOf
  <2>3. CASE q = r
    BY <1>1, <2>1, <2>2, <2>3 DEF Moves, Registered, ReaderStages
  <2>4. CASE q # r
    <3>1. claim'[q] = claim[q] /\ pos'[q] = pos[q] /\ rpc'[q] = rpc[q]
      BY <1>1, <2>4 DEF Moves
    <3>2. /\ Registered(q) => q \in cursors /\ claim[q] <= pos[q]
          /\ ~Registered(q) => claim[q] = Released
          /\ rpc[q] = "reading" => claim[q] = pos[q] \/ Ahead(pos[q]) # {}
          /\ rpc[q] = "new" => pos[q] = 0
      BY DEF CursorInv
    <3>3. Registered(q)' <=> Registered(q)
      BY <3>1 DEF Registered
    <3>4. Registered(q) => claim[q] # Released
      <4>1. pos[q] \in 0..MaxIndex /\ claim[q] \in Nat
        BY DEF GateType, Released
      <4> QED BY <4>1, <3>2 DEF Released
    <3>5. Registered(q) => q \in cursors'
      BY <1>1, <3>2, <3>4 DEF Moves
    <3> QED BY <2>2, <3>1, <3>2, <3>3, <3>5
  <2> QED BY <2>3, <2>4
<1>2. ASSUME UNCHANGED <<claims, readers>>, UNCHANGED ringVars PROVE CursorInv'
  <2>1. \A q \in Readers : pos[q] \in Nat
    BY DEF GateType
  <2>2. \A q \in Readers : Ahead(pos[q])' = Ahead(pos[q])
    BY <1>2, RingStays, <2>1 DEF readers
  <2> QED BY <1>2, <2>2 DEF CursorInv, Registered, claims, readers
<1>3. CASE Push
  <2>1. \A q \in Readers : pos[q] \in Nat
    BY DEF GateType
  <2>2. UNCHANGED <<claims, readers>>
    BY <1>3 DEF Push
  <2>3. ASSUME NEW q \in Readers, Ahead(pos[q]) # {} PROVE Ahead(pos[q])' # {}
    <3>1. log # <<>> /\ StreamEnd > pos[q]
      BY <2>1, <2>3, AheadIs
    <3>2. /\ Len(log') = Len(log) + 1 /\ StreamEnd <= offer.first /\ offer.first \in Nat
          /\ offer.len \in 1..SampleCap /\ EndOf(log'[Len(log) + 1]) = offer.first + offer.len
          /\ StreamEnd \in Nat /\ Len(log) \in Nat
      BY <1>3, <3>1, PushIs, Newest DEF LogInv
    <3>3. pos'[q] = pos[q] /\ meta_head' = Len(log) + 1
      BY <1>3, <2>2, <3>2 DEF readers, Push
    <3>4. PICK n \in Nat : n = Len(log)
      BY <3>2
    <3>5. EndOf(Meta(n))' > pos'[q]
      <4>1. EndOf(Meta(n))' = EndOf(log'[n + 1])
        BY DEF Meta, EndOf
      <4> QED BY <4>1, <3>1, <3>2, <3>3, <3>4, <2>1
    <3>6. n \in 0..(meta_head' - 1)
      BY <3>2, <3>3, <3>4
    <3> QED BY <3>5, <3>6 DEF Ahead
  <2> QED BY <2>2, <2>3 DEF CursorInv, Registered, claims, readers
<1>4. CASE End
  <2>1. UNCHANGED <<claims, readers>> /\ log' = log /\ meta_head' = meta_head
    BY <1>4 DEF End, Close
  <2>2. \A i \in Nat : Ahead(i)' = Ahead(i)
    BY <2>1 DEF Ahead, Meta, EndOf
  <2> QED BY <2>1, <2>2 DEF CursorInv, Registered, claims, readers, Ahead, Meta, EndOf
<1> QED BY <1>1, <1>2, <1>3, <1>4, GateSteps
        DEF Offer, Poll, Load, Hold, Admit, PushRefused, SetStop, vars

LEMMA ScanStep ==
  ASSUME LogInv, GateType, CursorInv, ScanInv, [Next]_vars
  PROVE  ScanInv'
<1>1. ASSUME NEW r \in Readers, Moves(r) PROVE ScanInv'
  <2> SUFFICES ASSUME cpc = "scan", NEW q \in Readers, Registered(q)', q \notin scan
               PROVE  low <= claim'[q]
    BY <1>1 DEF Moves, scanner, ScanInv
  <2>1. low \in Nat /\ claim[q] \in Nat /\ claim'[q] \in Nat
    BY <1>1 DEF GateType, Moves, Released
  <2>2. CASE q = r
    BY <1>1, <2>1, <2>2 DEF Moves, Registered, ScanInv
  <2>3. CASE q # r
    BY <1>1, <2>3 DEF Moves, Registered, ScanInv
  <2> QED BY <2>2, <2>3
<1>2. CASE Poll
  BY <1>2 DEF Poll, ScanInv, CursorInv, Registered, claims, readers
<1>3. CASE Load
  <2>1. PICK x \in scan : /\ low' = IF claim[x] < low THEN claim[x] ELSE low
                          /\ scan' = scan \ {x}
    BY <1>3 DEF Load
  <2>2. low \in Nat /\ claim[x] \in Nat /\ x \in Readers /\ \A q \in Readers : claim[q] \in Nat
    BY DEF GateType, Released
  <2>3. cpc = "scan" /\ UNCHANGED <<claims, readers>>
    BY <1>3 DEF Load
  <2> SUFFICES ASSUME NEW q \in Readers, Registered(q), q \notin scan'
               PROVE  low' <= claim[q]
    BY <2>3 DEF ScanInv, Registered, claims, readers
  <2>4. CASE q = x
    BY <2>1, <2>2, <2>4
  <2>5. CASE q # x
    BY <2>1, <2>2, <2>3, <2>5 DEF ScanInv
  <2> QED BY <2>4, <2>5
<1>4. CASE End \/ SetStop \/ UNCHANGED vars
  BY <1>4 DEF End, SetStop, vars, ScanInv, Registered, claims, readers, scanner
<1> QED BY <1>1, <1>2, <1>3, <1>4, GateSteps DEF Offer, Hold, Admit, Push, PushRefused, ScanInv

LEMMA GateInit == Init => GateInv
<1> SUFFICES ASSUME Init PROVE GateInv
  OBVIOUS
<1>1. LogInv
  <2>1. log = <<>> /\ log \in Seq(Block) /\ Len(log) = 0 /\ 1..Len(log) = {}
    BY DEF Init, RingInit
  <2>2. /\ phase = "idle" /\ closed \in BOOLEAN /\ meta_head = 0 /\ sample_write_end = 0
    BY DEF Init, RingInit
  <2>3. \A b \in 1..Len(log) : FALSE
    BY <2>1
  <2>4. sample_write_end = IF log = <<>> THEN 0 ELSE EndOf(log[Len(log)])
    BY <2>1, <2>2
  <2>5. /\ \A b \in 1..Len(log) : log[b].len \in 1..SampleCap /\ EndOf(log[b]) <= MaxIndex
        /\ \A a, b \in 1..Len(log) : a < b => EndOf(log[a]) <= log[b].first_sample
    BY <2>3
  <2>6. meta_head = Len(log)
    BY <2>1, <2>2
  <2> QED BY <2>1, <2>2, <2>4, <2>5, <2>6 DEF LogInv
<1>2. 0 \in 0..Released /\ Released \in 0..Released /\ 0 \in 0..MaxIndex /\ Early \subseteq Readers
  BY GateAssumption DEF Released, Readers
<1>3. GateType
  <2>1. /\ claim \in [Readers -> 0..Released] /\ pos \in [Readers -> 0..MaxIndex]
        /\ rpc \in [Readers -> {"new", "reading"}] /\ spared \in [Readers -> Nat]
    BY <1>2 DEF Init
  <2>2. NoBlock \in [first : Nat, len : Nat] /\ NoView \in [oldest : SUBSET Nat, next : SUBSET Nat]
    BY DEF NoBlock, NoView
  <2> QED BY <1>2, <2>1, <2>2 DEF Init, GateType
<1>4. CaptureInv /\ HoldInv /\ ScanInv
  BY DEF Init, CaptureInv, HoldInv, ScanInv
<1>5. CursorInv
  BY <1>2 DEF Init, CursorInv, Registered
<1> QED BY <1>1, <1>3, <1>4, <1>5 DEF GateInv

LEMMA GateStep == GateInv /\ [Next]_vars => GateInv'
  BY LogStep, TypeStep, CaptureStays, HoldStep, CursorStep, ScanStep DEF GateInv

(* Whatever the readers and chains do between the capture thread's steps, a registered reader *)
(* is on the list, claims nothing it has read, and bounds what the scan has found.            *)
THEOREM GateInvariant == Spec => []GateInv
  BY GateInit, GateStep, PTL DEF Spec

-----------------------------------------------------------------------------
(* A held writer *)

LEMMA MinIs ==
  ASSUME GateInv
  PROVE  /\ MinNeeded = Released \/ \E r \in cursors : MinNeeded = claim[r]
<1> DEFINE needed == {claim[r] : r \in cursors}
<1>1. needed \in SUBSET Nat /\ Released \in Nat /\ \A n \in needed : n <= Released
  BY DEF GateInv, GateType, Released
<1>2. \E m \in needed \cup {Released} : \A n \in needed : m <= n
  <2>1. needed \cup {Released} \in SUBSET Nat /\ needed \cup {Released} # {}
    BY <1>1
  <2>2. PICK m \in needed \cup {Released} : \A n \in needed \cup {Released} : m <= n
    BY <2>1, Least
  <2> QED BY <2>2
<1>3. MinNeeded \in needed \cup {Released}
  <2>1. MinNeeded = CHOOSE m \in needed \cup {Released} : \A n \in needed : m <= n
    BY DEF MinNeeded
  <2> HIDE DEF needed
  <2> QED BY <1>2, <2>1
<1> QED BY <1>3

(* As soon as every registered reader has caught up the block is admitted, whatever the gap   *)
(* before it and its length: capture and readers never wait for each other.                   *)
THEOREM HeldWriterHasACause == Spec => []HoldHasACause
<1>1. ASSUME GateInv PROVE HoldHasACause
  <2>1. holding > 0 => waited /\ cpc \in {"poll", "scan"}
    BY <1>1 DEF GateInv, HoldInv
  <2>2. ASSUME cpc = "poll", \A r \in Readers : Registered(r) => rpc[r] = "reading" /\ Ahead(pos[r]) = {}
        PROVE  admits(MinNeeded)
    <3>1. LogInv /\ view.oldest = oldest_sample /\ view.next = next_sample /\ GateType
      BY <1>1, <2>2 DEF GateInv, CaptureInv
    <3>2. CASE MinNeeded = Released
      BY <3>2 DEF admits
    <3>3. CASE log = <<>>
      BY <3>1, <3>3, OldestOfEmpty DEF admits
    <3>4. ASSUME log # <<>>, NEW r \in cursors, MinNeeded = claim[r], claim[r] # Released
          PROVE  admits(MinNeeded)
      <4>1. r \in Readers /\ pos[r] \in Nat
        BY <3>1 DEF GateType
      <4>2. Registered(r)
        BY <1>1, <3>4, <4>1 DEF GateInv, CursorInv
      <4>3. claim[r] = pos[r] /\ Ahead(pos[r]) = {}
        BY <1>1, <2>2, <4>1, <4>2 DEF GateInv, CursorInv
      <4>4. ~(StreamEnd > pos[r]) /\ StreamEnd \in Nat
        BY <3>1, <3>4, <4>1, <4>3, AheadIs, Newest
      <4>5. next_sample = {StreamEnd}
        BY <3>1, <3>4, NextIs
      <4>6. PICK o \in oldest_sample : o \in Nat
        BY <3>1, <3>4, OldestIs, SeenIs
      <4>7. MaxOf(MinNeeded, o) >= StreamEnd
        BY <3>4, <4>1, <4>3, <4>4, <4>6 DEF MaxOf
      <4> QED BY <3>1, <4>5, <4>6, <4>7 DEF admits
    <3> QED BY <1>1, <3>2, <3>3, <3>4, MinIs
  <2> QED BY <2>1, <2>2 DEF HoldHasACause
<1> QED BY <1>1, GateInvariant, PTL

-----------------------------------------------------------------------------
(* Claims *)

(* As many blocks as the ring has records for span no fewer samples than it has cells. *)
LEMMA SpacedStep ==
  ASSUME NEW m \in Nat, \A n \in BlockLens : n > 0 => m <= n,
         GateInv, Spaced(m), [Next]_vars
  PROVE  Spaced(m)'
<1>1. ASSUME log' = log PROVE Spaced(m)'
  BY <1>1 DEF Spaced, EndOf
<1>2. CASE Push
  <2>1. /\ Len(log') = Len(log) + 1 /\ Len(log) \in Nat
        /\ \A b \in 1..Len(log) : log'[b] = log[b]
        /\ EndOf(log'[Len(log) + 1]) = offer.first + offer.len
        /\ offer.first \in Nat /\ offer.len \in 1..SampleCap
        /\ log # <<>> => StreamEnd <= offer.first
    BY <1>2, PushIs DEF GateInv, LogInv
  <2>2. m <= offer.len
    BY <1>2, <2>1 DEF GateInv, CaptureInv, Push
  <2> SUFFICES ASSUME NEW a \in 1..Len(log'), NEW b \in 1..Len(log'), a <= b
               PROVE  EndOf(log'[a]) + (b - a) * m <= EndOf(log'[b])
    BY DEF Spaced, EndOf
  <2>3. CASE b \in 1..Len(log)
    <3>1. a \in 1..Len(log)
      BY <2>1, <2>3
    <3> QED BY <2>1, <2>3, <3>1 DEF Spaced
  <2>4. CASE b = Len(log) + 1 /\ a = b
    BY <2>1, <2>4
  <2>5. CASE b = Len(log) + 1 /\ a < b
    <3>1. a \in 1..Len(log) /\ Len(log) \in 1..Len(log) /\ log # <<>>
      BY <2>1, <2>5
    <3>2. EndOf(log[a]) + (Len(log) - a) * m <= EndOf(log[Len(log)])
      BY <3>1, <2>1 DEF Spaced
    <3>3. /\ EndOf(log[Len(log)]) = StreamEnd /\ StreamEnd \in Nat /\ EndOf(log[a]) \in Nat
      BY <3>1, Newest DEF GateInv
    <3>4. b - a = (Len(log) - a) + 1 /\ Len(log) - a \in Nat
      BY <2>1, <2>5, <3>1
    <3>5. \A k \in Nat : (k + 1) * m = k * m + m /\ k * m \in Nat
      OBVIOUS
    <3>6. (b - a) * m = (Len(log) - a) * m + m /\ (Len(log) - a) * m \in Nat
      BY <3>4, <3>5
    <3> HIDE DEF GateInv
    <3>7. EndOf(log'[a]) = EndOf(log[a]) /\ EndOf(log'[b]) = offer.first + offer.len
      BY <2>1, <2>5, <3>1
    <3> QED BY <2>1, <2>2, <3>1, <3>2, <3>3, <3>6, <3>7
  <2> QED BY <2>1, <2>3, <2>4, <2>5
<1>3. ASSUME LogInv, GateType, CursorInv PROVE Push \/ log' = log
  BY <1>3, GateSteps DEF Moves, Offer, Poll, Load, Hold, Admit, PushRefused, End, Close, SetStop,
                         vars, ringVars
<1> QED BY <1>1, <1>2, <1>3 DEF GateInv

(* ... so a sample still in its cell is in a block still recorded. *)
RecordsLast == \A b \in 1..Len(log) : oldest_valid_sample < EndOf(log[b]) => oldest_valid_block < b

LEMMA SpacedRecords ==
  ASSUME NEW m \in Nat, SampleCap <= m * BlockCap, LogInv, Spaced(m)
  PROVE  RecordsLast
<1> SUFFICES ASSUME NEW b \in 1..Len(log), b <= oldest_valid_block
             PROVE  EndOf(log[b]) <= oldest_valid_sample
  <2>1. \A b \in 1..Len(log) : b \in Nat
    OBVIOUS
  <2>2. log # <<>> => oldest_valid_sample \in Nat /\ oldest_valid_block \in Nat
                      /\ \A b \in 1..Len(log) : EndOf(log[b]) \in Nat
    BY Newest
  <2>3. \A b \in 1..Len(log) : log # <<>>
    BY DEF LogInv
  <2> QED BY <2>1, <2>2, <2>3 DEF RecordsLast
<1>1. log # <<>> /\ Len(log) \in Nat /\ Len(log) \in 1..Len(log) /\ b \in Nat
  BY DEF LogInv
<1>2. /\ StreamEnd = EndOf(log[Len(log)]) /\ StreamEnd \in Nat /\ EndOf(log[b]) \in Nat
      /\ oldest_valid_sample = SatSub(StreamEnd, SampleCap)
  BY <1>1, Newest
<1> DEFINE d == (Len(log) - b) - BlockCap
<1>3. d \in Nat /\ Len(log) - b = d + BlockCap
  BY <1>1 DEF oldest_valid_block, meta_write_end, SatSub
<1> HIDE DEF d
<1>4. d * m \in Nat /\ (d + BlockCap) * m = d * m + m * BlockCap
  BY <1>3
<1>5. EndOf(log[b]) + (Len(log) - b) * m <= StreamEnd
  BY <1>1, <1>2 DEF Spaced
<1>6. EndOf(log[b]) + SampleCap <= StreamEnd
  <2>1. m * BlockCap \in Nat
    OBVIOUS
  <2>2. EndOf(log[b]) + (d * m + m * BlockCap) <= StreamEnd
    BY <1>3, <1>4, <1>5
  <2> QED BY <1>2, <1>4, <2>1, <2>2
<1> QED BY <1>2, <1>6 DEF SatSub

(* Everything retained by its cell is at or after the oldest sample the gate was told. *)
LEMMA OldestBelow ==
  ASSUME LogInv, RecordsLast, NEW o \in oldest_sample, NEW i \in Nat, Produced(i),
         oldest_valid_sample <= i
  PROVE  o <= i
<1>1. PICK a \in 1..Len(log) : log[a].first_sample <= i /\ i < EndOf(log[a])
  BY DEF Produced
<1>2. log # <<>> /\ Len(log) \in Nat
  BY <1>1 DEF LogInv
<1>3. /\ oldest_valid_sample \in Nat
      /\ \A b \in 1..Len(log) : log[b].first_sample \in Nat /\ EndOf(log[b]) \in Nat
                                /\ log[b].first_sample < EndOf(log[b])
  BY <1>2, Newest
<1>4. PICK b \in 1..Len(log) :
        /\ oldest_sample = {MaxOf(log[b].first_sample, oldest_valid_sample)}
        /\ \A c \in 1..Len(log) :
             oldest_valid_block < c /\ oldest_valid_sample < EndOf(log[c]) => b <= c
  BY <1>2, OldestIs
<1>5. b <= a
  BY <1>1, <1>3, <1>4 DEF RecordsLast
<1>6. log[b].first_sample <= log[a].first_sample
  <2>1. CASE b = a
    BY <2>1, <1>3
  <2>2. CASE b < a
    <3>1. EndOf(log[b]) <= log[a].first_sample
      BY <2>2 DEF LogInv
    <3> QED BY <3>1, <1>3
  <2> QED BY <1>5, <2>1, <2>2
<1>7. o = MaxOf(log[b].first_sample, oldest_valid_sample)
  BY <1>4
<1> QED BY <1>1, <1>3, <1>6, <1>7 DEF MaxOf

(* A block let through leaves every sample a registered reader has yet to read. *)
LEMMA AdmitKeeps ==
  ASSUME GateInv, RecordsLast, Admit, ~stop, NEW r \in Readers, Registered(r),
         NEW i \in 0..MaxIndex, Produced(i), pos[r] <= i, oldest_valid_sample <= i
  PROVE  SatSub(offer.first + offer.len, SampleCap) <= i
<1>1. /\ LogInv /\ cpc = "scan" /\ scan = {} /\ admits(low)
      /\ view.oldest = oldest_sample /\ view.next = next_sample
  BY DEF GateInv, CaptureInv, Admit, Scanned, Pass
<1>2. /\ pos[r] \in 0..MaxIndex /\ claim[r] \in Nat /\ low \in Nat /\ Released = MaxIndex + 1
      /\ offer.first \in Nat /\ offer.len \in Nat
  BY DEF GateInv, GateType, Released
<1>3. low <= claim[r] /\ claim[r] <= pos[r]
  BY <1>1 DEF GateInv, ScanInv, CursorInv
<1>4. low # Released
  BY <1>2, <1>3
<1>5. log # <<>>
  BY <1>1 DEF Produced, LogInv
<1>6. i < StreamEnd
  <2>1. PICK a \in 1..Len(log) : i < EndOf(log[a])
    BY DEF Produced
  <2>2. EndOf(log[a]) <= StreamEnd /\ EndOf(log[a]) \in Nat /\ StreamEnd \in Nat
    BY <1>1, <1>5, Newest
  <2> QED BY <2>1, <2>2
<1>7. next_sample = {StreamEnd} /\ StreamEnd \in Nat
  BY <1>1, <1>5, NextIs, Newest
<1>8. PICK o \in oldest_sample : \/ MaxOf(low, o) >= StreamEnd
                                 \/ offer.first + offer.len <= MaxOf(low, o) + slack
  BY <1>1, <1>4, <1>7 DEF admits
<1>9. o \in Nat /\ o < StreamEnd
  BY <1>1, <1>5, OldestInStream
<1>10. o <= i
  BY <1>1, OldestBelow
<1>11. MaxOf(low, o) <= i /\ MaxOf(low, o) \in Nat
  BY <1>2, <1>3, <1>9, <1>10 DEF MaxOf
<1>12. offer.first + offer.len <= i + slack
  BY <1>2, <1>6, <1>7, <1>8, <1>11, SlackIs
<1> QED BY <1>2, <1>12, SlackIs DEF SatSub

LEMMA KeptStep ==
  ASSUME GateInv, RecordsLast, KeptInv, [Next]_vars
  PROVE  KeptInv'
<1>1. /\ LogInv /\ GateType /\ CursorInv /\ Dropped \in Nat
      /\ \A r \in Readers : pos[r] \in Nat /\ spared[r] \in Nat
  BY DroppedIs DEF GateInv, GateType
<1>2. ASSUME NEW r \in Readers, Moves(r) PROVE KeptInv'
  <2>1. /\ UNCHANGED ringVars /\ cpc' = cpc /\ offer' = offer /\ stop' = stop
        /\ \A q \in Readers : pos'[q] \in Nat /\ spared'[q] \in Nat /\ rpc'[q] \in ReaderStages
    BY <1>2 DEF Moves, waiting
  <2>2. Dropped' = Dropped
    BY <2>1, RingStays DEF Dropped, MaxOf, SatSub
  <2>3. \A i \in 0..MaxIndex : Produced(i)' = Produced(i)
    BY <2>1, RingStays
  <2> SUFFICES ASSUME ~stop, NEW q \in Readers, Registered(q)', NEW i \in 0..MaxIndex, Produced(i),
                      pos'[q] <= i, spared'[q] <= i
               PROVE  Dropped <= i
    BY <2>1, <2>2, <2>3 DEF KeptInv
  <2>4. CASE q # r
    <3>1. pos'[q] = pos[q] /\ spared'[q] = spared[q] /\ rpc'[q] = rpc[q]
      BY <1>2, <2>4 DEF Moves
    <3>2. Registered(q)
      BY <3>1 DEF Registered
    <3> QED BY <3>1, <3>2 DEF KeptInv
  <2>5. CASE q = r
    <3>1. rpc'[r] # "done"
      BY <2>5 DEF Registered
    <3>2. CASE rpc[r] = "new"
      BY <1>2, <2>5, <3>1, <3>2 DEF Moves
    <3>3. CASE rpc[r] # "new"
      <4>1. /\ Registered(r) /\ pos[r] <= pos'[r]
            /\ spared'[r] = spared[r] \/ spared[r] <= pos'[r]
        BY <1>2, <3>1, <3>3 DEF Moves
      <4>2. pos[r] <= i /\ spared[r] <= i
        BY <1>1, <2>1, <2>5, <4>1
      <4> QED BY <4>1, <4>2 DEF KeptInv
    <3> QED BY <3>2, <3>3
  <2> QED BY <2>4, <2>5
<1>3. ASSUME UNCHANGED <<readers, log, sample_write_end>>, stop => stop',
             cpc # "push", cpc' # "push"
      PROVE  KeptInv'
  <2>1. Dropped' = Dropped /\ \A i \in 0..MaxIndex : Produced(i)' = Produced(i)
    BY <1>3 DEF Dropped, oldest_valid_sample, SatSub, Produced, EndOf
  <2>2. stop' \/ ~stop
    BY <1>3 DEF GateInv, GateType
  <2> QED BY <1>3, <2>1, <2>2 DEF KeptInv, readers, Registered
<1>4. ASSUME UNCHANGED <<readers, log, sample_write_end, cpc, offer>>, stop => stop'
      PROVE  KeptInv'
  <2>1. Dropped' = Dropped /\ \A i \in 0..MaxIndex : Produced(i)' = Produced(i)
    BY <1>4 DEF Dropped, MaxOf, oldest_valid_sample, SatSub, Produced, EndOf
  <2>2. stop' \/ ~stop
    BY <1>4 DEF GateInv, GateType
  <2> QED BY <1>4, <2>1, <2>2 DEF KeptInv, readers, Registered
<1>5. CASE (\E gap \in Gaps, n \in BlockLens : Offer(gap, n)) \/ Poll \/ Load \/ Hold
  BY <1>3, <1>5 DEF Offer, Poll, Load, Hold, Scanned, ringVars
<1>6. CASE Admit
  <2>1. /\ UNCHANGED <<ringVars, readers, offer, stop>> /\ cpc' = "push" /\ cpc = "scan"
    BY <1>6 DEF Admit, Scanned
  <2>2. Dropped' = MaxOf(oldest_valid_sample, SatSub(offer.first + offer.len, SampleCap))
        /\ Dropped = oldest_valid_sample
    BY <2>1, RingStays DEF Dropped, MaxOf, SatSub
  <2>3. \A i \in 0..MaxIndex : Produced(i)' = Produced(i)
    BY <2>1, RingStays
  <2> SUFFICES ASSUME ~stop, NEW q \in Readers, Registered(q), NEW i \in 0..MaxIndex, Produced(i),
                      pos[q] <= i, spared[q] <= i
               PROVE  MaxOf(oldest_valid_sample, SatSub(offer.first + offer.len, SampleCap)) <= i
    BY <2>1, <2>2, <2>3 DEF KeptInv, readers, Registered
  <2>4. oldest_valid_sample <= i
    BY <2>2 DEF KeptInv
  <2>5. SatSub(offer.first + offer.len, SampleCap) <= i
    BY <1>6, <2>4, AdmitKeeps
  <2> QED BY <2>4, <2>5 DEF MaxOf
<1>7. CASE Push
  <2>1. /\ Len(log') = Len(log) + 1 /\ Len(log) \in Nat
        /\ \A b \in 1..Len(log) : log'[b] = log[b]
        /\ log'[Len(log) + 1].first_sample = offer.first
        /\ offer.first \in Nat /\ offer.len \in 1..SampleCap
        /\ oldest_valid_sample' = SatSub(offer.first + offer.len, SampleCap)
    BY <1>1, <1>7, PushIs DEF LogInv
  <2>2. cpc = "push" /\ cpc' = "source" /\ UNCHANGED <<readers, stop>>
    BY <1>7 DEF Push
  <2>3. Dropped' = oldest_valid_sample' /\ Dropped >= oldest_valid_sample'
    <3>1. oldest_valid_sample \in Nat
      <4>1. log = <<>> \/ log # <<>>
        OBVIOUS
      <4> QED BY <1>1, <4>1, Newest DEF LogInv, oldest_valid_sample, SatSub
    <3> QED BY <2>1, <2>2, <3>1 DEF Dropped, MaxOf, SatSub
  <2> SUFFICES ASSUME ~stop, NEW q \in Readers, Registered(q), NEW i \in 0..MaxIndex, Produced(i)',
                      pos[q] <= i, spared[q] <= i
               PROVE  oldest_valid_sample' <= i
    BY <2>2, <2>3 DEF KeptInv, readers, Registered
  <2>4. PICK b \in 1..Len(log') : log'[b].first_sample <= i /\ i < EndOf(log'[b])
    BY DEF Produced, EndOf
  <2>5. CASE b \in 1..Len(log)
    <3>1. Produced(i)
      BY <2>1, <2>4, <2>5 DEF Produced
    <3>2. Dropped <= i
      BY <3>1 DEF KeptInv
    <3>3. oldest_valid_sample' \in Nat
      BY <2>1 DEF SatSub
    <3> QED BY <1>1, <2>3, <3>2, <3>3
  <2>6. CASE b = Len(log) + 1
    BY <2>1, <2>4, <2>6 DEF SatSub
  <2> QED BY <2>1, <2>5, <2>6
<1>8. CASE PushRefused
  <2>1. cpc = "push" /\ cpc' = "source" /\ UNCHANGED <<ringVars, readers, stop>>
    BY <1>8 DEF PushRefused
  <2>2. Dropped' = oldest_valid_sample /\ oldest_valid_sample <= Dropped /\ oldest_valid_sample \in Nat
    <3>1. oldest_valid_sample \in Nat
      <4>1. log = <<>> \/ log # <<>>
        OBVIOUS
      <4> QED BY <1>1, <4>1, Newest DEF LogInv, oldest_valid_sample, SatSub
    <3>2. SatSub(offer.first + offer.len, SampleCap) \in Nat
      BY <1>1 DEF GateType, SatSub
    <3>3. oldest_valid_sample' = oldest_valid_sample
      BY <2>1, RingStays
    <3> QED BY <2>1, <3>1, <3>2, <3>3 DEF Dropped, MaxOf
  <2>3. \A i \in 0..MaxIndex : Produced(i)' = Produced(i)
    BY <2>1, RingStays
  <2> SUFFICES ASSUME ~stop, NEW q \in Readers, Registered(q), NEW i \in 0..MaxIndex, Produced(i),
                      pos[q] <= i, spared[q] <= i
               PROVE  oldest_valid_sample <= i
    BY <2>1, <2>2, <2>3 DEF KeptInv, readers, Registered
  <2>4. Dropped <= i
    BY DEF KeptInv
  <2> QED BY <1>1, <2>2, <2>4
<1>9. CASE End \/ SetStop \/ UNCHANGED vars
  BY <1>4, <1>9 DEF End, Close, SetStop, vars, ringVars, waiting
<1> QED BY <1>1, <1>2, <1>5, <1>6, <1>7, <1>8, <1>9, GateSteps

(* No claim is overwritten, for every ring, every number of readers and chains, and every     *)
(* source gap and block length, if the blocks pushed are as long as the ring was sized for    *)
(* (RingConfig::for_duration: block_capacity records of min_block samples fill the ring).     *)
(* The gate counts samples only: with shorter blocks the records run out first.               *)
THEOREM ClaimsKept ==
  ASSUME NEW CONSTANT min_block \in Nat, SampleCap <= min_block * BlockCap,
         \A n \in BlockLens : n > 0 => min_block <= n
  PROVE  Spec => []ClaimsAreKept
<1>1. Init => Spaced(min_block) /\ KeptInv
  <2> SUFFICES ASSUME Init PROVE Spaced(min_block) /\ KeptInv
    OBVIOUS
  <2>1. \A b \in 1..Len(log) : FALSE
    BY DEF Init, RingInit
  <2> QED BY <2>1 DEF Spaced, KeptInv, Produced
<1>2. ASSUME GateInv, Spaced(min_block), KeptInv, [Next]_vars
      PROVE  Spaced(min_block)' /\ KeptInv'
  <2>1. RecordsLast
    BY <1>2, SpacedRecords DEF GateInv
  <2> QED BY <1>2, <2>1, SpacedStep, KeptStep
<1>3. ASSUME GateInv, Spaced(min_block), KeptInv PROVE ClaimsAreKept
  <2> SUFFICES ASSUME ~stop, NEW r \in Readers, Registered(r), NEW i \in Unread(r)
               PROVE  Held(i)
    BY DEF ClaimsAreKept
  <2>1. /\ LogInv /\ pos[r] \in Nat /\ spared[r] \in Nat
    BY <1>3 DEF GateInv, GateType
  <2>2. PICK b \in 1..Len(log) : log[b].first_sample <= i /\ i < EndOf(log[b])
    BY DEF Unread
  <2>3. log # <<>> /\ Len(log) \in Nat
    BY <2>1, <2>2 DEF LogInv
  <2>4. /\ StreamEnd \in 1..MaxIndex /\ oldest_valid_sample \in Nat /\ oldest_valid_block \in Nat
        /\ EndOf(log[b]) \in Nat
    BY <2>1, <2>3, Newest
  <2>5. i \in 0..MaxIndex /\ pos[r] <= i /\ spared[r] <= i
    BY <2>1, <2>4 DEF Unread, MaxOf
  <2>6. Dropped <= i /\ Dropped \in Nat
    BY <1>3, <2>2, <2>5, DroppedIs DEF KeptInv, Produced, GateInv
  <2>7. oldest_valid_sample <= i
    <3>1. SatSub(offer.first + offer.len, SampleCap) \in Nat
      BY <1>3 DEF GateInv, GateType, SatSub
    <3>2. oldest_valid_sample <= Dropped
      BY <2>4, <3>1 DEF Dropped, MaxOf
    <3> QED BY <2>4, <2>5, <2>6, <3>2
  <2>8. oldest_valid_block < b
    BY <1>3, <2>1, <2>2, <2>4, <2>5, <2>7, SpacedRecords DEF RecordsLast
  <2>9. b - 1 \in oldest_valid_block..(Len(log) - 1) /\ Meta(b - 1) = log[b]
    BY <2>3, <2>4, <2>8 DEF Meta
  <2> QED BY <2>2, <2>7, <2>9 DEF Held
<1> QED BY <1>1, <1>2, <1>3, GateInvariant, PTL DEF Spec

-----------------------------------------------------------------------------
(* The slack *)

LEMMA WithinLater ==
  ASSUME NEW c \in Nat, NEW d \in Nat, c <= d, NEW prev \in Nat, NEW end \in Nat,
         Within(c, prev, end)
  PROVE  Within(d, prev, end)
<1>1. slack \in Nat
  BY SlackIs
<1> QED BY <1>1 DEF Within

(* Why the scan let the block through. *)
LEMMA AdmitWithin ==
  ASSUME GateInv, RecordsLast, Admit, ~stop, log # <<>>, NEW r \in Readers, Registered(r)
  PROVE  Within(claim[r], StreamEnd, offer.first + offer.len)
<1>1. /\ LogInv /\ cpc = "scan" /\ scan = {} /\ admits(low)
      /\ view.oldest = oldest_sample /\ view.next = next_sample
      /\ offer.len > 0 /\ StreamEnd <= offer.first
  BY DEF GateInv, CaptureInv, Admit, Scanned, Pass
<1>2. /\ pos[r] \in 0..MaxIndex /\ claim[r] \in Nat /\ low \in Nat /\ Released = MaxIndex + 1
      /\ offer.first \in Nat /\ offer.len \in Nat
  BY DEF GateInv, GateType, Released
<1>3. low <= claim[r] /\ claim[r] <= pos[r] /\ low # Released
  BY <1>1, <1>2 DEF GateInv, ScanInv, CursorInv
<1>4. /\ next_sample = {StreamEnd} /\ StreamEnd \in Nat /\ Len(log) \in Nat
      /\ oldest_valid_sample = SatSub(StreamEnd, SampleCap) /\ oldest_valid_sample \in Nat
      /\ \A b \in 1..Len(log) : log[b].first_sample \in Nat /\ EndOf(log[b]) \in 1..MaxIndex
      /\ slack \in Nat /\ slack <= SampleCap
  BY <1>1, NextIs, Newest, SlackIs DEF LogInv
<1>5. PICK o \in oldest_sample : \/ MaxOf(low, o) >= StreamEnd
                                 \/ offer.first + offer.len <= MaxOf(low, o) + slack
  BY <1>1, <1>3, <1>4 DEF admits
<1>6. o \in Nat /\ o < StreamEnd
  BY <1>1, OldestInStream
<1>7. CASE MaxOf(low, o) >= StreamEnd
  <2>1. StreamEnd <= claim[r]
    BY <1>2, <1>3, <1>4, <1>6, <1>7 DEF MaxOf
  <2> QED BY <2>1 DEF Within
<1>8. CASE offer.first + offer.len <= MaxOf(low, o) + slack /\ o <= low
  <2>1. offer.first + offer.len <= claim[r] + slack
    BY <1>2, <1>3, <1>4, <1>6, <1>8 DEF MaxOf
  <2> QED BY <2>1 DEF Within
<1>9. CASE offer.first + offer.len <= MaxOf(low, o) + slack /\ low < o
  <2>1. offer.first + offer.len <= o + slack
    BY <1>2, <1>6, <1>9 DEF MaxOf
  <2>2. PICK b \in 1..Len(log) :
          /\ oldest_sample = {MaxOf(log[b].first_sample, oldest_valid_sample)}
          /\ \A a \in 1..Len(log) :
               oldest_valid_block < a /\ oldest_valid_sample < EndOf(log[a]) => b <= a
    BY <1>1, OldestIs
  <2>3. o = MaxOf(log[b].first_sample, oldest_valid_sample) /\ log[b].first_sample \in Nat
    BY <1>4, <2>2
  <2>4. oldest_valid_sample > 0 => o # oldest_valid_sample
    <3>1. oldest_valid_sample > 0 => StreamEnd = oldest_valid_sample + SampleCap
      BY <1>4 DEF SatSub
    <3>2. StreamEnd < o + slack
      BY <1>1, <1>2, <1>4, <1>6, <2>1
    <3> QED BY <1>4, <1>6, <3>1, <3>2
  <2>5. o = log[b].first_sample
    BY <1>4, <2>3, <2>4 DEF MaxOf
  <2>6. ASSUME b > 1 PROVE EndOf(log[b - 1]) < log[b].first_sample
    <3>1. b - 1 \in 1..Len(log) /\ b \in Nat
      BY <1>4, <2>6
    <3>2. EndOf(log[b - 1]) <= o /\ EndOf(log[b - 1]) \in 1..MaxIndex
      BY <1>1, <1>4, <2>5, <3>1 DEF LogInv
    <3>3. ~(oldest_valid_sample < EndOf(log[b - 1]))
      <4>1. oldest_valid_sample < EndOf(log[b - 1]) => b <= b - 1
        BY <2>2, <3>1 DEF RecordsLast
      <4> QED BY <3>1, <4>1
    <3>4. EndOf(log[b - 1]) <= oldest_valid_sample /\ oldest_valid_sample <= o
      BY <1>4, <2>3, <3>2, <3>3 DEF MaxOf
    <3> QED BY <1>4, <1>6, <2>4, <2>5, <3>2, <3>4
  <2> QED BY <2>1, <2>5, <2>6 DEF Within
<1> QED BY <1>2, <1>5, <1>6, <1>7, <1>8, <1>9

LEMMA SlackStep ==
  ASSUME GateInv, RecordsLast, SlackInv, [Next]_vars
  PROVE  SlackInv'
<1>1. LogInv /\ GateType /\ CursorInv /\ Early \subseteq Readers
      /\ offer.first + offer.len \in Nat /\ \A r \in Readers : claim[r] \in Nat
  BY GateAssumption DEF GateInv, GateType, Readers, Released
<1>2. log # <<>> => StreamEnd \in Nat /\ \A b \in 1..Len(log) : EndOf(log[b]) \in Nat
  BY <1>1, Newest
<1>3. ASSUME log' = log, offer' = offer, cpc' = "push" => cpc = "push", stop => stop',
             \A q \in Early : /\ rpc'[q] # "new" /\ claim'[q] \in Nat
                              /\ Registered(q)' => Registered(q) /\ claim[q] <= claim'[q]
      PROVE  SlackInv'
  <2>1. stop' \/ ~stop
    BY <1>1, <1>3 DEF GateType
  <2>2. \A c, prev, end : Within(c, prev, end)' = Within(c, prev, end)
    BY <1>3 DEF Within, EndOf
  <2> SUFFICES ASSUME NEW e \in Early, ~stop, Registered(e), claim[e] <= claim'[e], claim'[e] \in Nat
               PROVE  /\ Len(log) > 1 => Within(claim'[e], EndOf(log[Len(log) - 1]), EndOf(log[Len(log)]))
                      /\ cpc = "push" /\ log # <<>> =>
                           Within(claim'[e], StreamEnd, offer.first + offer.len)
    BY <1>3, <2>1 DEF SlackInv, Within, StreamEnd, EndOf
  <2>3. claim[e] \in Nat
    BY <1>1
  <2>4. ASSUME Len(log) > 1
        PROVE  Within(claim'[e], EndOf(log[Len(log) - 1]), EndOf(log[Len(log)]))
    <3>1. /\ EndOf(log[Len(log) - 1]) \in Nat /\ EndOf(log[Len(log)]) \in Nat
      <4>1. log # <<>> /\ Len(log) - 1 \in 1..Len(log) /\ Len(log) \in 1..Len(log)
        BY <1>1, <2>4 DEF LogInv
      <4> QED BY <1>2, <4>1
    <3>2. Within(claim[e], EndOf(log[Len(log) - 1]), EndOf(log[Len(log)]))
      BY <2>4 DEF SlackInv
    <3> QED BY <2>3, <3>1, <3>2, WithinLater
  <2>5. ASSUME cpc = "push", log # <<>>
        PROVE  Within(claim'[e], StreamEnd, offer.first + offer.len)
    <3>1. Within(claim[e], StreamEnd, offer.first + offer.len)
      BY <2>5 DEF SlackInv
    <3> QED BY <1>1, <1>2, <2>3, <2>5, <3>1, WithinLater
  <2> QED BY <2>4, <2>5
<1>4. ASSUME NEW r \in Readers, Moves(r) PROVE SlackInv'
  <2>1. \A q \in Early : /\ rpc'[q] # "new" /\ claim'[q] \in Nat
                         /\ Registered(q)' => Registered(q) /\ claim[q] <= claim'[q]
    <3> SUFFICES ASSUME NEW q \in Early
                 PROVE  /\ rpc'[q] # "new" /\ claim'[q] \in Nat
                        /\ Registered(q)' => Registered(q) /\ claim[q] <= claim'[q]
      OBVIOUS
    <3>1. q \in Readers /\ rpc[q] # "new" /\ claim[q] \in Nat
      BY <1>1 DEF SlackInv
    <3>2. claim'[q] \in Nat
      BY <1>4, <3>1 DEF Moves, Released
    <3>3. CASE q = r
      BY <1>4, <3>1, <3>2, <3>3 DEF Moves, Registered
    <3>4. CASE q # r
      BY <1>4, <3>1, <3>2, <3>4 DEF Moves, Registered
    <3> QED BY <3>3, <3>4
  <2> QED BY <1>3, <1>4, <2>1 DEF Moves, ringVars, waiting
<1>5. ASSUME UNCHANGED <<claims, readers, log>>,
             cpc' # "push", stop => stop', Len(log) > 1 => Len(log') > 1
      PROVE  SlackInv'
  <2>1. \A c, prev, end : Within(c, prev, end)' = Within(c, prev, end)
    BY <1>5 DEF Within, EndOf
  <2>2. stop' \/ ~stop
    BY <1>1, <1>5 DEF GateType
  <2> QED BY <1>5, <2>1, <2>2 DEF SlackInv, claims, readers, Registered, Within, EndOf
<1>6. CASE (\E gap \in Gaps, n \in BlockLens : Offer(gap, n)) \/ Poll \/ Load \/ Hold \/ PushRefused
  BY <1>5, <1>6 DEF Offer, Poll, Load, Hold, PushRefused, ringVars
<1>7. CASE Admit
  <2>1. UNCHANGED <<claims, readers, log, offer, stop>> /\ cpc' = "push"
    BY <1>7 DEF Admit, ringVars
  <2>2. \A c, prev, end : Within(c, prev, end)' = Within(c, prev, end)
    BY <2>1 DEF Within, EndOf
  <2>3. ASSUME NEW e \in Early, ~stop, Registered(e), log # <<>>
        PROVE  Within(claim[e], StreamEnd, offer.first + offer.len)
    BY <1>1, <1>7, <2>3, AdmitWithin
  <2> QED BY <2>1, <2>2, <2>3
          DEF SlackInv, claims, readers, Registered, Within, StreamEnd, EndOf
<1>8. CASE Push
  <2>1. /\ Len(log') = Len(log) + 1 /\ Len(log) \in Nat
        /\ \A b \in 1..Len(log) : log'[b] = log[b]
        /\ EndOf(log'[Len(log) + 1]) = offer.first + offer.len
    BY <1>1, <1>8, PushIs DEF LogInv
  <2>2. UNCHANGED <<claims, readers, stop>> /\ cpc = "push" /\ cpc' = "source"
    BY <1>8 DEF Push
  <2> SUFFICES ASSUME NEW e \in Early, ~stop, Registered(e), Len(log') > 1
               PROVE  Within(claim[e], EndOf(log[Len(log) - 1]), EndOf(log[Len(log)]))'
    <3>1. /\ stop' = stop /\ cpc' # "push"
          /\ \A e \in Early : rpc'[e] = rpc[e] /\ (Registered(e)' <=> Registered(e))
      BY <2>2 DEF readers, Registered
    <3> QED BY <3>1 DEF SlackInv
  <2>3. log # <<>> /\ Len(log) \in 1..Len(log) /\ Len(log') - 1 = Len(log)
    BY <1>1, <2>1 DEF LogInv
  <2>4. Within(claim[e], StreamEnd, offer.first + offer.len)
    BY <2>2, <2>3 DEF SlackInv
  <2>5. /\ EndOf(log'[Len(log') - 1]) = StreamEnd
        /\ EndOf(log'[Len(log')]) = offer.first + offer.len
    BY <1>1, <2>1, <2>3, Newest
  <2>6. \A b \in 1..Len(log) : /\ b \in 1..Len(log')
                               /\ b > 1 => b - 1 \in 1..Len(log)
    BY <2>1
  <2> DEFINE prev == EndOf(log[Len(log) - 1])
             end == EndOf(log[Len(log)])
  <2>7. prev' = StreamEnd /\ end' = offer.first + offer.len /\ claim'[e] = claim[e]
    BY <2>2, <2>5 DEF claims, EndOf
  <2> HIDE DEF prev, end
  <2>8. ASSUME NEW b \in 1..Len(log), end' <= log[b].first_sample + slack,
               b > 1 => EndOf(log[b - 1]) < log[b].first_sample
        PROVE  Within(claim[e], prev, end)'
    BY <2>1, <2>6, <2>8 DEF Within, EndOf
  <2>9. Within(claim[e], prev, end)'
    <3>1. CASE StreamEnd <= claim[e]
      BY <2>7, <3>1 DEF Within
    <3>2. CASE offer.first + offer.len <= claim[e] + slack
      BY <2>7, <3>2 DEF Within, slack
    <3> QED BY <2>4, <2>7, <2>8, <3>1, <3>2 DEF Within
  <2> QED BY <2>9 DEF prev, end
<1>9. CASE End \/ SetStop \/ UNCHANGED vars
  <2>1. UNCHANGED <<claims, readers, log, offer, cpc>> /\ (stop => stop')
    BY <1>9 DEF End, Close, SetStop, vars, ringVars, waiting
  <2>2. \A q \in Early : /\ rpc'[q] # "new" /\ claim'[q] \in Nat
                         /\ Registered(q)' => Registered(q) /\ claim[q] <= claim'[q]
    BY <1>1, <2>1 DEF claims, readers, SlackInv, Registered
  <2> QED BY <1>3, <2>1, <2>2
<1> QED BY <1>1, <1>4, <1>6, <1>7, <1>8, <1>9, GateSteps

(* A claim at most the slack behind s, over ordinary blocks, drops nothing after s. *)
LEMMA WithinKeeps ==
  ASSUME LogInv, log # <<>>, SampleCap > 1, NEW s \in Nat, NEW c \in Nat, c <= s + slack,
         NEW prev \in Nat, NEW end \in Nat, Within(c, prev, end),
         end > s => end <= prev + slack,
         \A b \in 1..Len(log) : EndOf(log[b]) > s /\ b > 1 => log[b].first_sample = EndOf(log[b - 1])
  PROVE  SatSub(end, SampleCap) <= MaxOf(s, stream_start)
<1>1. slack \in Nat /\ slack + slack <= SampleCap /\ slack <= SampleCap
  BY SlackIs
<1>2. /\ stream_start = log[1].first_sample /\ stream_start \in Nat /\ Len(log) \in Nat
      /\ \A b \in 1..Len(log) : /\ log[b].first_sample \in Nat /\ EndOf(log[b]) \in 1..MaxIndex
                                /\ log[b].first_sample < EndOf(log[b])
  <2>1. 1 \in 1..Len(log) /\ Len(log) \in Nat
    BY DEF LogInv
  <2> QED BY <2>1, Newest DEF stream_start
<1>3. SatSub(end, SampleCap) <= s => SatSub(end, SampleCap) <= MaxOf(s, stream_start)
  BY <1>2 DEF SatSub, MaxOf
<1>4. CASE prev <= c
  BY <1>1, <1>3, <1>4 DEF SatSub
<1>5. CASE end <= c + slack
  BY <1>1, <1>3, <1>5 DEF SatSub
<1>6. ASSUME NEW b \in 1..Len(log), end <= log[b].first_sample + slack,
             b > 1 => EndOf(log[b - 1]) < log[b].first_sample
      PROVE  SatSub(end, SampleCap) <= MaxOf(s, stream_start)
  <2>1. CASE b = 1
    BY <1>1, <1>2, <1>6, <2>1 DEF SatSub, MaxOf
  <2>2. CASE b > 1
    <3>1. b - 1 \in 1..Len(log)
      BY <1>2, <2>2
    <3>2. EndOf(log[b - 1]) \in 1..MaxIndex /\ EndOf(log[b]) <= s
      BY <1>2, <1>6, <2>2, <3>1
    <3>3. end <= s + slack
      BY <1>1, <1>2, <1>6, <3>2
    <3>4. SatSub(end, SampleCap) <= s
      BY <1>1, <3>3 DEF SatSub
    <3> QED BY <1>3, <3>4
  <2> QED BY <1>2, <2>1, <2>2
<1> QED BY <1>4, <1>5, <1>6 DEF Within

LEMMA SlackKeeps ==
  ASSUME GateInv, SlackInv, SampleCap > 1, ~stop, NEW e \in Early, Registered(e),
         NEW s \in 0..MaxIndex, s + slack >= claim[e], Ordinary(s)
  PROVE  Dropped <= MaxOf(s, IF log = <<>> THEN offer.first ELSE stream_start)
<1>1. /\ LogInv /\ GateType /\ e \in Readers /\ claim[e] \in Nat
      /\ offer.first \in Nat /\ offer.len \in Nat
  BY GateAssumption DEF GateInv, GateType, Readers, Released
<1>2. slack \in Nat /\ slack <= SampleCap /\ claim[e] <= s + slack /\ s \in Nat
  BY <1>1, SlackIs
<1>3. /\ cpc = "push" => offer.len <= slack /\ StreamEnd \in {-1, offer.first}
      /\ \A b \in 1..Len(log) : EndOf(log[b]) > s =>
           log[b].len <= slack /\ (b > 1 => log[b].first_sample = EndOf(log[b - 1]))
  BY DEF Ordinary
<1>4. CASE log = <<>>
  <2>1. oldest_valid_sample = 0
    BY <1>1, <1>4 DEF LogInv, oldest_valid_sample, SatSub
  <2> QED BY <1>1, <1>2, <1>3, <1>4, <2>1 DEF Dropped, MaxOf, SatSub
<1>5. ASSUME log # <<>>
      PROVE  Dropped <= MaxOf(s, stream_start)
  <2>1. /\ Len(log) \in Nat \ {0} /\ StreamEnd = EndOf(log[Len(log)]) /\ StreamEnd \in 1..MaxIndex
        /\ oldest_valid_sample = SatSub(StreamEnd, SampleCap) /\ oldest_valid_sample \in Nat
        /\ oldest_valid_sample <= log[Len(log)].first_sample
        /\ \A b \in 1..Len(log) : log[b].first_sample \in Nat /\ EndOf(log[b]) \in 1..MaxIndex
    BY <1>1, <1>5, Newest
  <2>2. stream_start = log[1].first_sample /\ stream_start \in Nat
    BY <2>1 DEF stream_start
  <2>3. oldest_valid_sample <= MaxOf(s, stream_start)
    <3>1. CASE Len(log) = 1
      BY <1>2, <2>1, <2>2, <3>1 DEF MaxOf
    <3>2. CASE Len(log) > 1
      <4> DEFINE prev == EndOf(log[Len(log) - 1])
      <4>1. Within(claim[e], prev, StreamEnd) /\ prev \in Nat
        <5>1. Len(log) - 1 \in 1..Len(log)
          BY <2>1, <3>2
        <5>2. prev \in Nat
          BY <2>1, <5>1
        <5> QED BY <2>1, <3>2, <5>2 DEF SlackInv
      <4>2. StreamEnd > s => StreamEnd <= prev + slack
        <5> SUFFICES ASSUME StreamEnd > s PROVE StreamEnd <= prev + slack
          OBVIOUS
        <5>1. log[Len(log)].len <= slack /\ log[Len(log)].first_sample = prev
          BY <1>3, <2>1, <3>2
        <5>2. log[Len(log)].len \in 1..SampleCap
          BY <1>1, <2>1 DEF LogInv
        <5> QED BY <1>2, <2>1, <4>1, <5>1, <5>2 DEF EndOf
      <4> HIDE DEF prev
      <4>3. StreamEnd \in Nat
        BY <2>1
      <4> QED BY <1>1, <1>2, <1>3, <1>5, <2>1, <4>1, <4>2, <4>3, WithinKeeps
    <3>3. Len(log) = 1 \/ Len(log) > 1
      <4>1. PICK n \in Nat \ {0} : n = Len(log)
        BY <2>1
      <4>2. n = 1 \/ n > 1
        OBVIOUS
      <4> QED BY <4>1, <4>2
    <3> QED BY <3>1, <3>2, <3>3
  <2>4. ASSUME cpc = "push"
        PROVE  SatSub(offer.first + offer.len, SampleCap) <= MaxOf(s, stream_start)
    <3>1. Within(claim[e], StreamEnd, offer.first + offer.len)
      BY <1>5, <2>4 DEF SlackInv
    <3>2. offer.first + offer.len <= StreamEnd + slack
      BY <1>1, <1>2, <1>3, <2>1, <2>4
    <3>3. StreamEnd \in Nat /\ offer.first + offer.len \in Nat
      BY <1>1, <2>1
    <3> QED BY <1>1, <1>2, <1>3, <1>5, <3>1, <3>2, <3>3, WithinKeeps
  <2> QED BY <2>3, <2>4 DEF Dropped, MaxOf
<1> QED BY <1>4, <1>5

(* A chain that claims no further behind the slowest early reader than the slack, over        *)
(* ordinary blocks, misses nothing, even if it registers while a block is on its way in.      *)
(* With a single cell, half a ring is no room for anything behind a reader.                   *)
THEOREM AttachedWithinSlack ==
  ASSUME NEW CONSTANT min_block \in Nat, SampleCap <= min_block * BlockCap,
         \A n \in BlockLens : n > 0 => min_block <= n, SampleCap > 1
  PROVE  Spec => AttachWithinSlackIsKept
<1>1. Init => Spaced(min_block) /\ SlackInv
  <2> SUFFICES ASSUME Init PROVE Spaced(min_block) /\ SlackInv
    OBVIOUS
  <2>1. log = <<>> /\ Len(log) = 0 /\ (\A b \in 1..Len(log) : FALSE) /\ cpc = "source"
    BY DEF Init, RingInit
  <2>2. \A e \in Early : rpc[e] = "reading"
    BY GateAssumption DEF Init, Readers
  <2> QED BY <2>1, <2>2 DEF Spaced, SlackInv
<1>2. ASSUME GateInv, Spaced(min_block), SlackInv, [Next]_vars
      PROVE  Spaced(min_block)' /\ SlackInv'
  <2>1. RecordsLast
    BY <1>2, SpacedRecords DEF GateInv
  <2> QED BY <1>2, <2>1, SpacedStep, SlackStep
<1>3. ASSUME GateInv, SlackInv, [Next]_vars,
             NEW c \in Chains, NEW e \in Early, ~stop, rpc[c] = "new", rpc'[c] = "claimed",
             Registered(e), pos'[c] + slack >= claim[e], Ordinary(pos'[c])
      PROVE  spared'[c] <= MaxOf(pos'[c], IF log = <<>> THEN offer.first ELSE stream_start)
  <2>1. LogInv /\ GateType /\ CursorInv /\ c \in Readers
    BY <1>3 DEF GateInv, Readers
  <2>2. PICK r \in Readers : Moves(r)
    BY <1>3, <2>1, GateSteps
       DEF Offer, Poll, Load, Hold, Admit, Push, PushRefused, End, SetStop, vars, readers
  <2>3. r = c
    BY <1>3, <2>1, <2>2 DEF Moves
  <2>4. spared'[c] = Dropped /\ pos'[c] \in 0..MaxIndex
    BY <1>3, <2>1, <2>2, <2>3 DEF Moves
  <2> QED BY <1>3, <2>4, SlackKeeps
<1>4. ASSUME GateInv, SlackInv
      PROVE  [Next]_vars =>
        [\A c \in Chains, e \in Early :
           /\ ~stop /\ rpc[c] = "new" /\ rpc'[c] = "claimed"
           /\ Registered(e) /\ pos'[c] + slack >= claim[e]
           /\ Ordinary(pos'[c])
           => spared'[c] <= MaxOf(pos'[c], IF log = <<>> THEN offer.first ELSE stream_start)]_vars
  BY <1>3, <1>4
<1> QED BY <1>1, <1>2, <1>4, GateInvariant, PTL DEF Spec, AttachWithinSlackIsKept

=============================================================================
