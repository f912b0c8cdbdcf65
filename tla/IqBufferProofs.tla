--------------------------- MODULE IqBufferProofs ---------------------------
(***************************************************************************)
(* Proofs about IqBuffer for every size of the ring, every stream, every   *)
(* order of the writer's steps with a clip's reads, every failure of a     *)
(* write, an fsync or a journal append, and crashes at any step.           *)
(***************************************************************************)
EXTENDS IqBuffer, FiniteSetTheorems, SequenceTheorems, WellFoundedInduction, TLAPS

-----------------------------------------------------------------------------
(* Numbers, and the places of the log *)

LEMMA Sizes ==
  /\ Slots \in Nat /\ Slots > 1 /\ SlotSamples \in Nat /\ SlotSamples > 0
  /\ Retention \in Nat /\ Retention > 0 /\ MaxAppend \in Nat /\ MaxGap \in Nat
  /\ VerifySlots \in Nat /\ VerifySlots > 0
  BY SizesAssumption

LEMMA MaxOfTwo ==
  ASSUME NEW a \in Int, NEW b \in Int
  PROVE  Max({a, b}) = IF a >= b THEN a ELSE b
<1> DEFINE m == IF a >= b THEN a ELSE b
<1>1. \A x \in {a, b} : (\A y \in {a, b} : x >= y) => x = m
  OBVIOUS
<1> QED BY <1>1 DEF Max

LEMMA MinOfTwo ==
  ASSUME NEW a \in Int, NEW b \in Int
  PROVE  Min({a, b}) = IF a <= b THEN a ELSE b
<1> DEFINE m == IF a <= b THEN a ELSE b
<1>1. \A x \in {a, b} : (\A y \in {a, b} : x <= y) => x = m
  OBVIOUS
<1> QED BY <1>1 DEF Min

(* A set of naturals has a least member, and a bounded one a greatest. *)
LEMMA Least ==
  ASSUME NEW T \in SUBSET Nat, T # {}
  PROVE  \E m \in T : \A n \in T : m <= n
<1> DEFINE R == OpToRel(<, Nat)
<1>1. IsWellFoundedOn(R, Nat)
  BY NatLessThanWellFounded
<1>2. \A y \in Nat, x \in Nat : y < x => <<y, x>> \in R
  BY DEF OpToRel
<1> HIDE DEF R
<1>3. PICK m \in T : \A n \in T : ~ (<<n, m>> \in R)
  BY <1>1, WFMin
<1>4. \A n \in T : ~(n < m)
  BY <1>2, <1>3
<1> QED BY <1>3, <1>4

LEMMA Greatest ==
  ASSUME NEW b \in Nat, NEW T \in SUBSET (0..b), T # {}
  PROVE  \E m \in T : \A n \in T : n <= m
<1> DEFINE U == {b - n : n \in T}
<1>1. \A n \in T : b - n \in Nat
  OBVIOUS
<1>2. U \in SUBSET Nat /\ U # {}
  BY <1>1
<1>3. PICK u \in U : \A v \in U : u <= v
  BY <1>2, Least
<1>4. PICK m \in T : u = b - m
  OBVIOUS
<1>5. \A n \in T : u <= b - n
  BY <1>3
<1> QED BY <1>4, <1>5

LEMMA MinIs ==
  ASSUME NEW T \in SUBSET Nat, T # {}
  PROVE  Min(T) \in T /\ \A n \in T : Min(T) <= n
  BY Least DEF Min

LEMMA MaxIs ==
  ASSUME NEW b \in Nat, NEW T \in SUBSET (0..b), T # {}
  PROVE  Max(T) \in T /\ \A n \in T : n <= Max(T)
<1>1. PICK m \in T : \A n \in T : n <= m
  BY Greatest
<1>2. Max(T) \in T /\ \A n \in T : Max(T) >= n
  BY <1>1 DEF Max
<1> QED BY <1>2

LEMMA FirstOfIs ==
  /\ FirstOf(0) = 0
  /\ \A l \in Nat : FirstOf(l) \in Nat /\ FirstOf(l + 1) = FirstOf(l) + SlotSamples
  /\ \A l, m \in Nat : l < m => FirstOf(l) + SlotSamples <= FirstOf(m)
<1>1. ASSUME NEW l \in Nat PROVE FirstOf(l + 1) = FirstOf(l) + SlotSamples
  BY Sizes DEF FirstOf
<1>2. ASSUME NEW l \in Nat, NEW m \in Nat, l < m PROVE FirstOf(l) + SlotSamples <= FirstOf(m)
  BY <1>1, <1>2, Sizes DEF FirstOf
<1> QED BY <1>1, <1>2, Sizes DEF FirstOf

(* The slot a logical sample belongs to, and its offset there. *)
LEMMA PlaceOf ==
  /\ \A p \in Nat : /\ p \div SlotSamples \in Nat /\ p % SlotSamples \in 0..(SlotSamples - 1)
                    /\ p = FirstOf(p \div SlotSamples) + (p % SlotSamples)
  /\ \A l \in Nat, k \in 0..(SlotSamples - 1) :
       (FirstOf(l) + k) \div SlotSamples = l /\ (FirstOf(l) + k) % SlotSamples = k
<1>1. ASSUME NEW p \in Nat
      PROVE  /\ p \div SlotSamples \in Nat /\ p % SlotSamples \in 0..(SlotSamples - 1)
             /\ p = FirstOf(p \div SlotSamples) + (p % SlotSamples)
  BY Sizes DEF FirstOf
<1>2. ASSUME NEW l \in Nat, NEW k \in 0..(SlotSamples - 1)
      PROVE  (FirstOf(l) + k) \div SlotSamples = l /\ (FirstOf(l) + k) % SlotSamples = k
  <2>1. FirstOf(l) \in Nat
    BY FirstOfIs
  <2>2. FirstOf(l) \in Nat /\ FirstOf(l) + k \in Nat
    BY <2>1, Sizes
  <2>3. PICK p \in Nat : p = FirstOf(l) + k
    BY <2>2
  <2>4. PICK q : q = p \div SlotSamples
    OBVIOUS
  <2>5. PICK m : m = p % SlotSamples
    OBVIOUS
  <2>6. q \in Nat /\ m \in 0..(SlotSamples - 1) /\ p = FirstOf(q) + m /\ FirstOf(q) \in Nat
    BY <1>1, <2>4, <2>5, FirstOfIs
  <2>7. q < l => FirstOf(q) + SlotSamples <= FirstOf(l)
    BY <2>6, FirstOfIs
  <2>8. l < q => FirstOf(l) + SlotSamples <= FirstOf(q)
    BY <2>6, FirstOfIs
  <2>9. q = l
    BY <2>2, <2>3, <2>6, <2>7, <2>8, Sizes
  <2> QED BY <2>2, <2>3, <2>4, <2>5, <2>6, <2>9
<1> QED BY <1>1, <1>2

-----------------------------------------------------------------------------
(* The types of the index *)

Reason  == {"advance", "append", "end"}
Syncing == {<<"sync", "advance">>, <<"sync", "append">>, <<"sync", "end">>}
Sealing == {<<"seal", "advance">>, <<"seal", "append">>, <<"seal", "end">>}
Steps   == {<<"idle">>, <<"write">>, <<"count">>, <<"open">>} \cup Syncing \cup Sealing

\* The steps at which an append is under way.
Working == {<<"write">>, <<"count">>, <<"open">>, <<"sync", "advance">>, <<"seal", "advance">>}

Sample  == Nat \cup {None}
SlotRec == [l : Nat, pos : Positions, n : 0..SlotSamples, sealed : 0..SlotSamples, crc : Seq(Nat)]
SegRec  == [start : Nat, log : Nat, n : Nat, first : Nat, persisted : BOOLEAN]
Start   == [start : Nat, first : Nat]

LEMMA StepsDiffer ==
  /\ \A k \in Reason : /\ <<"sync", k>> \in Syncing /\ <<"seal", k>> \in Sealing
                       /\ k # "advance" => <<"sync", k>> \notin Working /\ <<"seal", k>> \notin Working
                       /\ <<"sync", k>> \notin Sealing /\ <<"seal", k>> \notin Syncing
  /\ \A s \in Syncing \cup Sealing : s \notin {<<"idle">>, <<"write">>, <<"count">>, <<"open">>}
  /\ <<"idle">> # <<"write">> /\ <<"idle">> # <<"count">> /\ <<"idle">> # <<"open">>
  /\ <<"write">> # <<"count">> /\ <<"write">> # <<"open">> /\ <<"count">> # <<"open">>
  /\ <<"idle">> \notin Working /\ Syncing \cap Sealing = {}
<1>1. \A k \in Reason : k # "advance" => <<"sync", k>> \notin Working /\ <<"seal", k>> \notin Working
  BY DEF Reason, Working
<1>2. \A s \in Syncing \cup Sealing : s \notin {<<"idle">>, <<"write">>, <<"count">>, <<"open">>}
  BY DEF Syncing, Sealing
<1>3. /\ <<"idle">> # <<"write">> /\ <<"idle">> # <<"count">> /\ <<"idle">> # <<"open">>
      /\ <<"write">> # <<"count">> /\ <<"write">> # <<"open">> /\ <<"count">> # <<"open">>
  OBVIOUS
<1>4. <<"idle">> \notin Working /\ Syncing \cap Sealing = {}
  BY DEF Syncing, Sealing, Working
<1> QED BY <1>1, <1>2, <1>3, <1>4 DEF Reason, Syncing, Sealing

-----------------------------------------------------------------------------
(* Segments *)

(* The segments follow one another without a hole. *)
Chained(segs) ==
  /\ segs \in Seq(SegRec)
  /\ \A i \in 1..Len(segs) : segs[i].start <= segs[i].log
  /\ \A i \in 1..Len(segs) : i < Len(segs) => segs[i].n > 0 /\ segs[i + 1].log = LogEnd(segs[i])
  /\ \A i, j \in 1..Len(segs) : i < j =>
       LogEnd(segs[i]) <= segs[j].start /\ segs[j].log = segs[j].start

LEMMA SegmentIs ==
  ASSUME NEW g \in SegRec
  PROVE  /\ g.start \in Nat /\ g.log \in Nat /\ g.n \in Nat /\ g.first \in Nat /\ g.persisted \in BOOLEAN
         /\ LogEnd(g) = g.log + g.n /\ LogEnd(g) \in Nat /\ g.log <= LogEnd(g)
         /\ \A p \in Int : IndexAt(g, p) = g.first + (p - g.start)
         /\ EndIndex(g) = g.first + (g.log + g.n - g.start)
         /\ Segment(g) = [start |-> g.start, first |-> g.first] /\ Segment(g) \in Start
<1> QED BY DEF LogEnd, IndexAt, EndIndex, Segment, Start, SegRec

LEMMA SegmentOf ==
  ASSUME NEW segs \in Seq(SegRec), NEW i \in 1..Len(segs)
  PROVE  /\ segs[i] \in SegRec
         /\ segs[i].start \in Nat /\ segs[i].log \in Nat /\ segs[i].n \in Nat /\ segs[i].first \in Nat
         /\ LogEnd(segs[i]) = segs[i].log + segs[i].n /\ LogEnd(segs[i]) \in Nat
         /\ segs[i].log <= LogEnd(segs[i])
         /\ \A p \in Int : IndexAt(segs[i], p) = segs[i].first + (p - segs[i].start)
         /\ EndIndex(segs[i]) = segs[i].first + (segs[i].log + segs[i].n - segs[i].start)
<1> QED BY SegmentIs

(* Every place between the first segment and the end of the last is in one of them. *)
LEMMA Covered ==
  ASSUME NEW segs, Chained(segs), segs # <<>>, NEW p \in Nat,
         segs[1].log <= p, p < LogEnd(segs[Len(segs)])
  PROVE  \E i \in 1..Len(segs) : segs[i].log <= p /\ p < LogEnd(segs[i])
<1>1. segs \in Seq(SegRec) /\ Len(segs) \in Nat /\ Len(segs) > 0
  BY DEF Chained
<1> DEFINE T == {i \in 1..Len(segs) : p < LogEnd(segs[i])}
<1>2. T \in SUBSET Nat /\ Len(segs) \in T
  BY <1>1
<1>3. PICK m \in T : \A n \in T : m <= n
  BY <1>2, Least
<1>4. CASE m = 1
  BY <1>3, <1>4
<1>5. CASE m # 1
  <2>1. m \in 1..Len(segs) /\ m - 1 \in 1..Len(segs) /\ m - 1 < Len(segs) /\ m - 1 \notin T
    BY <1>1, <1>3, <1>5
  <2>2. segs[(m - 1) + 1].log = LogEnd(segs[m - 1])
    BY <2>1 DEF Chained
  <2>3. (m - 1) + 1 = m
    BY <2>1
  <2> QED BY <1>1, <1>3, <2>1, <2>2, <2>3, SegmentOf
<1> QED BY <1>4, <1>5

(* At most one. *)
LEMMA OneSegment ==
  ASSUME NEW segs, Chained(segs), NEW p \in Nat, NEW i \in 1..Len(segs), NEW j \in 1..Len(segs),
         segs[i].log <= p, p < LogEnd(segs[i]), segs[j].log <= p, p < LogEnd(segs[j])
  PROVE  i = j
<1>1. /\ LogEnd(segs[i]) \in Nat /\ LogEnd(segs[j]) \in Nat /\ segs[i].log \in Nat /\ segs[j].log \in Nat
      /\ segs[i].start \in Nat /\ segs[j].start \in Nat
  BY SegmentOf DEF Chained
<1>2. ~(i < j) /\ ~(j < i)
  BY <1>1 DEF Chained
<1> QED BY <1>2

LEMMA CutBelowIs ==
  ASSUME NEW g \in SegRec, NEW f \in Nat
  PROVE  /\ CutBelow(g, f) \in SegRec
         /\ CutBelow(g, f).start = g.start /\ CutBelow(g, f).first = g.first
         /\ CutBelow(g, f).persisted = g.persisted /\ LogEnd(CutBelow(g, f)) = LogEnd(g)
         /\ CutBelow(g, f).log = IF f <= g.log THEN g.log ELSE IF f <= LogEnd(g) THEN f ELSE LogEnd(g)
<1>1. /\ g.start \in Nat /\ g.log \in Nat /\ g.n \in Nat /\ g.first \in Nat /\ g.persisted \in BOOLEAN
      /\ LogEnd(g) = g.log + g.n
  BY SegmentIs
<1>2. PICK m : m = Min({f, LogEnd(g)})
  OBVIOUS
<1>3. m \in Nat /\ m = IF f <= LogEnd(g) THEN f ELSE LogEnd(g)
  BY <1>1, <1>2, MinOfTwo
<1>4. PICK k : k = Max({0, m - g.log})
  OBVIOUS
<1>5. k \in Nat /\ k = IF m <= g.log THEN 0 ELSE m - g.log
  BY <1>1, <1>3, <1>4, MaxOfTwo
<1>6. CutBelow(g, f) = [g EXCEPT !.log = @ + k, !.n = @ - k]
  BY <1>2, <1>4 DEF CutBelow
<1>7. g.log + k \in Nat /\ g.n - k \in Nat
  BY <1>1, <1>3, <1>5
<1>8. g = [start |-> g.start, log |-> g.log, n |-> g.n, first |-> g.first, persisted |-> g.persisted]
  BY DEF SegRec
<1>9. CutBelow(g, f) = [start |-> g.start, log |-> g.log + k, n |-> g.n - k, first |-> g.first,
                        persisted |-> g.persisted]
  BY <1>6, <1>8
<1>10. CutBelow(g, f) \in SegRec
  BY <1>1, <1>7, <1>9 DEF SegRec
<1> QED BY <1>1, <1>3, <1>5, <1>9, <1>10 DEF LogEnd

(* What trim leaves: t, the segments after the first d, the oldest cut at the floor. *)
TrimmedBy(segs, f, isOpen, t, d) ==
  /\ t \in Seq(SegRec) /\ Len(t) = Len(segs) - d
  /\ \A i \in 1..Len(t) :
       /\ t[i].start = segs[i + d].start /\ t[i].first = segs[i + d].first
       /\ t[i].persisted = segs[i + d].persisted /\ LogEnd(t[i]) = LogEnd(segs[i + d])
       /\ t[i].log = IF i = 1 /\ segs[i + d].log < f
                     THEN IF f <= LogEnd(segs[i + d]) THEN f ELSE LogEnd(segs[i + d])
                     ELSE segs[i + d].log
  /\ d > 0 => LogEnd(segs[d]) <= f
  /\ isOpen /\ Len(segs) > 0 => d < Len(segs)
  /\ Len(segs) > d + 1 => segs[d + 1].log >= f \/ LogEnd(segs[d + 1]) > f

LEMMA TrimIs ==
  ASSUME NEW segs, Chained(segs), NEW f \in Nat, NEW isOpen \in BOOLEAN, NEW t, t = Trim(segs, f, isOpen)
  PROVE  \E d \in 0..Len(segs) : TrimmedBy(segs, f, isOpen, t, d)
<1> DEFINE K == {i \in DOMAIN segs : segs[i].log >= f \/ LogEnd(segs[i]) > f \/ (isOpen /\ i = Len(segs))}
<1>1. segs \in Seq(SegRec) /\ Len(segs) \in Nat /\ DOMAIN segs = 1..Len(segs)
  BY DEF Chained
<1>2. K \in SUBSET Nat /\ K \subseteq 1..Len(segs)
      /\ \A i \in 1..Len(segs) : i \in K <=> segs[i].log >= f \/ LogEnd(segs[i]) > f \/ (isOpen /\ i = Len(segs))
  <2>1. K \subseteq 1..Len(segs)
    BY <1>1
  <2>2. ASSUME NEW i \in 1..Len(segs)
        PROVE  i \in K <=> segs[i].log >= f \/ LogEnd(segs[i]) > f \/ (isOpen /\ i = Len(segs))
    BY Zenon, <1>1
  <2> HIDE DEF K
  <2> QED BY <2>1, <2>2
<1>3. t = IF K = {} THEN <<>>
           ELSE [i \in 1..(Len(segs) - Min(K) + 1) |->
                   IF i = 1 THEN CutBelow(segs[Min(K)], f) ELSE segs[Min(K) + i - 1]]
  BY DEF Trim
<1> HIDE DEF K
<1>4. ASSUME NEW i \in 1..Len(segs), i \notin K PROVE LogEnd(segs[i]) <= f
  <2>1. ~(LogEnd(segs[i]) > f) /\ LogEnd(segs[i]) \in Nat
    BY <1>1, <1>2, <1>4, SegmentOf
  <2> QED BY <2>1
<1>5. CASE K = {}
  <2>1. ~(isOpen /\ Len(segs) > 0)
    <3>1. Len(segs) > 0 => Len(segs) \in 1..Len(segs) /\ Len(segs) \notin K
      BY <1>1, <1>5
    <3> QED BY <1>2, <3>1
  <2>2. t \in Seq(SegRec) /\ Len(t) = Len(segs) - Len(segs) /\ 1..Len(t) = {}
    BY <1>1, <1>3, <1>5
  <2>3. Len(segs) \in 0..Len(segs) /\ (Len(segs) = 0 => ~(Len(segs) > 1))
    BY <1>1
  <2>4. TrimmedBy(segs, f, isOpen, t, Len(segs))
    BY <1>1, <1>4, <1>5, <2>1, <2>2, <2>3 DEF TrimmedBy
  <2> QED BY <2>3, <2>4
<1>6. CASE K # {}
  <2>1. PICK o : o = Min(K)
    OBVIOUS
  <2>2. o \in K /\ \A n \in K : o <= n
    BY <1>2, <1>6, <2>1, MinIs
  <2>3. o \in 1..Len(segs) /\ o - 1 \in 0..Len(segs) /\ o \in Nat
    <3>1. o \in 1..Len(segs)
      BY <1>2, <2>2
    <3> QED BY <1>1, <3>1
  <2>4. t = [i \in 1..(Len(segs) - o + 1) |->
               IF i = 1 THEN CutBelow(segs[o], f) ELSE segs[o + i - 1]]
    BY <1>3, <1>6, <2>1
  <2>5. ASSUME NEW i \in 1..(Len(segs) - o + 1)
        PROVE  /\ t[i] \in SegRec
               /\ t[i].start = segs[i + (o - 1)].start /\ t[i].first = segs[i + (o - 1)].first
               /\ t[i].persisted = segs[i + (o - 1)].persisted
               /\ LogEnd(t[i]) = LogEnd(segs[i + (o - 1)])
               /\ t[i].log = IF i = 1 /\ segs[i + (o - 1)].log < f
                             THEN IF f <= LogEnd(segs[i + (o - 1)]) THEN f ELSE LogEnd(segs[i + (o - 1)])
                             ELSE segs[i + (o - 1)].log
    <3>1. i + (o - 1) = o + i - 1 /\ i + (o - 1) \in 1..Len(segs)
      BY <1>1, <2>3
    <3>2. segs[i + (o - 1)] \in SegRec /\ segs[i + (o - 1)].log \in Nat
      BY <1>1, <3>1, SegmentOf
    <3>3. CASE i # 1
      BY <2>4, <3>1, <3>2, <3>3
    <3>4. CASE i = 1
      <4>1. PICK g \in SegRec : g = segs[i + (o - 1)]
        BY <3>2
      <4>2. t[i] = CutBelow(g, f) /\ g.log \in Nat
        BY <2>3, <2>4, <3>2, <3>4, <4>1
      <4>3. /\ t[i] \in SegRec /\ t[i].start = g.start /\ t[i].first = g.first
            /\ t[i].persisted = g.persisted /\ LogEnd(t[i]) = LogEnd(g)
            /\ t[i].log = IF f <= g.log THEN g.log ELSE IF f <= LogEnd(g) THEN f ELSE LogEnd(g)
        BY <4>2, CutBelowIs
      <4>4. t[i].log = IF i = 1 /\ g.log < f THEN IF f <= LogEnd(g) THEN f ELSE LogEnd(g) ELSE g.log
        BY <3>4, <4>2, <4>3
      <4> QED BY <4>1, <4>3, <4>4
    <3> QED BY <3>3, <3>4
  <2>6. t \in Seq(SegRec) /\ Len(t) = Len(segs) - (o - 1)
    BY <1>1, <2>3, <2>4, <2>5
  <2>7. o - 1 > 0 => LogEnd(segs[o - 1]) <= f
    BY <1>1, <1>4, <2>2, <2>3
  <2>8. isOpen /\ Len(segs) > 0 => o - 1 < Len(segs)
    BY <1>1, <2>3
  <2>9. Len(segs) > (o - 1) + 1 => segs[(o - 1) + 1].log >= f \/ LogEnd(segs[(o - 1) + 1]) > f
    BY <1>2, <2>2, <2>3
  <2>10. 1..Len(t) = 1..(Len(segs) - o + 1)
    BY <1>1, <2>3, <2>6
  <2>11. TrimmedBy(segs, f, isOpen, t, o - 1)
    BY <2>5, <2>6, <2>7, <2>8, <2>9, <2>10 DEF TrimmedBy
  <2> QED BY <2>3, <2>11
<1> QED BY <1>5, <1>6

(* Trimmed segments still follow one another, and begin at the floor. *)
Trimmed(segs, f, isOpen, t) ==
  /\ Chained(t)
  /\ isOpen /\ segs # <<>> => t # <<>>
  /\ segs # <<>> /\ t = <<>> => LogEnd(segs[Len(segs)]) <= f
  /\ t # <<>> =>
       /\ segs # <<>>
       /\ LogEnd(t[Len(t)]) = LogEnd(segs[Len(segs)])
       /\ EndIndex(t[Len(t)]) = EndIndex(segs[Len(segs)])
       /\ t[1].log = Max({segs[1].log, Min({f, LogEnd(segs[Len(segs)])})})
  /\ \A i \in 1..Len(t) : \E h \in 1..Len(segs) :
       /\ t[i].start = segs[h].start /\ t[i].first = segs[h].first
       /\ t[i].persisted = segs[h].persisted
       /\ LogEnd(t[i]) = LogEnd(segs[h]) /\ segs[h].log <= t[i].log /\ t[i].n <= segs[h].n

LEMMA TrimChained ==
  ASSUME NEW segs, Chained(segs), NEW f \in Nat, NEW isOpen \in BOOLEAN, NEW t, t = Trim(segs, f, isOpen)
  PROVE  Trimmed(segs, f, isOpen, t)
<1>1. PICK d \in 0..Len(segs) :
           /\ t \in Seq(SegRec) /\ Len(t) = Len(segs) - d
           /\ \A i \in 1..Len(t) :
                /\ t[i].start = segs[i + d].start /\ t[i].first = segs[i + d].first
                /\ t[i].persisted = segs[i + d].persisted /\ LogEnd(t[i]) = LogEnd(segs[i + d])
                /\ t[i].log = IF i = 1 /\ segs[i + d].log < f
                              THEN IF f <= LogEnd(segs[i + d]) THEN f ELSE LogEnd(segs[i + d])
                              ELSE segs[i + d].log
           /\ d > 0 => LogEnd(segs[d]) <= f
           /\ isOpen /\ Len(segs) > 0 => d < Len(segs)
           /\ Len(segs) > d + 1 => segs[d + 1].log >= f \/ LogEnd(segs[d + 1]) > f
  <2>1. \E d \in 0..Len(segs) : TrimmedBy(segs, f, isOpen, t, d)
    BY TrimIs
  <2> QED BY <2>1 DEF TrimmedBy
<1>2. segs \in Seq(SegRec) /\ Len(segs) \in Nat /\ Len(t) \in Nat
      /\ (segs # <<>> <=> Len(segs) > 0) /\ (t # <<>> <=> Len(t) > 0)
  BY <1>1 DEF Chained
<1>3. \A i \in 1..Len(t) :
        /\ i + d \in 1..Len(segs) /\ (i < Len(t) <=> i + d < Len(segs)) /\ (i + 1) + d = (i + d) + 1
        /\ t[i].start \in Nat /\ t[i].log \in Nat /\ t[i].n \in Nat /\ t[i].first \in Nat
        /\ LogEnd(t[i]) = t[i].log + t[i].n /\ LogEnd(t[i]) \in Nat /\ LogEnd(segs[i + d]) \in Nat
        /\ segs[i + d].first \in Nat /\ segs[i + d].start \in Nat /\ segs[i + d].log \in Nat /\ segs[i + d].n \in Nat
        /\ LogEnd(segs[i + d]) = segs[i + d].log + segs[i + d].n
        /\ EndIndex(t[i]) = t[i].first + (t[i].log + t[i].n - t[i].start)
        /\ EndIndex(segs[i + d]) = segs[i + d].first + (segs[i + d].log + segs[i + d].n - segs[i + d].start)
  <2> TAKE i \in 1..Len(t)
  <2>1. i + d \in 1..Len(segs) /\ (i < Len(t) <=> i + d < Len(segs)) /\ (i + 1) + d = (i + d) + 1
    BY <1>1, <1>2
  <2>2. /\ segs[i + d].start \in Nat /\ segs[i + d].log \in Nat /\ segs[i + d].n \in Nat
        /\ segs[i + d].first \in Nat /\ LogEnd(segs[i + d]) \in Nat
        /\ LogEnd(segs[i + d]) = segs[i + d].log + segs[i + d].n
        /\ EndIndex(segs[i + d]) = segs[i + d].first + (segs[i + d].log + segs[i + d].n - segs[i + d].start)
    BY <1>2, <2>1, SegmentOf
  <2> QED BY <1>1, <2>1, <2>2, SegmentOf
<1>4. ASSUME NEW i \in 1..Len(t)
      PROVE  /\ segs[i + d].log <= t[i].log /\ t[i].n <= segs[i + d].n /\ t[i].start <= t[i].log
             /\ t[i].log # segs[i + d].log => i = 1
             /\ EndIndex(t[i]) = EndIndex(segs[i + d])
  <2>1. /\ i + d \in 1..Len(segs)
        /\ t[i].start \in Nat /\ t[i].log \in Nat /\ t[i].n \in Nat /\ t[i].first \in Nat
        /\ LogEnd(t[i]) = t[i].log + t[i].n
        /\ segs[i + d].start \in Nat /\ segs[i + d].log \in Nat /\ segs[i + d].n \in Nat
        /\ LogEnd(segs[i + d]) = segs[i + d].log + segs[i + d].n
        /\ EndIndex(t[i]) = t[i].first + (t[i].log + t[i].n - t[i].start)
        /\ EndIndex(segs[i + d]) = segs[i + d].first + (segs[i + d].log + segs[i + d].n - segs[i + d].start)
        /\ segs[i + d].first \in Nat
    BY <1>3
  <2>2. LogEnd(t[i]) = LogEnd(segs[i + d]) /\ t[i].start = segs[i + d].start /\ t[i].first = segs[i + d].first
    BY <1>1
  <2>3. PICK l, n, m, k, s, e : /\ l = segs[i + d].log /\ n = segs[i + d].n /\ m = t[i].log /\ k = t[i].n
                                /\ s = segs[i + d].start /\ e = LogEnd(segs[i + d])
    OBVIOUS
  <2>4. l \in Nat /\ n \in Nat /\ m \in Nat /\ k \in Nat /\ s \in Nat /\ e = l + n /\ e = m + k /\ s <= l
    BY <2>1, <2>2, <2>3 DEF Chained
  <2>5. m = IF i = 1 /\ l < f THEN IF f <= e THEN f ELSE e ELSE l
    BY <1>1, <2>3
  <2>6. l <= m /\ k <= n /\ s <= m /\ (m # l => i = 1)
    BY <2>4, <2>5
  <2>7. EndIndex(t[i]) = EndIndex(segs[i + d])
    <3>1. PICK q : q = segs[i + d].first
      OBVIOUS
    <3>2. m + k - s = l + n - s
      BY <2>4
    <3> QED BY <2>1, <2>2, <2>3, <3>1, <3>2
  <2> QED BY <2>2, <2>3, <2>6, <2>7
<1>5. \A i, j \in 1..Len(t) : i < j => LogEnd(t[i]) <= t[j].start /\ t[j].log = t[j].start
  <2> SUFFICES ASSUME NEW i \in 1..Len(t), NEW j \in 1..Len(t), i < j
               PROVE  LogEnd(t[i]) <= t[j].start /\ t[j].log = t[j].start
    OBVIOUS
  <2>1. i + d < j + d /\ i + d \in 1..Len(segs) /\ j + d \in 1..Len(segs) /\ j # 1
    BY <1>1, <1>3
  <2> QED BY <1>1, <2>1 DEF Chained
<1>6. \A i \in 1..Len(t) : i < Len(t) => t[i].n > 0 /\ t[i + 1].log = LogEnd(t[i])
  <2> SUFFICES ASSUME NEW i \in 1..Len(t), i < Len(t)
               PROVE  t[i].n > 0 /\ t[i + 1].log = LogEnd(t[i])
    OBVIOUS
  <2>1. i + 1 \in 1..Len(t) /\ i + 1 # 1 /\ i + d < Len(segs) /\ (i + d) + 1 = (i + 1) + d
    BY <1>2, <1>3
  <2>2. segs[i + d].n > 0 /\ segs[(i + 1) + d].log = LogEnd(segs[i + d])
    BY <1>3, <2>1 DEF Chained
  <2>3. PICK l, n, m, k, e : /\ l = segs[i + d].log /\ n = segs[i + d].n /\ m = t[i].log /\ k = t[i].n
                             /\ e = LogEnd(segs[i + d])
    OBVIOUS
  <2>4. l \in Nat /\ n \in Nat /\ m \in Nat /\ k \in Nat /\ e = l + n /\ n > 0
    BY <1>3, <2>2, <2>3
  <2>5. LogEnd(t[i]) = e /\ LogEnd(t[i]) = m + k
    BY <1>1, <1>3, <2>3
  <2>6. m = IF i = 1 /\ l < f THEN IF f <= e THEN f ELSE e ELSE l
    BY <1>1, <2>3
  <2>7. ASSUME i = 1, l < f PROVE f < e
    <3>1. segs[i + d].log >= f \/ LogEnd(segs[i + d]) > f
      BY <1>1, <1>2, <2>1, <2>7
    <3> QED BY <2>3, <2>4, <2>7, <3>1
  <2>8. k > 0
    BY <2>4, <2>5, <2>6, <2>7
  <2> QED BY <1>1, <2>1, <2>2, <2>3, <2>8
<1>7. Chained(t)
  BY <1>1, <1>4, <1>5, <1>6 DEF Chained
<1>8. isOpen /\ segs # <<>> => t # <<>>
  <2>1. PICK a, b : a = Len(segs) /\ b = Len(t)
    OBVIOUS
  <2>2. b = a - d /\ d \in Nat /\ a \in Nat /\ (isOpen /\ a > 0 => d < a)
    BY <1>1, <1>2, <2>1
  <2>3. isOpen /\ a > 0 => b > 0
    BY <2>2
  <2> QED BY <1>2, <2>1, <2>3
<1>9. ASSUME t # <<>>
       PROVE  /\ segs # <<>>
              /\ LogEnd(t[Len(t)]) = LogEnd(segs[Len(segs)])
              /\ EndIndex(t[Len(t)]) = EndIndex(segs[Len(segs)])
              /\ t[1].log = Max({segs[1].log, Min({f, LogEnd(segs[Len(segs)])})})
  <2>1. Len(t) \in 1..Len(t) /\ Len(t) + d = Len(segs) /\ Len(segs) > 0 /\ 1 \in 1..Len(t)
        /\ 1 \in 1..Len(segs) /\ Len(segs) \in 1..Len(segs) /\ d < Len(segs)
    BY <1>1, <1>2, <1>9
  <2>2. LogEnd(t[Len(t)]) = LogEnd(segs[Len(segs)]) /\ EndIndex(t[Len(t)]) = EndIndex(segs[Len(segs)])
    BY <1>1, <1>4, <2>1
  <2>3. PICK e : e = LogEnd(segs[Len(segs)])
    OBVIOUS
  <2>4. e \in Nat /\ segs[1].log \in Nat /\ LogEnd(segs[1]) \in Nat /\ segs[1].log <= LogEnd(segs[1])
    BY <1>2, <2>1, <2>3, SegmentOf
  <2>5. PICK m : m = Min({f, e})
    OBVIOUS
  <2>6. m \in Nat /\ m = IF f <= e THEN f ELSE e
    BY <2>4, <2>5, MinOfTwo
  <2>7. Max({segs[1].log, m}) = IF segs[1].log >= m THEN segs[1].log ELSE m
    BY <2>4, <2>6, MaxOfTwo
  <2>8. 1 + d = d + 1 /\ d + 1 \in 1..Len(segs) /\ segs[d + 1].log \in Nat
        /\ LogEnd(segs[d + 1]) = segs[d + 1].log + segs[d + 1].n /\ segs[d + 1].n \in Nat
    BY <1>2, <1>3, <2>1
  <2>9. t[1].log = IF segs[d + 1].log < f
                   THEN IF f <= LogEnd(segs[d + 1]) THEN f ELSE LogEnd(segs[d + 1])
                   ELSE segs[d + 1].log
    BY <1>1, <2>1, <2>8
  <2>10. LogEnd(segs[d + 1]) <= e
    <3>1. CASE d + 1 = Len(segs)
      BY <2>3, <2>8, <2>4, <3>1
    <3>2. CASE d + 1 < Len(segs)
      <4>1. LogEnd(segs[d + 1]) <= segs[Len(segs)].start /\ segs[Len(segs)].log = segs[Len(segs)].start
        BY <2>1, <2>8, <3>2 DEF Chained
      <4>2. /\ segs[Len(segs)].log \in Nat /\ segs[Len(segs)].n \in Nat
            /\ e = segs[Len(segs)].log + segs[Len(segs)].n
        BY <1>2, <2>1, <2>3, SegmentOf
      <4> QED BY SMTT(40), <2>8, <4>1, <4>2
    <3> QED BY <1>2, <2>8, <3>1, <3>2
  <2>11. CASE d = 0
    <3>1. f <= LogEnd(segs[1]) \/ e = LogEnd(segs[1]) \/ segs[1].log >= f
      BY <1>1, <1>2, <2>1, <2>3, <2>4, <2>11
    <3>2. LogEnd(segs[1]) <= e
      BY <2>10, <2>11
    <3>3. t[1].log = Max({segs[1].log, m})
      BY <2>4, <2>6, <2>7, <2>9, <2>11, <3>1, <3>2
    <3> QED BY <2>2, <2>1, <1>2, <2>3, <2>5, <3>3
  <2>12. CASE d > 0
    <3>1. LogEnd(segs[d]) <= f /\ d \in 1..Len(segs) /\ LogEnd(segs[d]) \in Nat
      BY <1>1, <1>2, <2>12, SegmentOf
    <3>2. segs[d + 1].log = LogEnd(segs[d]) /\ LogEnd(segs[d]) <= segs[d + 1].start
      BY <2>1, <2>8, <3>1 DEF Chained
    <3>3. segs[1].log <= LogEnd(segs[d])
      <4>1. CASE d = 1
        BY <2>4, <4>1
      <4>2. CASE d > 1
        <5>1. LogEnd(segs[1]) <= segs[d].start /\ segs[d].log = segs[d].start
          BY <2>1, <3>1, <4>2 DEF Chained
        <5>2. segs[d].log \in Nat /\ segs[d].n \in Nat /\ LogEnd(segs[d]) = segs[d].log + segs[d].n
          BY <1>2, <3>1, SegmentOf
        <5> QED BY <2>4, <5>1, <5>2
      <4> QED BY <2>12, <4>1, <4>2, <1>1
    <3>4. f <= LogEnd(segs[d + 1]) \/ LogEnd(segs[d + 1]) = e
      <4>1. CASE d + 1 = Len(segs)
        BY <2>3, <4>1
      <4>2. CASE d + 1 < Len(segs)
        <5>1. t[1].n > 0 /\ LogEnd(t[1]) = LogEnd(segs[d + 1])
          BY <1>1, <1>2, <1>6, <2>1, <2>8, <4>2
        <5>2. t[1].log < LogEnd(segs[d + 1])
          BY <1>3, <2>1, <5>1
        <5> QED BY <2>8, <2>9, <5>2, <1>3, <2>1
      <4> QED BY <1>2, <2>8, <4>1, <4>2
    <3>5. t[1].log = Max({segs[1].log, m})
      BY SMTT(40), <2>4, <2>6, <2>7, <2>8, <2>9, <2>10, <3>1, <3>2, <3>3, <3>4
    <3> QED BY <2>2, <2>1, <1>2, <2>3, <2>5, <3>5
  <2> QED BY <1>1, <2>11, <2>12
<1>10. \A i \in 1..Len(t) : \E h \in 1..Len(segs) :
          /\ t[i].start = segs[h].start /\ t[i].first = segs[h].first
          /\ t[i].persisted = segs[h].persisted
          /\ LogEnd(t[i]) = LogEnd(segs[h]) /\ segs[h].log <= t[i].log /\ t[i].n <= segs[h].n
  BY <1>1, <1>3, <1>4
<1> QED BY <1>1, <1>2, <1>7, <1>8, <1>9, <1>10 DEF Trimmed

-----------------------------------------------------------------------------
(* The inductive invariant *)

(* The slots are consecutive, full and sealed but the last, each at its position;  *)
(* e is where they end, f is not below them.                                       *)
SlotsOk(ss, f, e) ==
  /\ ss \in Seq(SlotRec)
  /\ \A i \in 1..Len(ss) :
       /\ ss[i].l = ss[1].l + (i - 1)
       /\ Len(ss[i].crc) = ss[i].sealed /\ ss[i].sealed <= ss[i].n
       /\ i < Len(ss) => ss[i].n = SlotSamples /\ ss[i].sealed = SlotSamples
  /\ \A i, j \in 1..Len(ss) : ss[i].pos = ss[j].pos => i = j
  /\ ss = <<>> => e = 0
  /\ ss # <<>> => e = FirstOf(ss[Len(ss)].l) + ss[Len(ss)].n /\ FirstOf(ss[1].l) <= f

(* The segments cover the log from its floor f to its end e. *)
SegsOk(segs, f, e) ==
  /\ Chained(segs)
  /\ segs = <<>> => e <= f
  /\ segs # <<>> => /\ LogEnd(segs[Len(segs)]) = e
                    /\ f <= e => segs[1].log = f
                    /\ e <= f => segs[1].log = e

(* What the segments say of a sample is what the ring holds at its place. *)
ValuesOk(ss, segs, rg) ==
  \A x \in 1..Len(ss), i \in 1..Len(segs) : \A k \in 0..(ss[x].n - 1) :
    segs[i].log <= FirstOf(ss[x].l) + k /\ FirstOf(ss[x].l) + k < LogEnd(segs[i])
      => rg[<<ss[x].pos, k>>] = IndexAt(segs[i], FirstOf(ss[x].l) + k)

(* The sealed samples of a set of slots are on disk, whatever a crash drops. *)
Durable(S, rg, dk, dt) ==
  \A s \in S : \A k \in 1..s.sealed :
    /\ <<s.pos, k - 1>> \notin dt
    /\ rg[<<s.pos, k - 1>>] = s.crc[k] /\ dk[<<s.pos, k - 1>>] = s.crc[k]

JournalType(j) ==
  /\ j = [slots |-> j.slots, floor |-> j.floor, segs |-> j.segs]
  /\ j.slots \subseteq SlotRec /\ j.floor \in Nat /\ j.segs \subseteq Start /\ IsFiniteSet(j.segs)
  /\ \A s \in j.slots : s.n = s.sealed /\ Len(s.crc) = s.sealed
  /\ \A g, h \in j.segs : g.start = h.start => g = h

(* The slots of a journal: no two alike, no hole, sealed full but the newest. *)
JournalSlots(j) ==
  /\ \A s, t \in j.slots : /\ s.l = t.l \/ s.pos = t.pos => s = t
                           /\ s.l < t.l => s.sealed = SlotSamples
                           /\ \A m \in s.l..t.l : \E u \in j.slots : u.l = m
  /\ j.slots # {} => \E s \in j.slots : \A t \in j.slots : t.l <= s.l

(* A sealed sample above the floor is in the segment that the starts give it. *)
JournalValues(j) ==
  \A s \in j.slots : \A k \in 1..s.sealed :
    j.floor <= FirstOf(s.l) + (k - 1) =>
      \E g \in j.segs : /\ g.start <= FirstOf(s.l) + (k - 1)
                        /\ s.crc[k] = g.first + (FirstOf(s.l) + (k - 1) - g.start)
                        /\ \A h \in j.segs : h.start <= FirstOf(s.l) + (k - 1) => h.start <= g.start

JournalOk(j) == JournalType(j) /\ JournalSlots(j) /\ JournalValues(j)

(* The slots in the journal (not the one whose record is being written), and where *)
(* what they have sealed ends.                                                     *)
Settled   == IF pc = <<"open">> THEN Len(slots) - 1 ELSE Len(slots)
SealedEnd == IF Settled = 0 THEN 0 ELSE FirstOf(slots[Settled].l) + slots[Settled].sealed

TypeInv ==
  /\ floor \in Nat /\ end \in Nat /\ stream \in Nat /\ rest \in Nat
  /\ open \in BOOLEAN /\ pc \in Steps /\ (cur = None \/ cur \in Cursor)

SlotInv ==
  /\ SlotsOk(slots, floor, end)
  /\ free = Positions \ {slots[i].pos : i \in 1..Len(slots)}

(* The cursor is at the last settled slot; what it wrote is in the ring, and on    *)
(* disk or still dirty.                                                            *)
CurInv ==
  /\ cur = None => Settled = 0 \/ slots[Settled].sealed = SlotSamples
  /\ cur # None =>
       /\ Settled > 0 /\ cur.l = slots[Settled].l /\ cur.pos = slots[Settled].pos
       /\ cur.sealed = slots[Settled].sealed /\ Len(cur.crc) = slots[Settled].n
       /\ \A k \in 1..Len(cur.crc) :
            /\ ring[<<cur.pos, k - 1>>] = cur.crc[k]
            /\ <<cur.pos, k - 1>> \in dirty \/ disk[<<cur.pos, k - 1>>] = cur.crc[k]
       /\ \A k \in 1..cur.sealed : cur.crc[k] = slots[Settled].crc[k]
  /\ pc \in Working => open /\ rest > 0

(* What a step under way has done. *)
StepInv ==
  /\ pc = <<"open">> =>
       /\ slots # <<>> /\ slots[Len(slots)].n = 0 /\ (Len(slots) = 1 => end = 0)
       /\ pending = [segs |-> {}, rec |-> Open(slots[Len(slots)].l, slots[Len(slots)].pos)]
  /\ pc = <<"count">> =>
       /\ cur # None /\ Len(cur.crc) < SlotSamples
       /\ \A i \in 1..Room : /\ ring[<<cur.pos, Len(cur.crc) + i - 1>>] = stream + i - 1
                             /\ <<cur.pos, Len(cur.crc) + i - 1>> \in dirty
  /\ pc \in Sealing =>
       /\ cur # None
       /\ \A k \in 1..Len(cur.crc) : <<cur.pos, k - 1>> \notin dirty /\ disk[<<cur.pos, k - 1>>] = cur.crc[k]
       /\ pending = [segs |-> {Segment(segments[i]) : i \in Unpersisted},
                     rec |-> Sealed(cur.l, Len(cur.crc), cur.crc, floor)]
  /\ pc # <<"open">> /\ pc \notin Sealing => pending = NoRecords

SegInv ==
  /\ SegsOk(segments, floor, end)
  /\ open => segments # <<>> /\ EndIndex(segments[Len(segments)]) = stream

(* What is persisted began below the sealed end; what is not, lies above it.       *)
PersistInv ==
  \A i \in 1..Len(segments) :
    /\ segments[i].persisted =>
         segments[i].start < SealedEnd /\ Segment(segments[i]) \in journal.segs
    /\ ~segments[i].persisted =>
         /\ SealedEnd <= segments[i].log
         /\ SealedEnd <= segments[i].start \/ SealedEnd <= journal.floor
         /\ \A g \in journal.segs : g.start # segments[i].start

ValueInv   == ValuesOk(slots, segments, ring)
JournalInv == JournalOk(journal) /\ Durable(journal.slots, ring, disk, dirty)

(* The journal knows the settled slots, and at most the one just evicted besides. *)
LinkInv ==
  /\ \A x \in 1..Settled : [slots[x] EXCEPT !.n = slots[x].sealed] \in journal.slots
  /\ \A s \in journal.slots :
       /\ Settled > 0 /\ s.l <= slots[Settled].l
       /\ s.l < slots[1].l => FirstOf(s.l + 1) <= floor /\ s.l + 1 = slots[1].l
  /\ \A g \in journal.segs : g.start < SealedEnd
  /\ \A g \in journal.segs, i \in 1..Len(segments) :
       ~(segments[i].start < g.start /\ g.start < LogEnd(segments[i]))

FloorInv ==
  "lost" \notin Faults => floor <= end /\ journal.floor <= floor /\ journal.floor <= SealedEnd

Inv == /\ TypeInv /\ SlotInv /\ CurInv /\ StepInv /\ SegInv
       /\ PersistInv /\ ValueInv /\ JournalInv /\ LinkInv /\ FloorInv

(* A slot is sealed before the next one is taken, so only the ring's first slot    *)
(* comes before a seal; and a segment persisted keeps a sample.                    *)
SealedFirst   == slots # <<>> /\ slots[1].sealed = 0 => slots[1].l = 0
PersistedHave == \A i \in 1..Len(segments) : segments[i].persisted => segments[i].n > 0
Whole         == SealedFirst /\ PersistedHave

-----------------------------------------------------------------------------
(* Slots, and what the invariant says of the properties *)

LEMMA SlotOf ==
  ASSUME NEW ss, NEW f \in Nat, NEW e \in Nat, SlotsOk(ss, f, e), NEW i \in 1..Len(ss)
  PROVE  /\ Len(ss) \in Nat /\ ss[i] \in SlotRec
         /\ ss[i].l \in Nat /\ ss[i].pos \in Positions /\ ss[i].n \in Nat /\ ss[i].sealed \in Nat
         /\ ss[i].n <= SlotSamples /\ ss[i].sealed <= ss[i].n /\ ss[i].crc \in Seq(Nat)
         /\ Len(ss[i].crc) = ss[i].sealed /\ ss[i].l = ss[1].l + (i - 1) /\ ss[1].l \in Nat
         /\ i < Len(ss) => ss[i].n = SlotSamples /\ ss[i].sealed = SlotSamples
         /\ FirstOf(ss[i].l) \in Nat
<1>1. ss \in Seq(SlotRec) /\ Len(ss) \in Nat
  BY DEF SlotsOk
<1>2. ss[i] \in SlotRec /\ 1 \in 1..Len(ss)
  BY <1>1
<1>3. ss[1] \in SlotRec
  BY <1>1, <1>2
<1>4. /\ ss[i].l \in Nat /\ ss[i].pos \in Positions /\ ss[i].n \in 0..SlotSamples
      /\ ss[i].sealed \in 0..SlotSamples /\ ss[i].crc \in Seq(Nat) /\ ss[1].l \in Nat
  BY <1>2, <1>3 DEF SlotRec
<1>5. /\ Len(ss[i].crc) = ss[i].sealed /\ ss[i].sealed <= ss[i].n /\ ss[i].l = ss[1].l + (i - 1)
      /\ i < Len(ss) => ss[i].n = SlotSamples /\ ss[i].sealed = SlotSamples
  BY DEF SlotsOk
<1>6. ss[i].n \in Nat /\ ss[i].sealed \in Nat /\ ss[i].n <= SlotSamples
  BY <1>4, Sizes
<1> QED BY <1>1, <1>2, <1>4, <1>5, <1>6, FirstOfIs

LEMMA SlotNumbers ==
  ASSUME NEW ss, NEW f \in Nat, NEW e \in Nat, SlotsOk(ss, f, e), NEW i \in 1..Len(ss), NEW j \in 1..Len(ss)
  PROVE  /\ ss[i].l = ss[j].l => i = j
         /\ i < j => ss[i].l < ss[j].l /\ FirstOf(ss[i].l) + SlotSamples <= FirstOf(ss[j].l)
         /\ ss[i].pos = ss[j].pos => i = j
<1>1. ss[i].l = ss[1].l + (i - 1) /\ ss[j].l = ss[1].l + (j - 1) /\ ss[1].l \in Nat /\ ss[i].l \in Nat /\ ss[j].l \in Nat
  BY SlotOf
<1>2. ss[i].l = ss[j].l => i = j
  BY SMTT(40), <1>1
<1>3. i < j => ss[i].l < ss[j].l
  BY <1>1
<1>4. i < j => FirstOf(ss[i].l) + SlotSamples <= FirstOf(ss[j].l)
  BY <1>1, <1>3, FirstOfIs
<1>5. ss[i].pos = ss[j].pos => i = j
  BY DEF SlotsOk
<1> QED BY <1>2, <1>3, <1>4, <1>5

(* Slot x has sample p of the log at offset k, and no other slot has it. *)
Places(ss, p, x, k) ==
  /\ k \in 0..(ss[x].n - 1)
  /\ p = FirstOf(ss[x].l) + k /\ ss[x].l = p \div SlotSamples /\ k = p % SlotSamples
  /\ \A y \in 1..Len(ss) : ss[y].l = p \div SlotSamples => y = x

LEMMA SlotAt ==
  ASSUME NEW ss, NEW f \in Nat, NEW e \in Nat, SlotsOk(ss, f, e), NEW p \in Nat, f <= p, p < e
  PROVE  \E x \in 1..Len(ss), k \in Nat : Places(ss, p, x, k)
<1>1. ss # <<>> /\ ss \in Seq(SlotRec)
  BY DEF SlotsOk
<1>2. Len(ss) \in Nat /\ 1 \in 1..Len(ss) /\ Len(ss) \in 1..Len(ss)
  BY <1>1
<1>3. PICK a : a = ss[1].l
  OBVIOUS
<1>4. PICK n : n = Len(ss)
  OBVIOUS
<1>5. a \in Nat /\ n \in Nat /\ n > 0 /\ FirstOf(a) <= f /\ FirstOf(a) \in Nat
  <2>1. FirstOf(a) <= f
    BY <1>1, <1>3 DEF SlotsOk
  <2>2. a \in Nat
    BY <1>2, <1>3, SlotOf
  <2> QED BY <1>2, <1>4, <2>1, <2>2, FirstOfIs
<1>6. e = FirstOf(ss[n].l) + ss[n].n /\ ss[n].l = a + (n - 1) /\ ss[n].n \in Nat /\ ss[n].n <= SlotSamples
  BY <1>1, <1>2, <1>3, <1>4, SlotOf DEF SlotsOk
<1>7. PICK q : q = p \div SlotSamples
  OBVIOUS
<1>8. PICK k : k = p % SlotSamples
  OBVIOUS
<1>9. q \in Nat /\ k \in 0..(SlotSamples - 1) /\ p = FirstOf(q) + k /\ FirstOf(q) \in Nat
  BY <1>7, <1>8, PlaceOf, FirstOfIs
<1>10. a <= q
  BY <1>5, <1>9, FirstOfIs, Sizes
<1>11. q <= a + (n - 1)
  <2>1. a + (n - 1) \in Nat /\ FirstOf(a + (n - 1)) \in Nat
    BY SMTT(40), <1>5, FirstOfIs
  <2>2. a + (n - 1) < q => FirstOf(a + (n - 1)) + SlotSamples <= FirstOf(q)
    BY <1>9, <2>1, FirstOfIs
  <2> QED BY <1>5, <1>6, <1>9, <2>1, <2>2, Sizes
<1>12. PICK x : x = q - a + 1
  OBVIOUS
<1>13. x \in 1..Len(ss) /\ q = a + (x - 1) /\ (x < n \/ x = n)
  BY SMTT(40), <1>4, <1>5, <1>9, <1>10, <1>11, <1>12
<1>14. ss[x].l = q /\ ss[x].n \in Nat /\ (x < n => ss[x].n = SlotSamples)
  BY <1>3, <1>4, <1>13, SlotOf
<1>15. k \in 0..(ss[x].n - 1)
  <2>1. CASE x < n
    BY <1>9, <1>14, <2>1
  <2>2. CASE x = n
    BY <1>6, <1>9, <1>14, <2>2, Sizes
  <2> QED BY <1>13, <2>1, <2>2
<1>16. \A y \in 1..Len(ss) : ss[y].l = q => y = x
  BY <1>13, <1>14, SlotNumbers
<1>17. Places(ss, p, x, k)
  BY <1>7, <1>8, <1>9, <1>13, <1>14, <1>15, <1>16 DEF Places
<1> QED BY <1>9, <1>13, <1>17, Sizes

(* A retained sample lies between the floor and the end. *)
LEMMA Retained ==
  ASSUME NEW segs, NEW f \in Nat, NEW e \in Nat, SegsOk(segs, f, e), NEW i \in 1..Len(segs), NEW p \in Int,
         segs[i].log <= p, p < LogEnd(segs[i])
  PROVE  p \in Nat /\ f <= p /\ p < e
<1>1. Chained(segs) /\ segs \in Seq(SegRec)
  BY DEF SegsOk, Chained
<1>2. Len(segs) \in Nat /\ 1 \in 1..Len(segs) /\ Len(segs) \in 1..Len(segs) /\ segs # <<>>
  BY <1>1
<1>3. PICK a, b, c, d, z : a = segs[i].log /\ b = LogEnd(segs[i]) /\ c = segs[1].log /\ d = LogEnd(segs[1]) /\ z = segs[i].start
  OBVIOUS
<1>4. PICK s, t : s = segs[Len(segs)].log /\ t = segs[Len(segs)].start
  OBVIOUS
<1>5. /\ a \in Nat /\ b \in Nat /\ c \in Nat /\ d \in Nat /\ c <= d /\ z \in Nat /\ a <= p /\ p < b
      /\ s \in Nat /\ t \in Nat /\ s <= e /\ LogEnd(segs[Len(segs)]) = e
  BY <1>1, <1>2, <1>3, <1>4, SegmentOf DEF SegsOk
<1>6. c <= a
  <2>1. CASE i = 1
    BY <1>3, <1>5, <2>1
  <2>2. CASE i # 1
    <3>1. d <= z /\ a = z
      BY <1>1, <1>2, <1>3, <2>2 DEF Chained
    <3> QED BY <1>5, <3>1
  <2> QED BY <2>1, <2>2
<1>7. b <= e
  <2>1. CASE i = Len(segs)
    BY <1>3, <1>5, <2>1
  <2>2. CASE i # Len(segs)
    <3>1. b <= t /\ s = t
      BY <1>1, <1>2, <1>3, <1>4, <2>2 DEF Chained
    <3> QED BY <1>5, <3>1
  <2> QED BY <2>1, <2>2
<1>8. f <= p /\ p < e /\ p \in Nat
  BY <1>2, <1>3, <1>5, <1>6, <1>7 DEF SegsOk
<1> QED BY <1>8

LEMMA IndexIsExactFollows ==
  ASSUME TypeInv, SlotInv, SegInv, ValueInv
  PROVE  IndexIsExact
<1>1. SlotsOk(slots, floor, end) /\ floor \in Nat /\ end \in Nat /\ SegsOk(segments, floor, end)
  BY DEF TypeInv, SlotInv, SegInv
<1>2. segments \in Seq(SegRec) /\ slots \in Seq(SlotRec) /\ DOMAIN segments = 1..Len(segments) /\ DOMAIN slots = 1..Len(slots)
  BY <1>1 DEF SegsOk, Chained, SlotsOk
<1> SUFFICES ASSUME NEW i \in 1..Len(segments), NEW p \in segments[i].log .. (LogEnd(segments[i]) - 1)
             PROVE  Cardinality(Holding(p)) = 1 /\ ring[CellOf(p)] = IndexAt(segments[i], p)
  BY <1>2 DEF IndexIsExact
<1>3. p \in Int /\ segments[i].log <= p /\ p < LogEnd(segments[i])
  BY <1>2, SegmentOf
<1>4. PICK x \in 1..Len(slots), k \in Nat : Places(slots, p, x, k)
  BY <1>1, <1>3, Retained, SlotAt
<1>5. /\ k \in 0..(slots[x].n - 1)
      /\ p = FirstOf(slots[x].l) + k /\ slots[x].l = p \div SlotSamples /\ k = p % SlotSamples
      /\ \A y \in 1..Len(slots) : slots[y].l = p \div SlotSamples => y = x
  BY <1>4 DEF Places
<1>6. Holding(p) = {x}
  BY <1>2, <1>5 DEF Holding
<1>7. CellOf(p) = <<slots[x].pos, k>>
  BY <1>5, <1>6 DEF CellOf
<1>8. ring[<<slots[x].pos, k>>] = IndexAt(segments[i], p)
  BY <1>3, <1>5 DEF ValueInv, ValuesOk
<1> QED BY <1>6, <1>7, <1>8, FS_Singleton

LEMMA PositionsFollow ==
  ASSUME TypeInv, SlotInv
  PROVE  PositionsArePartitioned
<1>1. SlotsOk(slots, floor, end) /\ slots \in Seq(SlotRec) /\ DOMAIN slots = 1..Len(slots)
  BY DEF SlotInv, SlotsOk
<1> DEFINE held == [i \in DOMAIN slots |-> slots[i].pos]
<1>2. DOMAIN held = 1..Len(slots) /\ \A i \in 1..Len(slots) : held[i] = slots[i].pos
  BY <1>1
<1>3. free = Positions \ Range(held)
  BY <1>2 DEF SlotInv, Range
<1> QED BY <1>1, <1>2, <1>3 DEF PositionsArePartitioned, IsInjective, SlotsOk

LEMMA FloorFollows ==
  ASSUME FloorInv, "lost" \notin Faults
  PROVE  FloorWithinLog
BY DEF FloorInv, FloorWithinLog

-----------------------------------------------------------------------------
(* Steps that leave the log alone *)

LEMMA SettledIs ==
  ASSUME TypeInv, SlotInv, StepInv
  PROVE  /\ Len(slots) \in Nat /\ slots \in Seq(SlotRec) /\ (slots = <<>> <=> Len(slots) = 0)
         /\ Settled \in Nat /\ Settled <= Len(slots)
         /\ pc # <<"open">> => Settled = Len(slots)
         /\ pc = <<"open">> => Settled = Len(slots) - 1
         /\ Settled > 0 => Settled \in 1..Len(slots)
         /\ SealedEnd \in Nat /\ SealedEnd <= end
         /\ Settled = 0 => SealedEnd = 0
         /\ Settled > 0 => SealedEnd = FirstOf(slots[Settled].l) + slots[Settled].sealed
<1>1. slots \in Seq(SlotRec) /\ floor \in Nat /\ end \in Nat /\ SlotsOk(slots, floor, end)
  BY DEF TypeInv, SlotInv, SlotsOk
<1>2. Len(slots) \in Nat /\ (slots = <<>> <=> Len(slots) = 0)
  BY <1>1
<1>3. /\ pc # <<"open">> => Settled = Len(slots)
      /\ pc = <<"open">> => Settled = Len(slots) - 1 /\ slots # <<>>
  BY DEF Settled, StepInv
<1>4. Settled \in Nat /\ Settled <= Len(slots) /\ (Settled > 0 => Settled \in 1..Len(slots))
  BY <1>2, <1>3
<1>5. /\ Settled = 0 => SealedEnd = 0
      /\ Settled > 0 => SealedEnd = FirstOf(slots[Settled].l) + slots[Settled].sealed
  BY <1>4 DEF SealedEnd
<1>6. ASSUME Settled > 0 PROVE SealedEnd \in Nat /\ SealedEnd <= end
  <2>1. Settled \in 1..Len(slots) /\ Len(slots) \in 1..Len(slots) /\ slots # <<>>
    BY <1>2, <1>4, <1>6
  <2>2. PICK a, s, n : a = FirstOf(slots[Settled].l) /\ s = slots[Settled].sealed /\ n = slots[Settled].n
    OBVIOUS
  <2>3. a \in Nat /\ s \in Nat /\ s <= n /\ n \in Nat /\ n <= SlotSamples
    BY <1>1, <2>1, <2>2, SlotOf
  <2>4. end = FirstOf(slots[Len(slots)].l) + slots[Len(slots)].n
    BY <1>1, <2>1 DEF SlotsOk
  <2>5. CASE Settled = Len(slots)
    BY <1>5, <1>6, <2>2, <2>3, <2>4, <2>5
  <2>6. CASE Settled # Len(slots)
    <3>1. a + SlotSamples <= FirstOf(slots[Len(slots)].l)
      BY <1>1, <1>2, <1>4, <2>1, <2>2, <2>6, SlotNumbers
    <3>2. FirstOf(slots[Len(slots)].l) \in Nat /\ slots[Len(slots)].n \in Nat
      BY <1>1, <2>1, SlotOf
    <3>3. PICK u, v : u = FirstOf(slots[Len(slots)].l) /\ v = slots[Len(slots)].n
      OBVIOUS
    <3>4. a + s <= u + v
      BY <2>3, <3>1, <3>2, <3>3, Sizes
    <3> QED BY <1>5, <1>6, <2>2, <2>3, <2>4, <3>3, <3>4
  <2> QED BY <2>5, <2>6
<1> QED BY <1>1, <1>2, <1>3, <1>4, <1>5, <1>6

LEMMA SettledStays ==
  ASSUME UNCHANGED slots, pc = <<"open">> <=> pc' = <<"open">>
  PROVE  Settled' = Settled /\ SealedEnd' = SealedEnd
<1> QED BY DEF SealedEnd, Settled

LEMMA PersistStays ==
  ASSUME PersistInv, UNCHANGED <<segments, journal>>, SealedEnd' = SealedEnd
  PROVE  PersistInv'
BY DEF PersistInv

LEMMA LinkStays ==
  ASSUME LinkInv, UNCHANGED <<slots, segments, journal, floor>>, Settled' = Settled, SealedEnd' = SealedEnd
  PROVE  LinkInv'
BY DEF LinkInv

LEMMA FloorStays ==
  ASSUME FloorInv, UNCHANGED <<floor, end, journal>>, SealedEnd' = SealedEnd
  PROVE  FloorInv'
BY DEF FloorInv

LEMMA JournalStays ==
  ASSUME JournalInv, UNCHANGED <<ring, disk, dirty, journal>>
  PROVE  JournalInv'
BY DEF JournalInv

LEMMA SlotStays ==
  ASSUME SlotInv, UNCHANGED <<slots, free, floor, end>>
  PROVE  SlotInv'
BY DEF SlotInv

LEMMA ValueStays ==
  ASSUME ValueInv, UNCHANGED <<slots, segments, ring>>
  PROVE  ValueInv'
BY DEF ValueInv

LEMMA CurStays ==
  ASSUME CurInv, UNCHANGED <<cur, slots, ring, disk, dirty>>, Settled' = Settled,
         pc' \in Working => open' /\ rest' > 0
  PROVE  CurInv'
<1>1. cur' # None =>
       /\ Settled' > 0 /\ cur'.l = slots'[Settled'].l /\ cur'.pos = slots'[Settled'].pos
       /\ cur'.sealed = slots'[Settled'].sealed /\ Len(cur'.crc) = slots'[Settled'].n
       /\ \A k \in 1..Len(cur'.crc) :
            /\ ring'[<<cur'.pos, k - 1>>] = cur'.crc[k]
            /\ <<cur'.pos, k - 1>> \in dirty' \/ disk'[<<cur'.pos, k - 1>>] = cur'.crc[k]
       /\ \A k \in 1..cur'.sealed : cur'.crc[k] = slots'[Settled'].crc[k]
  BY DEF CurInv
<1> QED BY <1>1 DEF CurInv

(* A step of the writer or of the feeder that only moves on, or stops. *)
Quiet ==
  /\ UNCHANGED <<ring, disk, dirty, journal, slots, free, segments, floor, end, cur>>
  /\ pc = <<"open">> <=> pc' = <<"open">>
  /\ pc' \in Working => open' /\ rest' > 0
  /\ open' => open /\ stream' = stream

LEMMA QuietStep ==
  ASSUME Inv, Quiet, TypeInv', StepInv'
  PROVE  Inv'
<1>1. Settled' = Settled /\ SealedEnd' = SealedEnd
  BY SettledStays DEF Quiet
<1>2. SlotInv' /\ ValueInv' /\ JournalInv'
  BY SlotStays, ValueStays, JournalStays DEF Inv, Quiet
<1>3. PersistInv' /\ LinkInv' /\ FloorInv'
  BY <1>1, PersistStays, LinkStays, FloorStays DEF Inv, Quiet
<1>4. SegInv'
  BY DEF Inv, Quiet, SegInv
<1> QED BY <1>1, <1>2, <1>3, <1>4, CurStays DEF Inv, Quiet

(* Nothing but a clip changes. *)
LEMMA ClipStep ==
  ASSUME Inv, UNCHANGED <<ring, disk, dirty, journal, pending, slots, free, segments, floor, end, open,
                          cur, pc, rest, stream>>
  PROVE  Inv'
<1>1. StepInv'
  BY DEF Inv, StepInv, Room, Unpersisted
<1> QED BY <1>1, QuietStep DEF Inv, TypeInv, Quiet, CurInv

LEMMA StepsAre ==
  /\ \A k \in Reason : <<"sync", k>> \in Steps /\ <<"seal", k>> \in Steps /\ Resume(k) \in {<<"write">>, <<"idle">>}
  /\ {<<"idle">>, <<"write">>, <<"count">>, <<"open">>} \subseteq Steps
  /\ \A k \in Reason : k = "advance" => Resume(k) = <<"write">>
  /\ \A k \in Reason : k # "advance" => Resume(k) = <<"idle">>
  /\ <<"open">> \notin Syncing \cup Sealing
BY DEF Reason, Steps, Syncing, Sealing, Resume

(* StepInv at a step that has nothing under way. *)
LEMMA NothingUnderWay ==
  ASSUME pending' = NoRecords, pc' \in {<<"idle">>, <<"write">>} \cup Syncing
  PROVE  StepInv'
<1> QED BY StepsDiffer DEF StepInv

LEMMA PauseStep ==
  ASSUME Inv, Pause
  PROVE  Inv'
<1>1. TypeInv'
  <2>1. stream + rest \in Nat
    BY DEF Inv, TypeInv
  <2>2. <<"idle">> \in Steps /\ 0 \in Nat /\ FALSE \in BOOLEAN
    BY StepsAre
  <2> QED BY <2>1, <2>2 DEF Inv, TypeInv, Pause, logVars
<1>2. Quiet
  BY StepsDiffer DEF Inv, Pause, Quiet, fileVars, logVars
<1>3. StepInv'
  BY NothingUnderWay, StepsDiffer DEF Pause, fileVars, Inv, StepInv
<1> QED BY <1>1, <1>2, <1>3, QuietStep

LEMMA SealFullStep ==
  ASSUME Inv, SealFull
  PROVE  Inv'
<1>1. <<"sync", "advance">> \in Syncing /\ <<"sync", "advance">> \in Steps /\ <<"write">> \in Working
  BY DEF Syncing, Steps, Working
<1>2. TypeInv'
  BY <1>1 DEF Inv, TypeInv, SealFull, indexVars, inputVars
<1>3. open /\ rest > 0
  BY <1>1 DEF Inv, CurInv, SealFull
<1>4. Quiet
  BY <1>1, <1>3, StepsDiffer DEF SealFull, Quiet, fileVars, indexVars, inputVars
<1>5. StepInv'
  BY <1>1, NothingUnderWay, StepsDiffer DEF SealFull, fileVars, Inv, StepInv
<1> QED BY <1>2, <1>4, <1>5, QuietStep

LEMMA EndSegmentStep ==
  ASSUME Inv, EndSegment
  PROVE  Inv'
<1>1. <<"sync", "end">> \in Syncing /\ <<"sync", "end">> \in Steps /\ <<"sync", "end">> \notin Working
  BY DEF Syncing, Steps, Working
<1>2. TypeInv'
  BY <1>1 DEF Inv, TypeInv, EndSegment, logVars, inputVars
<1>3. Quiet
  BY <1>1, StepsDiffer DEF EndSegment, Quiet, fileVars, logVars, inputVars
<1>4. StepInv'
  BY <1>1, NothingUnderWay, StepsDiffer DEF EndSegment, fileVars, Inv, StepInv
<1> QED BY <1>2, <1>3, <1>4, QuietStep

LEMMA SkipsStep ==
  ASSUME Inv, NEW k \in Reason, CheckpointSkips(k)
  PROVE  Inv'
<1>1. <<"sync", k>> \in Syncing /\ <<"sync", k>> \notin Sealing /\ Resume(k) \in {<<"write">>, <<"idle">>}
      /\ Resume(k) \in Steps
  BY StepsAre, StepsDiffer
<1>2. TypeInv'
  BY <1>1 DEF Inv, TypeInv, CheckpointSkips, indexVars, inputVars
<1>3. pc' \in Working => open /\ rest > 0
  BY StepsAre, StepsDiffer DEF CheckpointSkips, Working, Inv, CurInv
<1>4. Quiet
  BY <1>1, <1>3, StepsDiffer DEF CheckpointSkips, Quiet, fileVars, indexVars, inputVars
<1>5. StepInv'
  BY <1>1, NothingUnderWay, StepsDiffer DEF CheckpointSkips, fileVars, Inv, StepInv
<1> QED BY <1>2, <1>4, <1>5, QuietStep

LEMMA SealFailsStep ==
  ASSUME Inv, NEW k \in Reason, SealFails(k)
  PROVE  Inv'
<1>1. <<"seal", k>> \in Sealing /\ <<"idle">> \in Steps
  BY StepsAre, StepsDiffer
<1>2. pc' = <<"idle">> /\ open' = FALSE /\ (stream' = stream + rest \/ stream' = stream) /\ (rest' = 0 \/ rest' = rest)
  BY DEF SealFails, FailUnlessEnd, Fail
<1>3. TypeInv'
  <2>1. stream + rest \in Nat /\ stream \in Nat /\ rest \in Nat
    BY DEF Inv, TypeInv
  <2>2. stream' \in Nat
    BY <1>2, <2>1
  <2>3. rest' \in Nat
    BY <1>2, <2>1
  <2>4. pc' \in Steps /\ open' \in BOOLEAN
    BY <1>1, <1>2
  <2> QED BY <2>2, <2>3, <2>4 DEF Inv, TypeInv, SealFails, logVars
<1>4. Quiet
  BY <1>1, <1>2, StepsDiffer DEF SealFails, Quiet, ringVars, logVars
<1> QED BY <1>2, <1>3, <1>4, NothingUnderWay, QuietStep DEF SealFails

-----------------------------------------------------------------------------
(* The feeder: a new segment *)

NewSegment(first) == [start |-> end, log |-> end, n |-> 0, first |-> first, persisted |-> FALSE]

(* t is the first m segments and the new one: all of them, or all but an empty last. *)
BegunAt(t, first, m) ==
  /\ t \in Seq(SegRec) /\ Len(t) = m + 1 /\ t[m + 1] = NewSegment(first)
  /\ \A i \in 1..m : t[i] = segments[i] /\ i \in 1..Len(segments)
  /\ m > 0 => segments[m].n > 0 /\ LogEnd(segments[m]) = end
  /\ m = 0 => end <= floor

LEMMA BeginSegmentIs ==
  ASSUME TypeInv, SegsOk(segments, floor, end), NEW first \in Nat, NEW t, t = BeginSegment(first)
  PROVE  \E m \in 0..Len(segments) : BegunAt(t, first, m)
<1>1. segments \in Seq(SegRec) /\ Chained(segments) /\ Len(segments) \in Nat /\ end \in Nat /\ floor \in Nat
      /\ (segments = <<>> <=> Len(segments) = 0)
  BY DEF TypeInv, SegsOk, Chained
<1>2. NewSegment(first) \in SegRec
  BY <1>1 DEF NewSegment, SegRec
<1> DEFINE dropped == segments # <<>> /\ Last(segments).n = 0
           old == IF dropped THEN Front(segments) ELSE segments
<1>3. t = Append(old, NewSegment(first))
  BY DEF BeginSegment, NewSegment
<1>4. Len(segments) > 0 => Last(segments) = segments[Len(segments)] /\ Len(segments) \in 1..Len(segments)
  BY <1>1 DEF Last
<1>5. CASE dropped
  <2>1. PICK n : n = Len(segments) - 1
    OBVIOUS
  <2>2. n \in 0..Len(segments) /\ n \in Nat /\ Len(segments) = n + 1 /\ segments[n + 1].n = 0
    BY <1>1, <1>4, <1>5, <2>1
  <2>3. old \in Seq(SegRec) /\ Len(old) = n /\ \A i \in 1..n : old[i] = segments[i]
    BY <1>1, <1>5, <2>1, <2>2 DEF Front
  <2>4. t \in Seq(SegRec) /\ Len(t) = n + 1 /\ t[n + 1] = NewSegment(first)
        /\ \A i \in 1..n : t[i] = segments[i]
    <3> HIDE DEF old
    <3> QED BY <1>2, <1>3, <2>3, <2>2
  <2>5. LogEnd(segments[n + 1]) = end /\ segments[n + 1].log = end
    BY <1>1, <1>4, <2>2, SegmentOf DEF SegsOk
  <2>6. n > 0 => segments[n].n > 0 /\ LogEnd(segments[n]) = end
    BY <1>1, <2>2, <2>5 DEF Chained
  <2>7. n = 0 => end <= floor
    BY <1>1, <1>5, <2>5 DEF SegsOk
  <2> QED BY <2>2, <2>4, <2>6, <2>7 DEF BegunAt
<1>6. CASE ~dropped
  <2>1. old = segments
    BY <1>6
  <2>2. PICK n : n = Len(segments)
    OBVIOUS
  <2>3. t \in Seq(SegRec) /\ Len(t) = n + 1 /\ t[n + 1] = NewSegment(first)
        /\ \A i \in 1..n : t[i] = segments[i]
    <3> HIDE DEF old
    <3> QED BY <1>1, <1>2, <1>3, <2>1, <2>2
  <2>4. \A i \in 1..n : i \in 1..Len(segments)
    BY <2>2
  <2>5. n > 0 => segments[n].n > 0 /\ LogEnd(segments[n]) = end
    BY <1>1, <1>4, <1>6, <2>2, SegmentOf DEF SegsOk
  <2>6. n = 0 => end <= floor
    BY <1>1, <2>2 DEF SegsOk
  <2> QED BY <1>1, <2>2, <2>3, <2>4, <2>5, <2>6 DEF BegunAt
<1> QED BY <1>5, <1>6

LEMMA BeginSegmentStep ==
  ASSUME Inv, NEW first \in Nat, segments' = BeginSegment(first), UNCHANGED <<slots, floor, end, journal, ring>>,
         pc # <<"open">>, pc' # <<"open">>
  PROVE  /\ SegsOk(segments', floor', end') /\ PersistInv' /\ LinkInv' /\ ValueInv'
         /\ segments' # <<>> /\ EndIndex(segments'[Len(segments')]) = first
<1>1. /\ segments \in Seq(SegRec) /\ Chained(segments) /\ Len(segments) \in Nat /\ end \in Nat /\ floor \in Nat
      /\ SegsOk(segments, floor, end) /\ TypeInv
  BY DEF Inv, TypeInv, SegInv, SegsOk, Chained
<1>2. \E m \in 0..Len(segments) : BegunAt(segments', first, m)
  BY <1>1, BeginSegmentIs
<1>3. PICK m \in 0..Len(segments) : BegunAt(segments', first, m)
  BY <1>2
<1>4. /\ segments' \in Seq(SegRec) /\ Len(segments') = m + 1 /\ segments'[m + 1] = NewSegment(first)
      /\ \A i \in 1..m : segments'[i] = segments[i] /\ i \in 1..Len(segments)
      /\ m > 0 => segments[m].n > 0 /\ LogEnd(segments[m]) = end
      /\ m = 0 => end <= floor
  BY <1>3 DEF BegunAt
<1> DEFINE t == segments'
           new == segments'[m + 1]
<1>5. m \in Nat /\ m <= Len(segments) /\ t # <<>> /\ t \in Seq(SegRec) /\ Len(t) = m + 1 /\ 1..Len(t) = 1..(m + 1)
      /\ m + 1 \in 1..Len(t)
  BY <1>1, <1>4
<1>6. new.start = end /\ new.log = end /\ new.n = 0 /\ new.first = first /\ new.persisted = FALSE
  BY <1>4 DEF NewSegment
<1>7. LogEnd(new) = end /\ EndIndex(new) = first
  BY <1>1, <1>6 DEF LogEnd, EndIndex, IndexAt
<1>8. \A i \in 1..Len(t) : i \in 1..m \/ i = m + 1
  BY <1>5
<1>9. \A i \in 1..m : LogEnd(segments[i]) <= end /\ segments[i].n > 0
  <2> SUFFICES ASSUME NEW i \in 1..m PROVE LogEnd(segments[i]) <= end /\ segments[i].n > 0
    OBVIOUS
  <2>1. i \in 1..Len(segments) /\ m > 0 /\ m \in 1..Len(segments)
    BY <1>4, <1>5
  <2>2. CASE i = m
    BY <1>1, <1>4, <2>1, <2>2
  <2>3. CASE i # m
    <3>1. LogEnd(segments[i]) <= segments[m].start /\ segments[i].n > 0 /\ segments[m].start <= segments[m].log
      BY <1>1, <1>5, <2>1, <2>3 DEF Chained
    <3>2. segments[m].start \in Nat /\ segments[m].log \in Nat /\ segments[m].log <= LogEnd(segments[m])
          /\ LogEnd(segments[i]) \in Nat /\ LogEnd(segments[m]) \in Nat
      BY <1>1, <2>1, SegmentOf
    <3>3. LogEnd(segments[m]) = end
      BY <1>4, <2>1
    <3>4. LogEnd(segments[i]) <= end
      BY <3>1, <3>2, <3>3
    <3> QED BY <3>1, <3>4
  <2> QED BY <2>2, <2>3
<1>10. Chained(t)
  <2>1. ASSUME NEW i \in 1..Len(t) PROVE t[i].start <= t[i].log
    <3>1. CASE i \in 1..m
      BY <1>1, <1>4, <3>1 DEF Chained
    <3>2. CASE i = m + 1
      BY <1>1, <1>6, <3>2
    <3> QED BY <1>8, <3>1, <3>2
  <2>2. ASSUME NEW i \in 1..Len(t), i < Len(t) PROVE t[i].n > 0 /\ t[i + 1].log = LogEnd(t[i])
    <3>1. i \in 1..m /\ t[i] = segments[i] /\ segments[i].n > 0
      BY <1>4, <1>5, <1>9, <2>2
    <3>2. CASE i = m
      BY <1>4, <1>5, <1>6, <3>1, <3>2
    <3>3. CASE i # m
      <4>1. i + 1 \in 1..m /\ i < Len(segments) /\ i \in 1..Len(segments)
        BY <1>1, <2>2, <3>1, <3>3
      <4>2. segments[i + 1].log = LogEnd(segments[i])
        BY <1>1, <4>1 DEF Chained
      <4>3. t[i + 1] = segments[i + 1]
        BY <1>4, <1>5, <4>1
      <4> QED BY <3>1, <4>2, <4>3
    <3> QED BY <3>2, <3>3
  <2>3. ASSUME NEW i \in 1..Len(t), NEW j \in 1..Len(t), i < j
        PROVE  LogEnd(t[i]) <= t[j].start /\ t[j].log = t[j].start
    <3>1. i \in 1..m /\ t[i] = segments[i]
      BY <1>4, <1>5, <2>3
    <3>2. CASE j = m + 1
      BY <1>6, <1>9, <3>1, <3>2
    <3>3. CASE j \in 1..m
      BY <1>1, <1>4, <2>3, <3>1, <3>3 DEF Chained
    <3> QED BY <1>8, <3>2, <3>3
  <2> QED BY <1>5, <2>1, <2>2, <2>3 DEF Chained
<1>11. SegsOk(t, floor', end')
  BY <1>1, <1>4, <1>5, <1>6, <1>7, <1>10 DEF SegsOk
<1>12. SealedEnd' = SealedEnd /\ Settled' = Settled
  BY SettledStays
<1>13. SealedEnd \in Nat /\ SealedEnd <= end
  BY SettledIs DEF Inv
<1>14. PersistInv'
  BY <1>1, <1>4, <1>6, <1>8, <1>12, <1>13 DEF PersistInv, Inv, LinkInv
<1>15. LinkInv'
  <2>1. ASSUME NEW g \in journal.segs, NEW i \in 1..Len(t)
        PROVE  ~(t[i].start < g.start /\ g.start < LogEnd(t[i]))
    <3>1. CASE i \in 1..m
      BY <1>4, <3>1 DEF Inv, LinkInv
    <3>2. CASE i = m + 1
      <4>1. g.start < SealedEnd /\ g.start \in Int
        BY DEF Inv, JournalInv, JournalOk, JournalType, LinkInv, Start
      <4> QED BY <1>1, <1>6, <1>7, <1>13, <3>2, <4>1
    <3> QED BY <1>8, <3>1, <3>2
  <2> QED BY <1>12, <2>1 DEF Inv, LinkInv
<1>16. ValueInv'
  <2> SUFFICES ASSUME NEW x \in 1..Len(slots), NEW i \in 1..Len(t), NEW k \in 0..(slots[x].n - 1),
                      t[i].log <= FirstOf(slots[x].l) + k, FirstOf(slots[x].l) + k < LogEnd(t[i])
               PROVE  ring[<<slots[x].pos, k>>] = IndexAt(t[i], FirstOf(slots[x].l) + k)
    BY DEF ValueInv, ValuesOk
  <2>1. CASE i \in 1..m
    BY <1>4, <2>1 DEF Inv, ValueInv, ValuesOk
  <2>2. CASE i = m + 1
    <3>1. FirstOf(slots[x].l) \in Nat /\ slots[x].n \in Nat
      BY <1>1, SlotOf DEF Inv, SlotInv
    <3> QED BY SMTT(40), <1>1, <1>6, <1>7, <2>2, <3>1
  <2> QED BY <1>8, <2>1, <2>2
<1> QED BY <1>5, <1>7, <1>11, <1>14, <1>15, <1>16

LEMMA FeedStep ==
  ASSUME Inv, NEW k \in 1..MaxAppend, NEW gap \in 0..MaxGap, Feed(k, gap)
  PROVE  Inv'
<1>1. PICK begins \in {TRUE, ~open \/ gap > 0}, waiting \in {FALSE, backoff} :
       /\ segments' = IF begins THEN BeginSegment(stream + gap) ELSE segments
       /\ open' = ~waiting
       /\ pc' = IF waiting THEN <<"idle">> ELSE <<"write">>
       /\ rest' = IF waiting THEN 0 ELSE k
       /\ backoff' = waiting
  BY DEF Feed
<1>2. UNCHANGED <<slots, free, floor, end, cur, ring, disk, dirty, journal, pending>> /\ pc = <<"idle">>
  BY DEF Feed, fileVars
<1>3. k \in Nat /\ k > 0 /\ gap \in Nat /\ stream \in Nat
  BY Sizes DEF Inv, TypeInv
<1>4. open' => ~waiting /\ rest' = k /\ pc' = <<"write">>
  BY <1>1
<1>5. rest' \in Nat /\ pc' \in {<<"idle">>, <<"write">>} /\ open' \in BOOLEAN
  BY <1>1, <1>3
<1>6. stream' \in Nat /\ (open' => stream' = stream + gap)
  BY <1>3, <1>4 DEF Feed
<1>7. TypeInv'
  BY <1>2, <1>5, <1>6, StepsAre DEF Inv, TypeInv
<1>8. pc # <<"open">> /\ pc' # <<"open">>
  BY <1>2, <1>5, StepsDiffer
<1>9. Settled' = Settled /\ SealedEnd' = SealedEnd
  BY <1>2, <1>8, SettledStays
<1>10. SlotInv' /\ JournalInv'
  BY <1>2, SlotStays, JournalStays DEF Inv
<1>11. FloorInv'
  BY <1>2, <1>9, FloorStays DEF Inv
<1>12. pc' \in Working => open' /\ rest' > 0
  BY <1>1, <1>3, <1>4, <1>5, StepsDiffer
<1>13. CurInv'
  BY <1>2, <1>9, <1>12, CurStays DEF Inv
<1>14. StepInv'
  BY <1>2, <1>5, StepsDiffer, NothingUnderWay DEF Inv, StepInv
<1>15. SegInv' /\ PersistInv' /\ LinkInv' /\ ValueInv'
  <2>1. CASE segments' = BeginSegment(stream + gap)
    BY <1>2, <1>3, <1>6, <1>8, <2>1, BeginSegmentStep DEF SegInv
  <2>2. CASE segments' = segments /\ open /\ ~(gap > 0)
    <3>1. segments' = segments /\ open /\ gap = 0
      BY <1>3, <2>2
    <3>2. PersistInv' /\ LinkInv' /\ ValueInv'
      BY <1>2, <1>9, <3>1, PersistStays, LinkStays, ValueStays DEF Inv
    <3>3. SegInv'
      BY <1>2, <1>3, <1>6, <3>1 DEF Inv, SegInv
    <3> QED BY <3>2, <3>3
  <2> QED BY <1>1, <2>1, <2>2
<1> QED BY <1>7, <1>10, <1>11, <1>13, <1>14, <1>15 DEF Inv

-----------------------------------------------------------------------------
(* Writing to the current slot *)

LEMMA CursorIs ==
  ASSUME Inv, cur # None
  PROVE  /\ cur \in Cursor /\ cur.l \in Nat /\ cur.pos \in Positions /\ cur.crc \in Seq(Nat) /\ cur.sealed \in Nat
         /\ Len(cur.crc) \in Nat /\ Len(cur.crc) <= SlotSamples /\ cur.sealed <= Len(cur.crc)
         /\ Settled \in 1..Len(slots) /\ cur.l = slots[Settled].l /\ cur.pos = slots[Settled].pos
         /\ cur.sealed = slots[Settled].sealed /\ Len(cur.crc) = slots[Settled].n
         /\ Len(slots[Settled].crc) = slots[Settled].sealed
         /\ [slots[Settled] EXCEPT !.n = slots[Settled].sealed] \in journal.slots
         /\ SealedEnd = FirstOf(cur.l) + cur.sealed
<1>1. cur \in Cursor
  BY DEF Inv, TypeInv
<1>2. /\ Settled > 0 /\ cur.l = slots[Settled].l /\ cur.pos = slots[Settled].pos
      /\ cur.sealed = slots[Settled].sealed /\ Len(cur.crc) = slots[Settled].n
  BY DEF Inv, CurInv
<1>3. Settled \in 1..Len(slots) /\ SealedEnd = FirstOf(slots[Settled].l) + slots[Settled].sealed
  BY <1>2, SettledIs DEF Inv
<1>4. slots[Settled].n <= SlotSamples /\ slots[Settled].sealed <= slots[Settled].n
      /\ Len(slots[Settled].crc) = slots[Settled].sealed
  BY <1>3, SlotOf DEF Inv, TypeInv, SlotInv
<1>5. [slots[Settled] EXCEPT !.n = slots[Settled].sealed] \in journal.slots
  BY <1>2, SettledIs DEF Inv, LinkInv
<1> QED BY <1>1, <1>2, <1>3, <1>4, <1>5 DEF Cursor, Positions

(* The journal's slot at the cursor's position is the cursor's. *)
LEMMA JournalAtCursor ==
  ASSUME Inv, cur # None, NEW s \in journal.slots, s.pos = cur.pos
  PROVE  s.l = cur.l /\ s.sealed = cur.sealed /\ s.crc = slots[Settled].crc
<1>1. PICK u : u = [slots[Settled] EXCEPT !.n = slots[Settled].sealed]
  OBVIOUS
<1>2. u \in journal.slots /\ slots[Settled] \in SlotRec
  BY <1>1, CursorIs, SlotOf DEF Inv, TypeInv, SlotInv
<1>3. u.pos = slots[Settled].pos /\ u.l = slots[Settled].l /\ u.sealed = slots[Settled].sealed /\ u.crc = slots[Settled].crc
  BY <1>1, <1>2 DEF SlotRec
<1> QED BY <1>2, <1>3, CursorIs DEF Inv, JournalInv, JournalOk, JournalSlots

LEMMA RoomIs ==
  ASSUME Inv, cur # None, ~Full
  PROVE  /\ Room \in Nat /\ Room <= SlotSamples - Len(cur.crc) /\ Room <= rest /\ Len(cur.crc) < SlotSamples
         /\ rest > 0 => Room > 0
<1>1. PICK a : a = SlotSamples - Len(cur.crc)
  OBVIOUS
<1>2. Len(cur.crc) \in Nat /\ Len(cur.crc) <= SlotSamples /\ Len(cur.crc) # SlotSamples
  BY CursorIs DEF Full
<1>3. Len(cur.crc) < SlotSamples /\ a \in Nat /\ a > 0 /\ rest \in Nat
  BY <1>1, <1>2, Sizes DEF Inv, TypeInv
<1> QED BY <1>1, <1>3, MinOfTwo DEF Room

LEMMA WriteCellsIs ==
  ASSUME Inv, cur # None, ~Full, NEW n \in Nat, n <= SlotSamples - Len(cur.crc), NEW r, NEW d,
         r = WriteCells(n), d = dirty \cup {<<cur.pos, Len(cur.crc) + i - 1>> : i \in 1..n}
  PROVE  /\ \A pos \in Positions, k \in 0..(SlotSamples - 1) : pos # cur.pos \/ k < Len(cur.crc) =>
              r[<<pos, k>>] = ring[<<pos, k>>] /\ (<<pos, k>> \in d <=> <<pos, k>> \in dirty)
         /\ \A i \in 1..n : r[<<cur.pos, Len(cur.crc) + i - 1>>] = stream + i - 1
                            /\ <<cur.pos, Len(cur.crc) + i - 1>> \in d
<1>1. Len(cur.crc) \in Nat /\ cur.pos \in Positions /\ SlotSamples \in Nat /\ stream \in Nat
  BY CursorIs, Sizes DEF Inv, TypeInv
<1>2. PICK len : len = Len(cur.crc)
  OBVIOUS
<1>3. \A pos \in Positions, k \in 0..(SlotSamples - 1) :
        r[<<pos, k>>] = IF cur.pos = pos /\ k \in len .. (len + n - 1) THEN stream + k - len ELSE ring[<<pos, k>>]
  BY <1>2 DEF WriteCells, Cells
<1>4. ASSUME NEW pos \in Positions, NEW k \in 0..(SlotSamples - 1), pos # cur.pos \/ k < len
      PROVE  r[<<pos, k>>] = ring[<<pos, k>>] /\ (<<pos, k>> \in d <=> <<pos, k>> \in dirty)
  <2>1. ~(cur.pos = pos /\ k \in len .. (len + n - 1))
    BY <1>1, <1>2, <1>4
  <2>2. \A i \in 1..n : <<pos, k>> # <<cur.pos, len + i - 1>>
    BY <1>1, <1>2, <1>4
  <2> QED BY <1>2, <1>3, <2>1, <2>2
<1>5. ASSUME NEW i \in 1..n
      PROVE  r[<<cur.pos, len + i - 1>>] = stream + i - 1 /\ <<cur.pos, len + i - 1>> \in d
  <2>1. PICK k : k = len + i - 1
    OBVIOUS
  <2>2. len \in Nat /\ n <= SlotSamples - len
    BY <1>1, <1>2
  <2>3. k \in 0..(SlotSamples - 1) /\ k \in len .. (len + n - 1)
    BY <1>1, <2>2, <2>1
  <2>4. stream + k - len = stream + i - 1
    BY <1>1, <2>2, <2>1
  <2> QED BY <1>1, <1>2, <1>3, <2>1, <2>3, <2>4
<1> QED BY <1>2, <1>4, <1>5

(* What is written past the cursor touches nothing that is indexed or journalled. *)
LEMMA WriteKeeps ==
  ASSUME Inv, cur # None, ~Full, pc # <<"open">>, pc' # <<"open">>,
         NEW n \in Nat, n <= SlotSamples - Len(cur.crc),
         ring' = WriteCells(n), dirty' = dirty \cup {<<cur.pos, Len(cur.crc) + i - 1>> : i \in 1..n},
         UNCHANGED <<disk, cur, slots, segments, journal>>,
         pc' \in Working => open' /\ rest' > 0
  PROVE  CurInv' /\ ValueInv' /\ JournalInv'
<1>1. /\ \A pos \in Positions, k \in 0..(SlotSamples - 1) : pos # cur.pos \/ k < Len(cur.crc) =>
              ring'[<<pos, k>>] = ring[<<pos, k>>] /\ (<<pos, k>> \in dirty' <=> <<pos, k>> \in dirty)
  BY WriteCellsIs
<1>2. /\ Len(cur.crc) \in Nat /\ Len(cur.crc) <= SlotSamples /\ cur.pos \in Positions /\ SlotSamples \in Nat
      /\ cur.sealed <= Len(cur.crc) /\ cur.sealed \in Nat
      /\ Settled \in 1..Len(slots) /\ cur.pos = slots[Settled].pos /\ Len(cur.crc) = slots[Settled].n
  BY CursorIs, Sizes
<1>3. SlotsOk(slots, floor, end) /\ floor \in Nat /\ end \in Nat
  BY DEF Inv, TypeInv, SlotInv
<1>4. CurInv'
  <2>1. ASSUME NEW k \in 1..Len(cur.crc)
        PROVE  /\ ring'[<<cur.pos, k - 1>>] = cur.crc[k]
               /\ <<cur.pos, k - 1>> \in dirty' \/ disk'[<<cur.pos, k - 1>>] = cur.crc[k]
    <3>1. k - 1 \in 0..(SlotSamples - 1) /\ k - 1 < Len(cur.crc)
      BY <1>2
    <3>2. ring'[<<cur.pos, k - 1>>] = ring[<<cur.pos, k - 1>>] /\ (<<cur.pos, k - 1>> \in dirty' <=> <<cur.pos, k - 1>> \in dirty)
      BY <1>1, <1>2, <3>1
    <3> QED BY <3>2 DEF Inv, CurInv
  <2> QED BY <2>1, SettledIs, SettledStays DEF Inv, CurInv
<1>5. ValueInv'
  <2> SUFFICES ASSUME NEW x \in 1..Len(slots), NEW i \in 1..Len(segments), NEW k \in 0..(slots[x].n - 1),
                      segments[i].log <= FirstOf(slots[x].l) + k, FirstOf(slots[x].l) + k < LogEnd(segments[i])
               PROVE  ring'[<<slots[x].pos, k>>] = IndexAt(segments[i], FirstOf(slots[x].l) + k)
    BY DEF ValueInv, ValuesOk
  <2>1. slots[x].pos \in Positions /\ slots[x].n \in Nat /\ slots[x].n <= SlotSamples
    BY <1>3, SlotOf
  <2>2. k \in 0..(SlotSamples - 1)
    BY <1>2, <2>1
  <2>3. slots[x].pos # cur.pos \/ k < Len(cur.crc)
    <3>1. slots[x].pos = cur.pos => x = Settled
      BY SMTT(40), <1>2, <1>3, SlotNumbers
    <3>2. x = Settled => k < Len(cur.crc)
      BY <1>2, <2>1
    <3> QED BY <3>1, <3>2
  <2> QED BY <1>1, <2>1, <2>2, <2>3 DEF Inv, ValueInv, ValuesOk
<1>6. JournalInv'
  <2>1. ASSUME NEW s \in journal.slots, NEW k \in 1..s.sealed
        PROVE  /\ <<s.pos, k - 1>> \notin dirty'
               /\ ring'[<<s.pos, k - 1>>] = s.crc[k] /\ disk'[<<s.pos, k - 1>>] = s.crc[k]
    <3>1. s.pos \in Positions /\ s.sealed \in 0..SlotSamples
      BY DEF SlotRec, Inv, JournalInv, JournalOk, JournalType
    <3>2. s.pos # cur.pos \/ k - 1 < Len(cur.crc)
      BY <1>2, JournalAtCursor
    <3>3. ring'[<<s.pos, k - 1>>] = ring[<<s.pos, k - 1>>] /\ (<<s.pos, k - 1>> \in dirty' <=> <<s.pos, k - 1>> \in dirty)
      BY <1>1, <1>2, <3>1, <3>2
    <3> QED BY <3>3 DEF Inv, JournalInv, Durable
  <2> QED BY <2>1 DEF Inv, JournalInv, Durable
<1> QED BY <1>4, <1>5, <1>6

LEMMA WriteStep ==
  ASSUME Inv, Write
  PROVE  Inv'
<1>1. /\ pc = <<"write">> /\ cur # None /\ ~Full /\ pc' = <<"count">>
      /\ ring' = WriteCells(Room) /\ dirty' = dirty \cup {<<cur.pos, Len(cur.crc) + i - 1>> : i \in 1..Room}
      /\ UNCHANGED <<disk, journal, pending, cur, rest, slots, free, segments, floor, end, open, stream>>
  BY DEF Write, indexVars, inputVars
<1>2. pc # <<"open">> /\ pc' # <<"open">> /\ <<"write">> \in Working /\ <<"count">> \in Steps /\ pc' \notin Sealing
      /\ pc \notin Sealing
  BY <1>1, StepsAre, StepsDiffer DEF Working
<1>3. Room \in Nat /\ Room <= SlotSamples - Len(cur.crc) /\ Len(cur.crc) < SlotSamples
  BY <1>1, RoomIs
<1>4. CurInv' /\ ValueInv' /\ JournalInv'
  BY <1>1, <1>2, <1>3, WriteKeeps DEF Inv, CurInv
<1>5. TypeInv'
  BY <1>1, <1>2 DEF Inv, TypeInv
<1>6. SegInv' /\ SlotInv'
  BY <1>1 DEF Inv, SegInv, SlotInv
<1>7. PersistInv' /\ LinkInv' /\ FloorInv'
  BY <1>1, <1>2, SettledStays, PersistStays, LinkStays, FloorStays DEF Inv
<1>8. StepInv'
  <2>1. \A i \in 1..Room : /\ ring'[<<cur.pos, Len(cur.crc) + i - 1>>] = stream + i - 1
                           /\ <<cur.pos, Len(cur.crc) + i - 1>> \in dirty'
    BY <1>1, <1>3, WriteCellsIs
  <2>2. pending' = NoRecords
    BY <1>1, <1>2 DEF Inv, StepInv
  <2> QED BY <1>1, <1>2, <1>3, <2>1, <2>2 DEF StepInv, Room
<1> QED BY <1>4, <1>5, <1>6, <1>7, <1>8 DEF Inv

LEMMA WriteFailsStep ==
  ASSUME Inv, WriteFails
  PROVE  Inv'
<1>1. PICK n \in 0..(Room - 1) : /\ ring' = WriteCells(n)
                                 /\ dirty' = dirty \cup {<<cur.pos, Len(cur.crc) + i - 1>> : i \in 1..n}
  BY DEF WriteFails
<1>2. /\ pc = <<"write">> /\ cur # None /\ ~Full /\ pc' = <<"idle">> /\ open' = FALSE /\ rest' = 0
      /\ stream' = stream + rest
      /\ UNCHANGED <<disk, journal, pending, cur, slots, free, segments, floor, end>>
  BY DEF WriteFails, Fail, logVars
<1>3. pc # <<"open">> /\ pc' # <<"open">> /\ <<"idle">> \in Steps /\ pc' \notin Working /\ pc \notin Sealing
  BY <1>2, StepsAre, StepsDiffer
<1>4. n \in Nat /\ n <= SlotSamples - Len(cur.crc)
  BY <1>2, RoomIs, CursorIs, Sizes
<1>5. CurInv' /\ ValueInv' /\ JournalInv'
  BY <1>1, <1>2, <1>3, <1>4, WriteKeeps
<1>6. TypeInv'
  <2>1. stream + rest \in Nat
    BY DEF Inv, TypeInv
  <2> QED BY <1>2, <1>3, <2>1 DEF Inv, TypeInv
<1>7. SegInv' /\ SlotInv'
  BY <1>2 DEF Inv, SegInv, SlotInv
<1>8. PersistInv' /\ LinkInv' /\ FloorInv'
  BY <1>2, <1>3, SettledStays, PersistStays, LinkStays, FloorStays DEF Inv
<1>9. StepInv'
  BY <1>2, <1>3, NothingUnderWay DEF Inv, StepInv
<1> QED BY <1>5, <1>6, <1>7, <1>8, <1>9 DEF Inv

-----------------------------------------------------------------------------
(* What is written joins the index *)

LEMMA AgeFloorIs ==
  ASSUME NEW segs, Chained(segs), segs # <<>>, segs[Len(segs)].n > 0
  PROVE  AgeFloor(segs) \in Nat /\ AgeFloor(segs) < LogEnd(segs[Len(segs)])
<1>1. segs \in Seq(SegRec) /\ Len(segs) \in Nat /\ Len(segs) \in 1..Len(segs) /\ DOMAIN segs = 1..Len(segs)
  BY DEF Chained
<1>2. PICK limit : limit = EndIndex(segs[Len(segs)]) - Retention
  OBVIOUS
<1>3. EndIndex(segs[Len(segs)]) \in Int
  <2>1. PICK a, b, c, d : a = segs[Len(segs)].first /\ b = segs[Len(segs)].log /\ c = segs[Len(segs)].n /\ d = segs[Len(segs)].start
    OBVIOUS
  <2>2. a \in Nat /\ b \in Nat /\ c \in Nat /\ d \in Nat /\ EndIndex(segs[Len(segs)]) = a + (b + c - d)
    BY <1>1, <2>1, SegmentOf
  <2> QED BY <2>2
<1>4. limit \in Int /\ EndIndex(segs[Len(segs)]) > limit
  BY <1>2, <1>3, Sizes
<1>5. PICK young : young = {i \in DOMAIN segs : segs[i].n > 0 /\ EndIndex(segs[i]) > limit}
  OBVIOUS
<1>6. young \in SUBSET Nat /\ young # {} /\ young \subseteq 1..Len(segs)
  BY <1>1, <1>4, <1>5
<1>7. PICK m : m = Min(young)
  OBVIOUS
<1>8. m \in 1..Len(segs)
  BY <1>6, <1>7, MinIs
<1>9. PICK u : u = limit - IndexAt(segs[m], segs[m].log)
  OBVIOUS
<1>10. PICK s, l, n, f : s = segs[m].start /\ l = segs[m].log /\ n = segs[m].n /\ f = segs[m].first
  OBVIOUS
<1>11. s \in Nat /\ l \in Nat /\ n \in Nat /\ f \in Nat /\ LogEnd(segs[m]) = l + n /\ u = limit - (f + (l - s))
  <2>1. s \in Nat /\ l \in Nat /\ n \in Nat /\ f \in Nat /\ LogEnd(segs[m]) = l + n
    BY <1>1, <1>8, <1>10, SegmentOf
  <2>2. l \in Int
    BY <2>1
  <2>3. IndexAt(segs[m], l) = f + (l - s)
    BY <1>1, <1>8, <1>10, <2>2, SegmentOf
  <2> QED BY <1>9, <1>10, <2>1, <2>3
<1>12. u \in Int /\ u < n /\ n > 0
  <2>1. n > 0 /\ EndIndex(segs[m]) > limit
    BY <1>5, <1>6, <1>7, <1>10, MinIs
  <2>2. EndIndex(segs[m]) = f + (l + n - s)
    BY <1>1, <1>8, <1>10, SegmentOf
  <2> QED BY <1>4, <1>11, <2>1, <2>2
<1>13. PICK v : v = Max({0, u})
  OBVIOUS
<1>14. v \in Nat /\ v < n
  <2>1. v = IF 0 >= u THEN 0 ELSE u
    BY <1>12, <1>13, MaxOfTwo
  <2> QED BY <1>11, <1>12, <2>1
<1>15. PICK k : k = Min({v, n})
  OBVIOUS
<1>16. AgeFloor(segs) = l + k
  BY <1>2, <1>5, <1>7, <1>9, <1>10, <1>13, <1>15 DEF AgeFloor
<1>17. LogEnd(segs[m]) <= LogEnd(segs[Len(segs)])
  <2>1. CASE m = Len(segs)
    BY <1>1, <2>1, SegmentOf
  <2>2. CASE m # Len(segs)
    <3>1. m < Len(segs)
      <4>1. PICK L : L = Len(segs)
        OBVIOUS
      <4>2. m \in 1..L /\ m # L /\ L \in Nat
        BY <1>1, <1>8, <2>2, <4>1
      <4>3. m < L
        BY <4>2
      <4> QED BY <4>1, <4>3
    <3>2. segs[Len(segs)].log <= LogEnd(segs[Len(segs)]) /\ LogEnd(segs[m]) \in Nat /\ segs[Len(segs)].start \in Nat
          /\ LogEnd(segs[Len(segs)]) \in Nat
      BY <1>1, <1>8, SegmentOf
    <3> QED BY <1>1, <1>8, <3>1, <3>2 DEF Chained
  <2> QED BY <2>1, <2>2
<1>18. LogEnd(segs[Len(segs)]) \in Nat
  BY <1>1, SegmentOf
<1> QED BY <1>11, <1>14, <1>15, <1>16, <1>17, <1>18, MinOfTwo

(* The last segment grows by n samples. *)
Grown(segs, n, t) ==
  /\ Chained(t) /\ Len(t) = Len(segs) /\ t # <<>>
  /\ \A i \in 1..Len(segs) :
       /\ t[i].start = segs[i].start /\ t[i].log = segs[i].log /\ t[i].first = segs[i].first
       /\ t[i].persisted = segs[i].persisted
       /\ i < Len(segs) => t[i] = segs[i]
  /\ t[Len(segs)].n = segs[Len(segs)].n + n
  /\ LogEnd(t[Len(segs)]) = LogEnd(segs[Len(segs)]) + n
  /\ EndIndex(t[Len(segs)]) = EndIndex(segs[Len(segs)]) + n

LEMMA GrownIs ==
  ASSUME NEW segs, Chained(segs), segs # <<>>, NEW n \in Nat, NEW t, t = [segs EXCEPT ![Len(segs)].n = @ + n]
  PROVE  Grown(segs, n, t)
<1>1. segs \in Seq(SegRec) /\ Len(segs) \in Nat /\ Len(segs) \in 1..Len(segs)
  BY DEF Chained
<1>2. PICK L : L = Len(segs)
  OBVIOUS
<1>3. PICK r : r = [segs[L] EXCEPT !.n = @ + n]
  OBVIOUS
<1>4. segs[L] \in SegRec /\ L \in 1..Len(segs)
  BY <1>1, <1>2
<1>5. segs[L].n \in Nat /\ segs[L].n + n \in Nat
  BY <1>4 DEF SegRec
<1>6. /\ r \in SegRec /\ r.start = segs[L].start /\ r.log = segs[L].log /\ r.first = segs[L].first
      /\ r.persisted = segs[L].persisted /\ r.n = segs[L].n + n
  BY <1>3, <1>4, <1>5 DEF SegRec
<1>7. t \in Seq(SegRec) /\ Len(t) = Len(segs) /\ t[L] = r /\ \A i \in 1..Len(segs) : i # L => t[i] = segs[i]
  BY <1>1, <1>2, <1>3, <1>4, <1>6
<1>8. \A i \in 1..Len(segs) :
              /\ t[i].start = segs[i].start /\ t[i].log = segs[i].log /\ t[i].first = segs[i].first
              /\ t[i].persisted = segs[i].persisted
              /\ i < Len(segs) => t[i] = segs[i]
  BY <1>1, <1>2, <1>6, <1>7
<1>9. LogEnd(t[L]) = LogEnd(segs[L]) + n /\ EndIndex(t[L]) = EndIndex(segs[L]) + n
  <2>1. PICK a, b, c, d : a = segs[L].first /\ b = segs[L].log /\ c = segs[L].n /\ d = segs[L].start
    OBVIOUS
  <2>2. a \in Nat /\ b \in Nat /\ c \in Nat /\ d \in Nat /\ EndIndex(segs[L]) = a + (b + c - d) /\ LogEnd(segs[L]) = b + c
    BY <1>4, <2>1, SegmentIs
  <2>3. LogEnd(t[L]) = b + (c + n) /\ EndIndex(t[L]) = a + (b + (c + n) - d)
    <3>1. LogEnd(r) = r.log + r.n /\ EndIndex(r) = r.first + (r.log + r.n - r.start)
      BY <1>6, SegmentIs
    <3> QED BY <1>6, <1>7, <2>1, <3>1
  <2> QED BY SMTT(40), <2>2, <2>3
<1>10. Chained(t)
  BY <1>1, <1>7, <1>8 DEF Chained
<1> QED BY <1>2, <1>6, <1>7, <1>8, <1>9, <1>10 DEF Grown

(* The last slot has m samples. *)
SlotSet(ss, m, t) ==
  /\ t \in Seq(SlotRec) /\ Len(t) = Len(ss) /\ Len(ss) \in 1..Len(ss) /\ t # <<>>
  /\ \A i \in 1..Len(ss) :
       /\ t[i].l = ss[i].l /\ t[i].pos = ss[i].pos /\ t[i].sealed = ss[i].sealed /\ t[i].crc = ss[i].crc
       /\ [t[i] EXCEPT !.n = t[i].sealed] = [ss[i] EXCEPT !.n = ss[i].sealed]
       /\ i # Len(ss) => t[i].n = ss[i].n
  /\ t[Len(ss)].n = m

LEMMA SlotGrown ==
  ASSUME NEW ss \in Seq(SlotRec), ss # <<>>, NEW m \in 0..SlotSamples, NEW t, t = [ss EXCEPT ![Len(ss)].n = m]
  PROVE  SlotSet(ss, m, t)
<1>1. Len(ss) \in Nat /\ Len(ss) \in 1..Len(ss)
  OBVIOUS
<1>2. PICK L : L = Len(ss)
  OBVIOUS
<1>3. PICK r : r = [ss[L] EXCEPT !.n = m]
  OBVIOUS
<1>4. ss[L] \in SlotRec /\ L \in 1..Len(ss)
  BY <1>1, <1>2
<1>5. /\ r \in SlotRec /\ r.l = ss[L].l /\ r.pos = ss[L].pos /\ r.sealed = ss[L].sealed /\ r.crc = ss[L].crc /\ r.n = m
      /\ [r EXCEPT !.n = r.sealed] = [ss[L] EXCEPT !.n = ss[L].sealed]
  BY <1>3, <1>4 DEF SlotRec
<1>6. t \in Seq(SlotRec) /\ Len(t) = Len(ss) /\ t[L] = r /\ \A i \in 1..Len(ss) : i # L => t[i] = ss[i]
  BY <1>1, <1>2, <1>3, <1>4, <1>5
<1> QED BY <1>1, <1>2, <1>5, <1>6 DEF SlotSet

(* Trimming keeps the segments over the log, and says of no sample anything new. *)
LEMMA TrimCovers ==
  ASSUME NEW segs, NEW f \in Nat, NEW e \in Nat, SegsOk(segs, f, e), NEW h \in Nat, f <= h,
         NEW isOpen \in BOOLEAN, NEW t, t = Trim(segs, h, isOpen)
  PROVE  SegsOk(t, h, e)
<1>1. Trimmed(segs, h, isOpen, t)
  BY TrimChained DEF SegsOk, Chained
<1>2. Chained(t)
  BY <1>1 DEF Trimmed
<1>3. CASE t = <<>>
  BY <1>2, <1>1, <1>3 DEF SegsOk, Trimmed
<1>4. CASE t # <<>>
  <2>1. /\ segs # <<>> /\ LogEnd(t[Len(t)]) = LogEnd(segs[Len(segs)])
        /\ t[1].log = Max({segs[1].log, Min({h, LogEnd(segs[Len(segs)])})})
    BY <1>1, <1>4 DEF Trimmed
  <2>2. LogEnd(segs[Len(segs)]) = e /\ (f <= e => segs[1].log = f) /\ (e <= f => segs[1].log = e)
    BY <2>1 DEF SegsOk
  <2>3. PICK a : a = segs[1].log
    OBVIOUS
  <2>4. PICK m : m = Min({h, e})
    OBVIOUS
  <2>5. a \in Nat /\ a <= f /\ a <= e
    BY <2>2, <2>3
  <2>6. m \in Nat /\ m = IF h <= e THEN h ELSE e
    BY <2>4, MinOfTwo
  <2>7. t[1].log = Max({a, m})
    BY <2>1, <2>2, <2>3, <2>4
  <2>8. t[1].log = IF a >= m THEN a ELSE m
    BY <2>5, <2>6, <2>7, MaxOfTwo
  <2>9. (h <= e => t[1].log = h) /\ (e <= h => t[1].log = e)
    BY <2>5, <2>6, <2>8
  <2> QED BY <1>2, <1>4, <2>1, <2>2, <2>9 DEF SegsOk
<1> QED BY <1>3, <1>4

(* A segment without samples is at the end of the log. *)
LEMMA EmptyIsLast ==
  ASSUME NEW segs, NEW f \in Nat, NEW e \in Nat, SegsOk(segs, f, e), NEW i \in 1..Len(segs), segs[i].n = 0
  PROVE  /\ i = Len(segs) /\ segs[i].log = e
         /\ f < e => segs[i].start = e
<1>1. Chained(segs) /\ segs \in Seq(SegRec) /\ Len(segs) \in Nat /\ segs # <<>>
  BY DEF SegsOk, Chained
<1>2. i = Len(segs)
  BY <1>1 DEF Chained
<1>3. segs[i].log = e
  <2>1. LogEnd(segs[i]) = segs[i].log + segs[i].n /\ segs[i].log \in Nat
    BY <1>1, SegmentOf
  <2>2. LogEnd(segs[i]) = e
    BY <1>1, <1>2 DEF SegsOk
  <2>3. PICK u : u = segs[i].log
    OBVIOUS
  <2>4. u \in Nat /\ e = u + 0
    BY <2>1, <2>2, <2>3
  <2> QED BY <2>3, <2>4
<1>4. ASSUME f < e PROVE segs[i].start = e
  BY <1>1, <1>3, <1>4 DEF SegsOk, Chained
<1> QED BY <1>2, <1>3, <1>4

(* A segment that begins below the end of the log, above its floor, has samples. *)
LEMMA BelowHas ==
  ASSUME NEW segs, NEW f \in Nat, NEW e \in Nat, SegsOk(segs, f, e), NEW i \in 1..Len(segs),
         f < e, segs[i].start < e
  PROVE  segs[i].n > 0
<1>1. segs[i].n \in Nat /\ segs[i].start \in Nat
  BY SegmentOf DEF SegsOk, Chained
<1> QED BY <1>1, EmptyIsLast

(* A segment persisted begins below the end, and the log is not empty. *)
LEMMA PersistedBelow ==
  ASSUME Inv, Whole, NEW i \in 1..Len(segments), segments[i].persisted
  PROVE  segments[i].start < end /\ floor < end
<1>1. SegsOk(segments, floor, end) /\ floor \in Nat /\ end \in Nat /\ segments \in Seq(SegRec) /\ segments[i].n > 0
  BY DEF Inv, SegInv, TypeInv, SegsOk, Chained, Whole, PersistedHave
<1>2. /\ segments[i].log \in Nat /\ segments[i].n \in Nat /\ LogEnd(segments[i]) = segments[i].log + segments[i].n
      /\ segments[i].start \in Nat
  BY <1>1, SegmentOf
<1>3. floor <= segments[i].log /\ segments[i].log < end
  <2>1. PICK u, v : u = segments[i].log /\ v = segments[i].n
    OBVIOUS
  <2>2. u \in Nat /\ v \in Nat /\ v > 0 /\ LogEnd(segments[i]) = u + v
    BY <1>1, <1>2, <2>1
  <2>3. u < LogEnd(segments[i]) /\ u \in Int /\ u <= u
    BY <2>2
  <2> QED BY <1>1, <2>1, <2>3, Retained
<1> QED BY <1>1, <1>2, <1>3, SettledIs DEF Inv, PersistInv

(* The floor does not go back, and a slot only grows. *)
GrewLast(n) ==
  /\ n \in Nat /\ end' = end + n /\ stream' = stream + n
  /\ Len(segments) \in 1..Len(segments)
  /\ LogEnd(segments[Len(segments)]) = end /\ EndIndex(segments[Len(segments)]) = stream
  /\ \A i \in 1..Len(segments') : \E h \in 1..Len(segments) :
       /\ segments'[i].start = segments[h].start /\ segments'[i].first = segments[h].first
       /\ segments[h].log <= segments'[i].log
       /\ LogEnd(segments'[i]) = IF h = Len(segments) THEN end + n ELSE LogEnd(segments[h])
  /\ cur # None /\ cur'.crc = cur.crc \o [i \in 1..n |-> stream + i - 1]

Counted ==
  /\ floor <= floor' /\ SealedEnd' = SealedEnd /\ \E n : GrewLast(n)
  /\ \A x \in 1..Len(slots) :
       /\ x \in 1..Len(slots') /\ slots'[x].l = slots[x].l /\ slots'[x].pos = slots[x].pos
       /\ slots[x].n <= slots'[x].n

LEMMA CountStep ==
  ASSUME Inv, Count
  PROVE  Inv' /\ (Whole => Whole') /\ Counted
<1> DEFINE len == Len(cur.crc)
           at  == Len(slots)
           L   == Len(segments)
<1>1. PICK n : n = Room
  OBVIOUS
<1>2. PICK grew : grew = [segments EXCEPT ![L].n = @ + n]
  OBVIOUS
<1>3. /\ slots' = [slots EXCEPT ![at].n = @ + n]
      /\ end' = end + n /\ floor' = Max({floor, AgeFloor(grew)}) /\ segments' = Trim(grew, floor', open)
      /\ cur' = [cur EXCEPT !.crc = @ \o [i \in 1..n |-> stream + i - 1]]
      /\ stream' = stream + n /\ rest' = rest - n
      /\ pc = <<"count">>
      /\ IF rest' > 0 THEN pc' = <<"write">> /\ backoff' = backoff
         ELSE backoff' = FALSE /\ pc' \in {<<"idle">>, <<"sync", "append">>}
      /\ UNCHANGED <<free, open, ring, disk, dirty, journal, pending>>
  BY <1>1, <1>2 DEF Count, fileVars
<1>4. /\ pc # <<"open">> /\ pc' # <<"open">> /\ pc' \in Steps /\ pc' \in {<<"idle">>, <<"write">>} \cup Syncing
      /\ (pc' \in Working => rest' > 0) /\ pc \in Working /\ pc \notin Sealing
  BY <1>3, StepsDiffer, StepsAre DEF Syncing, Working, Steps
<1>5. /\ cur # None /\ len < SlotSamples /\ open /\ rest > 0
      /\ \A i \in 1..n : /\ ring[<<cur.pos, len + i - 1>>] = stream + i - 1
                         /\ <<cur.pos, len + i - 1>> \in dirty
  BY <1>1, <1>3, <1>4 DEF Inv, StepInv, CurInv
<1>6. ~Full /\ len \in Nat
  BY <1>5, CursorIs, Sizes DEF Full
<1>7. n \in Nat /\ n > 0 /\ n <= SlotSamples - len /\ n <= rest
  BY <1>1, <1>5, <1>6, RoomIs
<1>8. /\ floor \in Nat /\ end \in Nat /\ stream \in Nat /\ rest \in Nat /\ SlotSamples \in Nat /\ len \in Nat
      /\ SlotsOk(slots, floor, end) /\ SegsOk(segments, floor, end) /\ Chained(segments)
  BY <1>6, Sizes DEF Inv, TypeInv, SlotInv, SegInv, SegsOk
<1>9. /\ Settled = at /\ at \in 1..Len(slots) /\ slots \in Seq(SlotRec) /\ slots # <<>>
      /\ cur.pos = slots[at].pos /\ slots[at].n = len /\ cur.l = slots[at].l /\ cur.sealed = slots[at].sealed
      /\ cur.sealed <= len /\ cur \in Cursor
  BY <1>4, <1>5, SettledIs, CursorIs DEF Inv
<1>10. end = FirstOf(slots[at].l) + len /\ FirstOf(slots[at].l) \in Nat
  BY <1>8, <1>9, SlotOf DEF SlotsOk
<1>11. segments # <<>> /\ EndIndex(segments[L]) = stream /\ LogEnd(segments[L]) = end
  BY <1>5, <1>8 DEF Inv, SegInv, SegsOk
<1>12. segments \in Seq(SegRec) /\ L \in Nat /\ L \in 1..L
  BY <1>8, <1>11 DEF Chained
<1>13. /\ Chained(grew) /\ Len(grew) = L /\ grew # <<>>
       /\ \A i \in 1..L :
              /\ grew[i].start = segments[i].start /\ grew[i].log = segments[i].log /\ grew[i].first = segments[i].first
              /\ grew[i].persisted = segments[i].persisted
              /\ i < L => grew[i] = segments[i]
       /\ grew[L].n = segments[L].n + n
       /\ LogEnd(grew[L]) = LogEnd(segments[L]) + n
       /\ EndIndex(grew[L]) = EndIndex(segments[L]) + n
  <2>1. Grown(segments, n, grew)
    BY <1>2, <1>7, <1>8, <1>11, GrownIs
  <2> QED BY <2>1 DEF Grown
<1>14. Trimmed(grew, floor', open, segments')
  <2>1. floor' \in Nat
    <3>1. PICK a : a = AgeFloor(grew)
      OBVIOUS
    <3>2. a \in Nat
      BY <1>7, <1>12, <1>13, <3>1, AgeFloorIs, SegmentOf
    <3>3. floor' = IF floor >= a THEN floor ELSE a
      BY <1>3, <1>8, <3>1, <3>2, MaxOfTwo
    <3> QED BY <1>8, <3>2, <3>3
  <2> QED BY <1>3, <1>13, <2>1, TrimChained DEF Inv, TypeInv
<1>15. grew[L].n > 0
  BY <1>7, <1>12, <1>13, SegmentOf
<1>16. PICK a : a = AgeFloor(grew)
  OBVIOUS
<1>17. a \in Nat /\ a < end + n
  BY <1>11, <1>13, <1>15, <1>16, AgeFloorIs
<1>18. /\ floor' \in Nat /\ floor <= floor' /\ end' \in Nat /\ (floor <= end => floor' < end')
       /\ end' = end + n
  <2>1. floor' = IF floor >= a THEN floor ELSE a
    BY <1>3, <1>8, <1>16, <1>17, MaxOfTwo
  <2> QED BY SMTT(40), <1>3, <1>7, <1>8, <1>17, <2>1
<1>19. SegsOk(segments', floor', end') /\ segments' # <<>> /\ EndIndex(segments'[Len(segments')]) = stream'
  <2>1. /\ Chained(segments') /\ segments' # <<>>
        /\ LogEnd(segments'[Len(segments')]) = LogEnd(grew[L])
        /\ EndIndex(segments'[Len(segments')]) = EndIndex(grew[L])
        /\ segments'[1].log = Max({grew[1].log, Min({floor', LogEnd(grew[L])})})
    BY <1>5, <1>13, <1>14 DEF Trimmed
  <2>2. LogEnd(grew[L]) = end' /\ EndIndex(grew[L]) = stream'
    BY <1>3, <1>11, <1>13
  <2>3. PICK b : b = grew[1].log
    OBVIOUS
  <2>4. PICK m : m = Min({floor', end'})
    OBVIOUS
  <2>5. b \in Nat /\ b <= floor /\ b <= end
    BY <1>8, <1>11, <1>12, <1>13, <2>3 DEF SegsOk
  <2>6. m = IF floor' <= end' THEN floor' ELSE end'
    BY <1>18, <2>4, MinOfTwo
  <2>7. m \in Nat /\ b <= m
    BY <1>7, <1>8, <1>18, <2>5, <2>6
  <2>8. segments'[1].log = m
    BY <2>1, <2>2, <2>3, <2>4, <2>5, <2>7, MaxOfTwo
  <2> QED BY <1>18, <2>1, <2>2, <2>6, <2>8 DEF SegsOk
<1>20. SegInv'
  BY <1>19 DEF SegInv
<1>21. \A i \in 1..Len(segments') : \E h \in 1..L :
         /\ segments'[i].start = segments[h].start /\ segments'[i].first = segments[h].first
         /\ segments'[i].persisted = segments[h].persisted
         /\ LogEnd(segments'[i]) = LogEnd(grew[h]) /\ segments[h].log <= segments'[i].log
         /\ h # L => LogEnd(grew[h]) = LogEnd(segments[h])
  <2> TAKE i \in 1..Len(segments')
  <2>1. PICK h \in 1..Len(grew) :
              /\ segments'[i].start = grew[h].start /\ segments'[i].first = grew[h].first
              /\ segments'[i].persisted = grew[h].persisted
              /\ LogEnd(segments'[i]) = LogEnd(grew[h]) /\ grew[h].log <= segments'[i].log /\ segments'[i].n <= grew[h].n
    BY <1>14 DEF Trimmed
  <2> QED BY <1>12, <1>13, <2>1
<1>22. /\ slots' \in Seq(SlotRec) /\ Len(slots') = at /\ slots' # <<>>
       /\ \A i \in 1..at :
              /\ slots'[i].l = slots[i].l /\ slots'[i].pos = slots[i].pos
              /\ slots'[i].sealed = slots[i].sealed /\ slots'[i].crc = slots[i].crc
              /\ [slots'[i] EXCEPT !.n = slots'[i].sealed] = [slots[i] EXCEPT !.n = slots[i].sealed]
              /\ i # at => slots'[i].n = slots[i].n
       /\ slots'[at].n = len + n
  <2>1. PICK m : m = len + n
    OBVIOUS
  <2>2. m \in 0..SlotSamples
    BY <1>7, <1>8, <2>1
  <2>3. slots' = [slots EXCEPT ![Len(slots)].n = m]
    BY <1>3, <1>9, <2>1
  <2>4. SlotSet(slots, m, slots')
    BY <1>9, <2>2, <2>3, SlotGrown
  <2> QED BY <2>1, <2>4 DEF SlotSet
<1>23. SlotInv'
  <2>1. ASSUME NEW i \in 1..Len(slots')
        PROVE  /\ slots'[i].l = slots'[1].l + (i - 1)
               /\ Len(slots'[i].crc) = slots'[i].sealed /\ slots'[i].sealed <= slots'[i].n
               /\ i < Len(slots') => slots'[i].n = SlotSamples /\ slots'[i].sealed = SlotSamples
    <3>1. i \in 1..at /\ 1 \in 1..at /\ (i < at => i # at)
      BY <1>9, <1>22
    <3>2. /\ slots[i].l = slots[1].l + (i - 1)
          /\ Len(slots[i].crc) = slots[i].sealed /\ slots[i].sealed <= slots[i].n
          /\ i < at => slots[i].n = SlotSamples /\ slots[i].sealed = SlotSamples
      BY <1>8, <3>1, SlotOf
    <3>3. slots'[i].sealed <= slots'[i].n
      <4>1. CASE i # at
        BY <1>22, <3>1, <3>2, <4>1
      <4>2. CASE i = at
        <5>1. slots'[i].sealed = cur.sealed /\ slots'[i].n = len + n
          BY <1>9, <1>22, <3>1, <4>2
        <5>2. cur.sealed \in Nat
          BY <1>5, CursorIs
        <5> QED BY <1>7, <1>8, <1>9, <5>1, <5>2
      <4> QED BY <4>1, <4>2
    <3> QED BY <1>22, <3>1, <3>2, <3>3
  <2>2. \A i, j \in 1..Len(slots') : slots'[i].pos = slots'[j].pos => i = j
    <3> SUFFICES ASSUME NEW i \in 1..Len(slots'), NEW j \in 1..Len(slots'), slots'[i].pos = slots'[j].pos
                 PROVE  i = j
      OBVIOUS
    <3>1. i \in 1..at /\ j \in 1..at /\ slots[i].pos = slots[j].pos
      BY <1>22
    <3> QED BY <1>8, <3>1, SlotNumbers
  <2>3. end' = FirstOf(slots'[Len(slots')].l) + slots'[Len(slots')].n
    <3>1. end + n = FirstOf(slots[at].l) + (len + n)
      BY <1>7, <1>8, <1>10
    <3> QED BY <1>9, <1>18, <1>22, <3>1
  <2>4. FirstOf(slots'[1].l) <= floor'
    <3>1. FirstOf(slots[1].l) <= floor /\ 1 \in 1..at
      BY <1>8, <1>9 DEF SlotsOk
    <3>2. FirstOf(slots[1].l) <= floor'
      BY <1>8, <1>18, <3>1, SlotOf
    <3> QED BY <1>22, <3>1, <3>2
  <2>5. SlotsOk(slots', floor', end')
    BY <1>22, <2>1, <2>2, <2>3, <2>4 DEF SlotsOk
  <2>6. {slots'[i].pos : i \in 1..Len(slots')} = {slots[i].pos : i \in 1..Len(slots)}
    <3>1. Len(slots') = Len(slots) /\ \A i \in 1..Len(slots) : slots'[i].pos = slots[i].pos
      BY <1>22
    <3> QED BY <3>1
  <2> QED BY <1>3, <2>5, <2>6 DEF Inv, SlotInv
<1>24. Settled' = at /\ SealedEnd' = SealedEnd
  BY <1>4, <1>9, <1>22 DEF Settled, SealedEnd
<1>25. SealedEnd \in Nat /\ SealedEnd <= end
  BY SettledIs DEF Inv
<1>26. cur'.crc = cur.crc \o [i \in 1..n |-> stream + i - 1] /\ cur'.l = cur.l /\ cur'.pos = cur.pos
       /\ cur'.sealed = cur.sealed /\ cur' \in Cursor
  <2>1. cur.crc \o [i \in 1..n |-> stream + i - 1] \in Seq(Nat)
    BY <1>7, <1>8, <1>9 DEF Cursor
  <2> HIDE DEF at, L
  <2> QED BY <1>3, <1>9, <2>1 DEF Cursor
<1>27. Len(cur'.crc) = len + n /\ (\A k \in 1..len : cur'.crc[k] = cur.crc[k])
       /\ \A i \in 1..n : cur'.crc[len + i] = stream + i - 1
  <2>1. PICK q : q = [i \in 1..n |-> stream + i - 1]
    OBVIOUS
  <2>2. q \in Seq(Nat) /\ Len(q) = n /\ \A i \in 1..n : q[i] = stream + i - 1
    BY <1>7, <1>8, <2>1
  <2>3. PICK c : c = cur.crc
    OBVIOUS
  <2>4. PICK z : z = c \o q
    OBVIOUS
  <2>5. Len(z) = Len(c) + n /\ (\A k \in 1..Len(c) : z[k] = c[k]) /\ \A i \in 1..n : z[Len(c) + i] = q[i]
    <3>1. Len(q) = n /\ Len(c) \in Nat /\ c \in Seq(Nat)
      BY <1>9, <2>2, <2>3 DEF Cursor
    <3>2. /\ Len(z) = Len(c) + Len(q)
          /\ \A i \in 1..(Len(c) + Len(q)) : z[i] = IF i <= Len(c) THEN c[i] ELSE q[i - Len(c)]
      BY <2>2, <2>4, <3>1, ConcatProperties
    <3>3. ASSUME NEW i \in 1..n PROVE z[Len(c) + i] = q[i]
      BY <1>7, <3>1, <3>2
    <3> QED BY <1>7, <3>1, <3>2, <3>3
  <2> QED BY <1>26, <2>1, <2>2, <2>3, <2>4, <2>5
<1>28. cur' # None
  BY <1>26, NoneAssumption
<1>29. CurInv'
  <2>1. /\ Settled' > 0 /\ cur'.l = slots'[Settled'].l /\ cur'.pos = slots'[Settled'].pos
        /\ cur'.sealed = slots'[Settled'].sealed /\ Len(cur'.crc) = slots'[Settled'].n
    <3>1. at \in Nat /\ at > 0 /\ at \in 1..at
      BY <1>9
    <3> QED BY <1>9, <1>22, <1>24, <1>26, <1>27, <3>1
  <2>2. ASSUME NEW k \in 1..Len(cur'.crc)
        PROVE  /\ ring'[<<cur'.pos, k - 1>>] = cur'.crc[k]
               /\ <<cur'.pos, k - 1>> \in dirty' \/ disk'[<<cur'.pos, k - 1>>] = cur'.crc[k]
    <3>1. CASE k \in 1..len
      BY <1>3, <1>5, <1>26, <1>27, <3>1 DEF Inv, CurInv
    <3>2. CASE k \notin 1..len
      <4>1. PICK i : i = k - len
        OBVIOUS
      <4>2. i \in 1..n /\ k = len + i /\ k - 1 = len + i - 1
        <5>1. len \in Nat /\ n \in Nat /\ k \in 1..(len + n) /\ k \notin 1..len
          BY <1>7, <1>8, <1>27, <3>2
        <5> QED BY <4>1, <5>1
      <4>3. ring[<<cur.pos, k - 1>>] = stream + i - 1 /\ <<cur.pos, k - 1>> \in dirty
        BY <1>5, <4>2
      <4>4. cur'.pos = cur.pos /\ ring' = ring /\ dirty' = dirty
        BY <1>3, <1>26
      <4>5. k - 1 = len + i - 1
        BY <4>2
      <4> QED BY <1>27, <4>2, <4>3, <4>4, <4>5
    <3> QED BY <3>1, <3>2
  <2>3. \A k \in 1..cur'.sealed : cur'.crc[k] = slots'[Settled'].crc[k]
    <3>1. \A k \in 1..cur.sealed : cur.crc[k] = slots[at].crc[k] /\ k \in 1..len
      BY <1>5, <1>8, <1>9, CursorIs DEF Inv, CurInv
    <3> QED BY <1>9, <1>22, <1>24, <1>26, <1>27, <3>1
  <2> QED BY <1>3, <1>4, <1>5, <1>28, <2>1, <2>2, <2>3 DEF CurInv
<1>30. TypeInv'
  <2>1. rest - n \in Nat /\ stream + n \in Nat
    BY <1>7, <1>8
  <2> QED BY <1>3, <1>4, <1>18, <1>26, <2>1 DEF Inv, TypeInv
<1>31. StepInv'
  BY <1>3, <1>4, NothingUnderWay DEF Inv, StepInv
<1>32. JournalInv'
  BY <1>3, JournalStays DEF Inv
<1>33. FloorInv'
  <2>1. ASSUME "lost" \notin Faults PROVE floor' <= end' /\ journal'.floor <= floor' /\ journal'.floor <= SealedEnd'
    <3>1. floor <= end /\ journal.floor <= floor /\ journal.floor <= SealedEnd /\ journal.floor \in Nat
      BY <2>1 DEF Inv, FloorInv, JournalInv, JournalOk, JournalType
    <3> QED BY <1>3, <1>8, <1>18, <1>24, <3>1
  <2> QED BY <2>1 DEF FloorInv
<1>34. PersistInv'
  <2> SUFFICES ASSUME NEW i \in 1..Len(segments')
               PROVE  /\ segments'[i].persisted =>
                           segments'[i].start < SealedEnd /\ Segment(segments'[i]) \in journal.segs
                      /\ ~segments'[i].persisted =>
                           /\ SealedEnd <= segments'[i].log
                           /\ SealedEnd <= segments'[i].start \/ SealedEnd <= journal.floor
                           /\ \A g \in journal.segs : g.start # segments'[i].start
    BY <1>3, <1>24 DEF PersistInv
  <2>1. PICK h \in 1..L :
         /\ segments'[i].start = segments[h].start /\ segments'[i].first = segments[h].first
         /\ segments'[i].persisted = segments[h].persisted
         /\ segments[h].log <= segments'[i].log
    BY <1>21
  <2>2. Segment(segments'[i]) = Segment(segments[h])
    BY <2>1 DEF Segment
  <2>3. SealedEnd <= segments[h].log => SealedEnd <= segments'[i].log
    <3>1. segments'[i].log \in Nat
      BY <1>19, SegmentOf DEF SegsOk, Chained
    <3>2. segments[h].log \in Nat /\ SealedEnd \in Nat /\ segments[h].log <= segments'[i].log
      BY <1>12, <1>25, <2>1, SegmentOf
    <3> QED BY <3>1, <3>2
  <2> QED BY <2>1, <2>2, <2>3 DEF Inv, PersistInv
<1>35. LinkInv'
  <2>1. \A x \in 1..Settled' : [slots'[x] EXCEPT !.n = slots'[x].sealed] \in journal.slots
    BY <1>9, <1>22, <1>24 DEF Inv, LinkInv
  <2>2. ASSUME NEW s \in journal.slots
        PROVE  /\ Settled' > 0 /\ s.l <= slots'[Settled'].l
               /\ s.l < slots'[1].l => FirstOf(s.l + 1) <= floor' /\ s.l + 1 = slots'[1].l
    <3>1. slots'[1].l = slots[1].l /\ slots'[Settled'].l = slots[Settled].l
      <4>1. 1 \in 1..at /\ at \in 1..at
        BY <1>9
      <4> QED BY <1>9, <1>22, <1>24, <4>1
    <3>2. FirstOf(s.l + 1) \in Nat
      <4>1. s.l + 1 \in Nat
        BY DEF SlotRec, Inv, JournalInv, JournalOk, JournalType
      <4> QED BY <4>1, FirstOfIs
    <3>3. FirstOf(s.l + 1) <= floor => FirstOf(s.l + 1) <= floor'
      BY <1>8, <1>18, <3>2
    <3> QED BY <1>9, <1>24, <3>1, <3>3 DEF Inv, LinkInv
  <2>3. ASSUME NEW g \in journal.segs, NEW i \in 1..Len(segments'),
               segments'[i].start < g.start, g.start < LogEnd(segments'[i])
        PROVE  FALSE
    <3>1. PICK h \in 1..L :
         /\ segments'[i].start = segments[h].start
         /\ LogEnd(segments'[i]) = LogEnd(grew[h])
         /\ h # L => LogEnd(grew[h]) = LogEnd(segments[h])
      BY <1>21
    <3>2. g.start < SealedEnd /\ g.start \in Nat
      BY DEF Inv, JournalInv, JournalOk, JournalType, LinkInv, Start
    <3>3. g.start < end
      BY <1>8, <1>25, <3>2
    <3> QED BY <1>11, <2>3, <3>1, <3>3 DEF Inv, LinkInv
  <2> QED BY <1>3, <1>24, <2>1, <2>2, <2>3 DEF LinkInv, Inv
<1>36. ValueInv'
  <2> SUFFICES ASSUME NEW x \in 1..Len(slots'), NEW i \in 1..Len(segments'), NEW k \in 0..(slots'[x].n - 1),
                      segments'[i].log <= FirstOf(slots'[x].l) + k, FirstOf(slots'[x].l) + k < LogEnd(segments'[i])
               PROVE  ring'[<<slots'[x].pos, k>>] = IndexAt(segments'[i], FirstOf(slots'[x].l) + k)
    BY DEF ValueInv, ValuesOk
  <2>1. PICK h \in 1..L :
         /\ segments'[i].start = segments[h].start /\ segments'[i].first = segments[h].first
         /\ LogEnd(segments'[i]) = LogEnd(grew[h]) /\ segments[h].log <= segments'[i].log
         /\ h # L => LogEnd(grew[h]) = LogEnd(segments[h])
    BY <1>21
  <2>2. x \in 1..at /\ slots'[x].l = slots[x].l /\ slots'[x].pos = slots[x].pos /\ FirstOf(slots[x].l) \in Nat
        /\ slots[x].n \in Nat /\ slots[x].n <= SlotSamples /\ slots'[x].n \in Nat
    <3>1. slots'[x].n \in Nat
      <4>1. slots'[x] \in SlotRec
        BY <1>22
      <4> QED BY <4>1, Sizes DEF SlotRec
    <3> QED BY <1>8, <1>22, <3>1, SlotOf
  <2>3. PICK p : p = FirstOf(slots[x].l) + k
    OBVIOUS
  <2>4. p \in Nat /\ k \in Nat /\ segments[h].log <= p
    <3>1. p \in Nat /\ k \in Nat
      BY <2>2, <2>3
    <3>2. segments[h].log \in Nat
      BY <1>12, SegmentOf
    <3>3. segments'[i].log \in Nat
      BY <1>19, SegmentOf DEF SegsOk, Chained
    <3>4. segments'[i].log <= p
      BY <2>2, <2>3
    <3> QED BY <2>1, <3>1, <3>2, <3>3, <3>4
  <2>5. IndexAt(segments'[i], p) = IndexAt(segments[h], p)
    BY <2>1 DEF IndexAt
  <2>6. CASE p < end
    <3>1. k \in 0..(slots[x].n - 1)
      <4>1. CASE x # at
        BY <1>22, <2>2, <4>1
      <4>2. CASE x = at
        <5>1. k < len
          BY SMTT(40), <1>8, <1>10, <2>2, <2>3, <2>4, <2>6, <4>2
        <5> QED BY <1>8, <1>9, <2>4, <4>2, <5>1
      <4> QED BY <4>1, <4>2
    <3>2. p < LogEnd(segments[h])
      BY <1>11, <2>1, <2>2, <2>3, <2>6
    <3>3. ring[<<slots[x].pos, k>>] = IndexAt(segments[h], p)
      BY <2>2, <2>3, <2>4, <3>1, <3>2 DEF Inv, ValueInv, ValuesOk
    <3> QED BY <1>3, <2>2, <2>3, <2>5, <3>3
  <2>7. CASE ~(p < end)
    <3>1. x = at
      <4>1. CASE x # at
        <5>1. x < at
          BY <1>9, <2>2, <4>1
        <5>2. slots'[x].n = slots[x].n /\ FirstOf(slots[x].l) + SlotSamples <= FirstOf(slots[at].l)
          BY <1>8, <1>9, <1>22, <2>2, <4>1, <5>1, SlotNumbers
        <5>3. k < SlotSamples
          BY SMTT(40), <1>8, <2>2, <2>4, <5>2
        <5>4. PICK u, v : u = FirstOf(slots[x].l) /\ v = FirstOf(slots[at].l)
          OBVIOUS
        <5>5. u \in Nat /\ v \in Nat /\ u + SlotSamples <= v /\ p = u + k /\ end = v + len
          BY <1>10, <2>2, <2>3, <5>2, <5>4
        <5>6. p < end
          BY SMTT(40), <1>8, <2>4, <5>3, <5>5
        <5> QED BY <2>7, <5>6
      <4> QED BY <4>1
    <3>2. PICK j : j = k - len + 1
      OBVIOUS
    <3>3. j \in 1..n /\ k = len + j - 1 /\ p = end + (j - 1)
      <4>1. k < len + n
        <5>1. k < slots'[x].n
          BY SMTT(40), <2>2, <2>4
        <5> QED BY <1>22, <3>1, <5>1
      <4>2. p = FirstOf(slots[at].l) + k
        BY <2>3, <3>1
      <4>3. k >= len
        BY SMTT(40), <1>8, <1>10, <2>4, <2>7, <4>2
      <4>4. p = end + (k - len)
        BY SMTT(40), <1>8, <1>10, <2>4, <4>2
      <4>5. j \in 1..n /\ k = len + j - 1
        BY SMTT(40), <1>7, <1>8, <2>4, <3>2, <4>1, <4>3
      <4>6. k - len = j - 1
        BY <1>8, <2>4, <3>2
      <4> QED BY <4>4, <4>5, <4>6
    <3>4. ring[<<cur.pos, len + j - 1>>] = stream + j - 1
      BY <1>5, <3>3
    <3>5. h = L
      <4>1. CASE h # L
        <5>1. LogEnd(segments[h]) <= segments[L].start /\ segments[L].log = segments[L].start
          BY <1>8, <1>12, <4>1 DEF Chained
        <5>2. segments[L].log <= LogEnd(segments[L]) /\ segments[L].log \in Nat /\ LogEnd(segments[h]) \in Nat
          BY <1>12, SegmentOf
        <5>3. p < LogEnd(segments[h])
          BY <2>1, <2>2, <2>3, <4>1
        <5> QED BY <1>8, <1>11, <2>4, <2>7, <5>1, <5>2, <5>3
      <4> QED BY <4>1
    <3>6. IndexAt(segments[L], p) = stream + (p - end)
      <4>1. PICK s, g, m, f : s = segments[L].start /\ g = segments[L].log /\ m = segments[L].n /\ f = segments[L].first
        OBVIOUS
      <4>2. /\ s \in Nat /\ g \in Nat /\ m \in Nat /\ f \in Nat /\ LogEnd(segments[L]) = g + m
            /\ EndIndex(segments[L]) = f + (g + m - s)
        BY <1>12, <4>1, SegmentOf
      <4>3. IndexAt(segments[L], p) = f + (p - s)
        BY <4>1 DEF IndexAt
      <4> QED BY <1>8, <1>11, <2>4, <4>2, <4>3
    <3>7. stream + (p - end) = stream + j - 1
      BY <1>8, <3>3
    <3> QED BY <1>3, <1>9, <2>2, <2>3, <2>5, <3>1, <3>3, <3>4, <3>5, <3>6, <3>7
  <2> QED BY <2>6, <2>7
<1>37. Inv'
  BY <1>20, <1>23, <1>29, <1>30, <1>31, <1>32, <1>33, <1>34, <1>35, <1>36 DEF Inv
<1>38. ASSUME Whole PROVE PersistedHave'
  <2> SUFFICES ASSUME NEW i \in 1..Len(segments'), segments'[i].persisted PROVE segments'[i].n > 0
    BY DEF PersistedHave
  <2>1. PICK h \in 1..L : segments'[i].start = segments[h].start /\ segments'[i].persisted = segments[h].persisted
    BY <1>21
  <2>2. segments[h].start \in Nat
    BY <1>12, SegmentOf
  <2>3. floor' < end' /\ segments'[i].start < end'
    <3>1. segments[h].start < end /\ floor < end
      BY <1>38, <2>1, PersistedBelow
    <3>2. floor' < end' /\ end' = end + n /\ end \in Nat /\ n \in Nat
      BY <1>3, <1>7, <1>8, <1>18, <3>1
    <3>3. segments'[i].start \in Nat /\ segments'[i].start < end
      BY <2>1, <2>2, <3>1
    <3> QED BY <3>2, <3>3
  <2> QED BY <1>18, <1>19, <2>3, BelowHas
<1>39. ASSUME Whole PROVE SealedFirst'
  BY <1>3, <1>9, <1>39 DEF SlotRec, Whole, SealedFirst
<1>40. Counted
  <2>1. ASSUME NEW x \in 1..Len(slots)
        PROVE  /\ x \in 1..Len(slots') /\ slots'[x].l = slots[x].l /\ slots'[x].pos = slots[x].pos
               /\ slots[x].n <= slots'[x].n
    <3>1. x \in 1..Len(slots') /\ slots'[x].l = slots[x].l /\ slots'[x].pos = slots[x].pos
      BY <1>22
    <3>2. slots[x].n \in Nat
      BY <1>8, SlotOf
    <3>3. x # at => slots'[x].n = slots[x].n
      BY <1>22
    <3>4. x = at => slots[x].n = len /\ slots'[x].n = len + n
      BY <1>9, <1>22
    <3>5. len <= len + n
      BY <1>7, <1>8
    <3> QED BY <3>1, <3>2, <3>3, <3>4, <3>5
  <2>2. \A i \in 1..Len(segments') : \E h \in 1..L :
         /\ segments'[i].start = segments[h].start /\ segments'[i].first = segments[h].first
         /\ segments[h].log <= segments'[i].log
         /\ LogEnd(segments'[i]) = IF h = L THEN end + n ELSE LogEnd(segments[h])
    BY <1>11, <1>13, <1>21
  <2>3. GrewLast(n)
    BY <1>3, <1>5, <1>7, <1>11, <1>12, <1>26, <2>2 DEF GrewLast
  <2> QED BY <1>18, <1>24, <2>1, <2>3 DEF Counted
<1> QED BY <1>37, <1>38, <1>39, <1>40 DEF Whole

-----------------------------------------------------------------------------
(* The next slot *)

(* The last slot is full and sealed, so the next one starts at the end of the log. *)
LEMMA LastIsFull ==
  ASSUME Inv, Advance
  PROVE  /\ Settled = Len(slots) /\ pc # <<"open">> /\ open /\ rest > 0
         /\ slots = <<>> => end = 0
         /\ slots # <<>> => /\ slots[Len(slots)].sealed = SlotSamples
                            /\ end = FirstOf(slots[Len(slots)].l + 1)
<1>1. pc = <<"write">> /\ (cur = None \/ (Full /\ cur.sealed = SlotSamples))
  BY DEF Advance
<1>2. pc # <<"open">> /\ open /\ rest > 0
  BY <1>1, StepsDiffer DEF Working, Inv, CurInv
<1>3. Settled = Len(slots) /\ slots \in Seq(SlotRec) /\ (slots = <<>> <=> Len(slots) = 0) /\ Len(slots) \in Nat
  BY <1>2, SettledIs DEF Inv
<1>4. ASSUME slots # <<>>
      PROVE  slots[Len(slots)].sealed = SlotSamples /\ end = FirstOf(slots[Len(slots)].l + 1)
  <2>1. Len(slots) \in 1..Len(slots) /\ Len(slots) # 0
    BY <1>3, <1>4
  <2>2. slots[Len(slots)].sealed = SlotSamples
    BY <1>1, <1>3, <2>1 DEF Inv, CurInv
  <2>3. /\ slots[Len(slots)].n \in Nat /\ slots[Len(slots)].n <= SlotSamples
        /\ slots[Len(slots)].sealed <= slots[Len(slots)].n /\ slots[Len(slots)].l \in Nat
    BY <2>1, SlotOf DEF Inv, TypeInv, SlotInv
  <2>4. end = FirstOf(slots[Len(slots)].l) + slots[Len(slots)].n
    BY <1>4 DEF Inv, SlotInv, SlotsOk
  <2>5. FirstOf(slots[Len(slots)].l + 1) = FirstOf(slots[Len(slots)].l) + SlotSamples
    BY <2>3, FirstOfIs
  <2> QED BY <2>2, <2>3, <2>4, <2>5, Sizes
<1> QED BY <1>2, <1>3, <1>4 DEF Inv, SlotInv, SlotsOk

(* The new slot is at the end, at a position no kept slot has; with d = 1 the oldest *)
(* slot is evicted for it.                                                           *)
Advanced(d, new) ==
  /\ d \in {0, 1} /\ Len(slots') = Len(slots) - d + 1 /\ slots' \in Seq(SlotRec)
  /\ \A i \in 1..(Len(slots) - d) : slots'[i] = slots[i + d]
  /\ slots'[Len(slots')] = new
  /\ new.l \in Nat /\ new.n = 0 /\ new.sealed = 0 /\ new.crc = <<>> /\ new.pos \in Positions
  /\ new.l = IF slots = <<>> THEN 0 ELSE slots[Len(slots)].l + 1
  /\ \A i \in (d + 1)..Len(slots) : new.pos # slots[i].pos
  /\ pending' = [segs |-> {}, rec |-> Open(new.l, new.pos)]
  /\ end' = end /\ end = FirstOf(new.l)
  /\ free' = Positions \ {slots'[i].pos : i \in 1..Len(slots')}
  /\ d = 0 => floor' = floor /\ segments' = segments
  /\ d = 1 => /\ free = {} /\ Len(slots) > 1 /\ FirstOf(slots[1].l + 1) <= floor'
              /\ floor' \in {floor, FirstOf(slots[1].l + 1)} /\ floor <= floor'
              /\ segments' = Trim(segments, floor', open)

LEMMA AdvanceIs ==
  ASSUME Inv, Advance
  PROVE  \E d, new : Advanced(d, new)
<1> DEFINE at == Len(slots)
<1>1. /\ SlotsOk(slots, floor, end) /\ floor \in Nat /\ end \in Nat /\ slots \in Seq(SlotRec)
      /\ at \in Nat /\ (slots = <<>> <=> at = 0) /\ free = Positions \ {slots[i].pos : i \in 1..at}
  BY SettledIs DEF Inv, SlotInv, TypeInv
<1>2. /\ slots = <<>> => end = 0
      /\ slots # <<>> => end = FirstOf(slots[at].l + 1)
  BY LastIsFull
<1>3. PICK l : l = IF slots = <<>> THEN end \div SlotSamples ELSE Last(slots).l + 1
  OBVIOUS
<1>4. l \in Nat /\ end = FirstOf(l) /\ l = IF slots = <<>> THEN 0 ELSE slots[at].l + 1
  <2>1. CASE slots = <<>>
    BY <1>2, <1>3, <2>1, Sizes, FirstOfIs
  <2>2. CASE slots # <<>>
    BY <1>1, <1>2, <1>3, <2>2, SlotOf DEF Last
  <2> QED BY <2>1, <2>2
<1>5. PICK pos : pos = IF free = {} THEN Head(slots).pos ELSE Min(free)
  OBVIOUS
<1>6. PICK older : older = IF free = {} THEN Tail(slots) ELSE slots
  OBVIOUS
<1>7. PICK above : above = IF free = {} THEN Max({floor, FirstOf(Head(slots).l + 1)}) ELSE floor
  OBVIOUS
<1>8. PICK front : front = IF older = <<>> THEN l ELSE Head(older).l
  OBVIOUS
<1>9. PICK new : new = [l |-> l, pos |-> pos, n |-> 0, sealed |-> 0, crc |-> <<>>]
  OBVIOUS
<1>10. /\ slots' = Append(older, new)
       /\ free' = free \ {pos}
       /\ segments' = IF free = {} THEN Trim(segments, above, open) ELSE segments
       /\ end' = Max({end, FirstOf(l)})
       /\ floor' = Max({above, FirstOf(front)})
       /\ pending' = [segs |-> {}, rec |-> Open(l, pos)]
  BY <1>3, <1>5, <1>6, <1>7, <1>8, <1>9 DEF Advance
<1>11. end' = end
  BY <1>1, <1>4, <1>10, MaxOfTwo
<1>12. new.l = l /\ new.n = 0 /\ new.sealed = 0 /\ new.crc = <<>> /\ new.pos = pos
  BY <1>9
<1>13. CASE free # {}
  <2>1. older = slots /\ above = floor /\ pos = Min(free)
    BY <1>5, <1>6, <1>7, <1>13
  <2>2. free \subseteq Nat /\ free # {}
    BY <1>1, <1>13, Sizes DEF Positions
  <2>3. pos \in free
    BY <2>1, <2>2, MinIs
  <2>4. pos \in Positions /\ \A i \in 1..at : pos # slots[i].pos
    BY <1>1, <2>3
  <2>5. new \in SlotRec
    BY <1>4, <1>9, <2>4, Sizes DEF SlotRec
  <2>6. /\ slots' \in Seq(SlotRec) /\ Len(slots') = at + 1 /\ slots'[at + 1] = new
        /\ \A i \in 1..at : slots'[i] = slots[i]
    BY <1>1, <1>10, <2>1, <2>5
  <2>7. floor' = floor
    <3>1. FirstOf(front) \in Nat /\ FirstOf(front) <= floor
      <4>1. CASE slots = <<>>
        BY <1>1, <1>2, <1>4, <1>8, <2>1, <4>1, FirstOfIs
      <4>2. CASE slots # <<>>
        <5>1. Head(slots) = slots[1] /\ 1 \in 1..at
          BY <1>1, <4>2
        <5>2. FirstOf(slots[1].l) \in Nat
          BY <1>1, <5>1, SlotOf
        <5> QED BY <1>1, <1>8, <2>1, <4>2, <5>1, <5>2 DEF SlotsOk
      <4> QED BY <4>1, <4>2
    <3> QED BY <1>1, <1>10, <2>1, <3>1, MaxOfTwo
  <2>8. free' = Positions \ {slots'[i].pos : i \in 1..Len(slots')}
    BY <1>1, <1>10, <1>12, <2>6
  <2>9. segments' = segments
    BY <1>10, <1>13
  <2>10. Advanced(0, new)
    <3>1. Len(slots') = at - 0 + 1 /\ slots'[Len(slots')] = new
      BY <1>1, <2>6
    <3>2. \A i \in 1..(at - 0) : slots'[i] = slots[i + 0]
      BY <1>1, <2>6
    <3>3. \A i \in (0 + 1)..at : new.pos # slots[i].pos
      BY <1>12, <2>4
    <3>4. /\ new.l \in Nat /\ new.n = 0 /\ new.sealed = 0 /\ new.crc = <<>> /\ new.pos \in Positions
          /\ new.l = IF slots = <<>> THEN 0 ELSE slots[Len(slots)].l + 1
      BY <1>4, <1>12, <2>4
    <3>5. pending' = [segs |-> {}, rec |-> Open(new.l, new.pos)] /\ end' = end /\ end = FirstOf(new.l)
      BY <1>4, <1>10, <1>11, <1>12
    <3>6. 0 \in {0, 1} /\ 0 # 1 /\ slots' \in Seq(SlotRec)
      BY <2>6
    <3> QED BY <2>7, <2>8, <2>9, <3>1, <3>2, <3>3, <3>4, <3>5, <3>6 DEF Advanced
  <2> QED BY <2>10
<1>14. CASE free = {}
  <2>1. at > 1
    BY <1>1, <1>14, Sizes DEF Positions
  <2>2. /\ slots # <<>> /\ Head(slots) = slots[1] /\ 1 \in 1..at /\ 2 \in 1..at
        /\ slots[1].l \in Nat /\ slots[1].pos \in Positions /\ slots[2].l = slots[1].l + 1 /\ slots[2].l \in Nat
    <3>1. slots # <<>> /\ Head(slots) = slots[1] /\ 1 \in 1..at /\ 2 \in 1..at
      BY <1>1, <2>1
    <3>2. slots[1].l \in Nat /\ slots[1].pos \in Positions
      BY <1>1, <3>1, SlotOf
    <3>3. PICK u, v : u = slots[1].l /\ v = slots[2].l
      OBVIOUS
    <3>4. u \in Nat /\ v = u + (2 - 1)
      BY <1>1, <3>1, <3>2, <3>3, SlotOf
    <3> QED BY <3>1, <3>2, <3>3, <3>4
  <2>3. /\ older \in Seq(SlotRec) /\ Len(older) = at - 1 /\ older # <<>> /\ Head(older) = slots[2]
        /\ \A i \in 1..(at - 1) : older[i] = slots[i + 1]
    <3>1. older \in Seq(SlotRec) /\ Len(older) = at - 1 /\ \A i \in 1..(at - 1) : older[i] = slots[i + 1]
      BY <1>1, <1>6, <1>14, <2>2
    <3>2. older # <<>> /\ 1 \in 1..(at - 1)
      BY <1>1, <2>1, <3>1
    <3> QED BY <3>1, <3>2
  <2>4. pos = slots[1].pos /\ front = slots[2].l /\ segments' = Trim(segments, above, open)
        /\ above = Max({floor, FirstOf(slots[1].l + 1)})
    BY <1>5, <1>7, <1>8, <1>10, <1>14, <2>2, <2>3
  <2>5. PICK b : b = FirstOf(slots[1].l + 1)
    OBVIOUS
  <2>6. b \in Nat
    BY <2>2, <2>5, FirstOfIs
  <2>7. above \in Nat /\ above >= b /\ floor <= above /\ above \in {floor, b}
    BY <1>1, <2>4, <2>5, <2>6, MaxOfTwo
  <2>8. floor' = above
    <3>1. floor' = Max({above, b})
      BY <1>10, <2>2, <2>4, <2>5
    <3>2. floor' = IF above >= b THEN above ELSE b
      BY <2>6, <2>7, <3>1, MaxOfTwo
    <3> QED BY <2>7, <3>2
  <2>9. new \in SlotRec
    BY <1>4, <1>9, <2>2, <2>4, Sizes DEF SlotRec
  <2>10. /\ slots' \in Seq(SlotRec) /\ Len(slots') = at /\ slots'[at] = new
         /\ \A i \in 1..(at - 1) : slots'[i] = slots[i + 1]
    BY <1>1, <1>10, <2>3, <2>9
  <2>11. free' = Positions \ {slots'[i].pos : i \in 1..Len(slots')}
    <3>1. ASSUME NEW q \in Positions PROVE q \in {slots'[i].pos : i \in 1..Len(slots')}
      <4>1. PICK j \in 1..at : slots[j].pos = q
        BY <1>1, <1>14
      <4>2. CASE j = 1
        BY <1>12, <2>2, <2>4, <2>10, <4>1, <4>2
      <4>3. CASE j # 1
        <5>1. j - 1 \in 1..(at - 1) /\ j - 1 \in 1..Len(slots') /\ (j - 1) + 1 = j
          BY <1>1, <2>10, <4>3
        <5> QED BY <2>10, <4>1, <5>1
      <4> QED BY <4>2, <4>3
    <3> QED BY <1>10, <1>14, <3>1
  <2>12. Advanced(1, new)
    <3>1. Len(slots') = at - 1 + 1 /\ slots'[Len(slots')] = new
      BY <1>1, <2>10
    <3>2. \A i \in (1 + 1)..at : new.pos # slots[i].pos
      BY <1>1, <1>12, <2>2, <2>4, SlotNumbers
    <3>3. /\ new.l \in Nat /\ new.n = 0 /\ new.sealed = 0 /\ new.crc = <<>> /\ new.pos \in Positions
          /\ new.l = IF slots = <<>> THEN 0 ELSE slots[Len(slots)].l + 1
      BY <1>4, <1>12, <2>2, <2>4
    <3>4. pending' = [segs |-> {}, rec |-> Open(new.l, new.pos)] /\ end' = end /\ end = FirstOf(new.l)
      BY <1>4, <1>10, <1>11, <1>12
    <3>5. 1 \in {0, 1} /\ 0 # 1 /\ slots' \in Seq(SlotRec)
      BY <2>10
    <3>6. /\ free = {} /\ Len(slots) > 1 /\ FirstOf(slots[1].l + 1) <= floor'
          /\ floor' \in {floor, FirstOf(slots[1].l + 1)} /\ floor <= floor'
          /\ segments' = Trim(segments, floor', open)
      BY <1>14, <2>1, <2>4, <2>5, <2>7, <2>8
    <3>7. \A i \in 1..(Len(slots) - 1) : slots'[i] = slots[i + 1]
      BY <2>10
    <3> QED BY <2>11, <3>1, <3>2, <3>3, <3>4, <3>5, <3>6, <3>7 DEF Advanced
  <2> QED BY <2>12
<1> QED BY <1>13, <1>14

(* Segments that only lost samples below the floor say nothing new. *)
Narrowed(segs, t) ==
  /\ t \in Seq(SegRec)
  /\ \A i \in 1..Len(t) : \E h \in 1..Len(segs) :
       /\ t[i].start = segs[h].start /\ t[i].first = segs[h].first /\ t[i].persisted = segs[h].persisted
       /\ LogEnd(t[i]) = LogEnd(segs[h]) /\ segs[h].log <= t[i].log

LEMMA NarrowedPersist ==
  ASSUME PersistInv, SegInv, TypeInv, SlotInv, StepInv, Narrowed(segments, segments'), UNCHANGED journal,
         SealedEnd' = SealedEnd
  PROVE  PersistInv'
<1> SUFFICES ASSUME NEW i \in 1..Len(segments')
             PROVE  /\ segments'[i].persisted =>
                         segments'[i].start < SealedEnd /\ Segment(segments'[i]) \in journal.segs
                    /\ ~segments'[i].persisted =>
                         /\ SealedEnd <= segments'[i].log
                         /\ SealedEnd <= segments'[i].start \/ SealedEnd <= journal.floor
                         /\ \A g \in journal.segs : g.start # segments'[i].start
  BY DEF PersistInv
<1>1. PICK h \in 1..Len(segments) :
         /\ segments'[i].start = segments[h].start /\ segments'[i].first = segments[h].first
         /\ segments'[i].persisted = segments[h].persisted
         /\ LogEnd(segments'[i]) = LogEnd(segments[h]) /\ segments[h].log <= segments'[i].log
  BY DEF Narrowed
<1>2. Segment(segments'[i]) = Segment(segments[h])
  BY <1>1 DEF Segment
<1>3. SealedEnd <= segments[h].log => SealedEnd <= segments'[i].log
  <2>1. segments[h].log \in Nat
    BY SegmentOf DEF SegInv, SegsOk, Chained
  <2>2. segments'[i].log \in Nat
    BY SegmentOf DEF Narrowed
  <2>3. SealedEnd \in Nat
    BY SettledIs
  <2> QED BY <1>1, <2>1, <2>2, <2>3
<1> QED BY <1>1, <1>2, <1>3 DEF PersistInv

LEMMA AdvanceStep ==
  ASSUME Inv, Advance
  PROVE  Inv'
<1> DEFINE at == Len(slots)
<1>1. PICK d, new : Advanced(d, new)
  BY AdvanceIs
<1>2. /\ d \in {0, 1} /\ d \in Nat /\ Len(slots') = at - d + 1 /\ slots' \in Seq(SlotRec)
      /\ \A i \in 1..(at - d) : slots'[i] = slots[i + d]
      /\ slots'[Len(slots')] = new
      /\ new.l \in Nat /\ new.n = 0 /\ new.sealed = 0 /\ new.crc = <<>> /\ new.pos \in Positions
      /\ new.l = IF slots = <<>> THEN 0 ELSE slots[at].l + 1
      /\ \A i \in (d + 1)..at : new.pos # slots[i].pos
  BY <1>1 DEF Advanced
<1>3. /\ pending' = [segs |-> {}, rec |-> Open(new.l, new.pos)]
      /\ end' = end /\ end = FirstOf(new.l)
      /\ free' = Positions \ {slots'[i].pos : i \in 1..Len(slots')}
  BY <1>1 DEF Advanced
<1>4. /\ d = 0 => floor' = floor /\ segments' = segments
      /\ d = 1 => /\ free = {} /\ at > 1 /\ FirstOf(slots[1].l + 1) <= floor'
                  /\ floor' \in {floor, FirstOf(slots[1].l + 1)} /\ floor <= floor'
                  /\ segments' = Trim(segments, floor', open)
  BY <1>1 DEF Advanced
<1>5. /\ pc = <<"write">> /\ pc' = <<"open">> /\ UNCHANGED <<journal, open, cur, rest, ring, disk, dirty, stream>>
  BY DEF Advance, ringVars, inputVars
<1>6. /\ Settled = at /\ pc # <<"open">> /\ open /\ rest > 0
      /\ slots = <<>> => end = 0
      /\ slots # <<>> => slots[at].sealed = SlotSamples /\ end = FirstOf(slots[at].l + 1)
  BY LastIsFull
<1>7. /\ SlotsOk(slots, floor, end) /\ floor \in Nat /\ end \in Nat /\ slots \in Seq(SlotRec)
      /\ at \in Nat /\ (slots = <<>> <=> at = 0) /\ free = Positions \ {slots[i].pos : i \in 1..at}
      /\ SegsOk(segments, floor, end) /\ Chained(segments) /\ segments \in Seq(SegRec)
  BY SettledIs DEF Inv, SlotInv, SegInv, TypeInv, SegsOk, Chained
<1>8. at >= d /\ (d = 1 => at > 1)
  BY <1>2, <1>4, <1>7
<1>9. Len(slots') \in Nat /\ Len(slots') = at - d + 1 /\ Len(slots') \in 1..Len(slots') /\ slots' # <<>> /\ 1 \in 1..Len(slots')
  BY <1>2, <1>7, <1>8
<1>10. \A i \in 1..Len(slots') : i # Len(slots') => i \in 1..(at - d) /\ i + d \in 1..at
  BY <1>2, <1>7, <1>8, <1>9
<1>11. slots' # <<>> /\ \A i \in 1..Len(slots') : slots'[i].l = slots'[1].l + (i - 1)
  <2>1. PICK a : a = IF at = 0 THEN 0 ELSE slots[1].l + d
    OBVIOUS
  <2>2. ASSUME NEW i \in 1..Len(slots') PROVE slots'[i].l = a + (i - 1)
    <3>1. CASE i # Len(slots')
      <4>1. slots'[i] = slots[i + d] /\ i + d \in 1..at /\ at # 0
        BY <1>2, <1>10, <3>1
      <4>2. PICK y : y = i + d
        OBVIOUS
      <4>3. slots[y].l = slots[1].l + (y - 1) /\ slots[1].l \in Nat
        BY <1>7, <4>1, <4>2, SlotOf
      <4>4. a = slots[1].l + d
        BY <2>1, <4>1
      <4>5. slots'[i].l = slots[1].l + (y - 1)
        BY <4>1, <4>2, <4>3
      <4>6. i \in Nat
        BY <1>9
      <4> QED BY <1>2, <4>2, <4>3, <4>4, <4>5, <4>6
    <3>2. CASE i = Len(slots')
      <4>1. CASE at = 0
        <5>1. d = 0 /\ i = 1 /\ new.l = 0
          BY <1>2, <1>7, <1>8, <1>9, <3>2, <4>1
        <5> QED BY <1>2, <2>1, <3>2, <4>1, <5>1
      <4>2. CASE at # 0
        <5>1. new.l = slots[at].l + 1 /\ at \in 1..at
          BY <1>2, <1>7, <4>2
        <5>2. a = slots[1].l + d /\ slots'[i].l = slots[at].l + 1
          BY <1>2, <2>1, <3>2, <4>2, <5>1
        <5>3. i = at - d + 1
          BY <1>9, <3>2
        <5>4. PICK u, m, v : u = slots[1].l /\ m = at /\ v = slots[at].l
          OBVIOUS
        <5>5. u \in Nat /\ m \in Nat /\ d \in Nat /\ v = u + (m - 1) /\ i = m - d + 1 /\ a = u + d
          BY <1>2, <1>7, <5>1, <5>2, <5>3, <5>4, SlotOf
        <5> QED BY <5>2, <5>4, <5>5
      <4> QED BY <4>1, <4>2
    <3> QED BY <3>1, <3>2
  <2>3. slots'[1].l = a
    BY <1>2, <1>7, <1>9, <2>1, <2>2, SlotOf
  <2> QED BY <1>9, <2>2, <2>3
<1>12. FirstOf(slots'[1].l) <= floor' /\ floor' \in Nat /\ floor <= floor' /\ (floor <= end => floor' <= end)
  <2>1. CASE at = 0
    <3>1. d = 0 /\ slots'[1] = new /\ new.l = 0
      BY <1>2, <1>7, <1>8, <1>9, <2>1
    <3> QED BY <1>4, <1>7, <3>1, FirstOfIs
  <2>2. CASE at # 0 /\ d = 0
    BY <1>2, <1>4, <1>7, <2>2 DEF SlotsOk
  <2>3. CASE d = 1
    <3>1. slots'[1] = slots[2] /\ 1 \in 1..at /\ 2 \in 1..at /\ at \in 1..at
      BY <1>2, <1>7, <1>8, <2>3
    <3>2. slots[2].l = slots[1].l + (2 - 1) /\ slots[1].l \in Nat /\ slots[at].l = slots[1].l + (at - 1) /\ slots[at].l \in Nat
      BY <1>7, <3>1, SlotOf
    <3>3. slots'[1].l = slots[1].l + 1
      BY <3>1, <3>2
    <3>4. PICK b : b = FirstOf(slots[1].l + 1)
      OBVIOUS
    <3>5. b \in Nat /\ b <= end
      <4>1. slots[1].l + 1 \in Nat /\ slots[at].l + 1 \in Nat /\ slots[1].l + 1 < slots[at].l + 1
        <5>1. PICK u, v : u = slots[1].l /\ v = slots[at].l
          OBVIOUS
        <5>2. u \in Nat /\ v = u + (at - 1) /\ at > 1 /\ at \in Nat
          BY <1>7, <1>8, <2>3, <3>2, <5>1
        <5>3. u + 1 \in Nat /\ v + 1 \in Nat /\ u + 1 < v + 1
          BY <5>2
        <5> QED BY <5>1, <5>3
      <4>2. b + SlotSamples <= FirstOf(slots[at].l + 1)
        BY <3>4, <4>1, FirstOfIs
      <4>3. b \in Nat
        BY <3>4, <4>1, FirstOfIs
      <4>4. b + SlotSamples <= end
        BY <1>6, <1>7, <3>1, <4>2
      <4> QED BY <1>7, <4>3, <4>4, Sizes
    <3>6. floor' \in {floor, b} /\ b <= floor' /\ floor <= floor'
      BY <1>4, <2>3, <3>4
    <3> QED BY <1>7, <3>3, <3>4, <3>5, <3>6
  <2> QED BY <1>2, <2>1, <2>2, <2>3
<1>13. SlotInv'
  <2>1. ASSUME NEW i \in 1..Len(slots')
        PROVE  /\ Len(slots'[i].crc) = slots'[i].sealed /\ slots'[i].sealed <= slots'[i].n
               /\ i < Len(slots') => slots'[i].n = SlotSamples /\ slots'[i].sealed = SlotSamples
    <3>1. CASE i # Len(slots')
      <4>1. slots'[i] = slots[i + d] /\ i + d \in 1..at
        BY <1>2, <1>10, <3>1
      <4>2. /\ Len(slots[i + d].crc) = slots[i + d].sealed /\ slots[i + d].sealed <= slots[i + d].n
            /\ slots[i + d].n \in Nat /\ slots[i + d].n <= SlotSamples
            /\ i + d < at => slots[i + d].n = SlotSamples /\ slots[i + d].sealed = SlotSamples
        BY <1>7, <4>1, SlotOf
      <4> QED BY <1>6, <1>7, <4>1, <4>2, Sizes
    <3>2. CASE i = Len(slots')
      BY <1>2, <1>9, <3>2
    <3> QED BY <3>1, <3>2
  <2>2. ASSUME NEW i \in 1..Len(slots'), NEW j \in 1..Len(slots'), slots'[i].pos = slots'[j].pos
        PROVE  i = j
    <3>1. CASE i # Len(slots') /\ j # Len(slots')
      <4>1. slots'[i] = slots[i + d] /\ i + d \in 1..at /\ slots'[j] = slots[j + d] /\ j + d \in 1..at
        BY <1>2, <1>10, <3>1
      <4>2. i + d = j + d
        BY <1>7, <2>2, <4>1, SlotNumbers
      <4> QED BY <1>2, <4>2
    <3>2. CASE i # Len(slots') /\ j = Len(slots')
      <4>1. slots'[i] = slots[i + d] /\ i + d \in (d + 1)..at /\ slots'[j] = new
        BY <1>2, <1>7, <1>10, <3>2
      <4> QED BY <1>2, <2>2, <4>1
    <3>3. CASE i = Len(slots') /\ j # Len(slots')
      <4>1. slots'[j] = slots[j + d] /\ j + d \in (d + 1)..at /\ slots'[i] = new
        BY <1>2, <1>7, <1>10, <3>3
      <4> QED BY <1>2, <2>2, <4>1
    <3> QED BY <3>1, <3>2, <3>3
  <2>3. end' = FirstOf(slots'[Len(slots')].l) + slots'[Len(slots')].n
    BY <1>2, <1>3, <1>7
  <2>4. SlotsOk(slots', floor', end')
    BY <1>2, <1>9, <1>11, <1>12, <2>1, <2>2, <2>3 DEF SlotsOk
  <2> QED BY <1>3, <2>4 DEF SlotInv
<1>14. Settled' = at - d /\ (Settled' = 0 <=> Settled = 0) /\ (Settled' > 0 => slots'[Settled'] = slots[Settled] /\ Settled > 0)
  BY <1>2, <1>5, <1>6, <1>7, <1>8 DEF Settled
<1>15. SealedEnd' = SealedEnd /\ Settled' \in Nat /\ SealedEnd \in Nat
  BY <1>2, <1>6, <1>7, <1>8, <1>14, SettledIs DEF Inv, SealedEnd
<1>16. Narrowed(segments, segments') /\ SegInv'
  <2>1. CASE d = 0
    <3>1. ASSUME NEW i \in 1..Len(segments) PROVE segments[i].log <= segments[i].log
      <4>1. segments[i].log \in Nat
        BY <1>7, SegmentOf
      <4> QED BY <4>1
    <3>2. Narrowed(segments, segments')
      BY <1>4, <1>7, <2>1, <3>1 DEF Narrowed
    <3> QED BY <1>3, <1>4, <1>5, <2>1, <3>2 DEF Inv, SegInv
  <2>2. CASE d = 1
    <3>1. Trimmed(segments, floor', open, segments')
      BY <1>4, <1>7, <1>12, <2>2, TrimChained DEF Inv, TypeInv
    <3>2. SegsOk(segments', floor', end')
      BY <1>3, <1>4, <1>7, <1>12, <2>2, TrimCovers DEF Inv, TypeInv
    <3>3. segments' # <<>> /\ EndIndex(segments'[Len(segments')]) = stream
      BY <1>6, <3>1 DEF Trimmed, Inv, SegInv
    <3>4. Narrowed(segments, segments')
      BY <3>1, <3>2 DEF SegsOk, Chained, Trimmed, Narrowed
    <3> QED BY <1>5, <3>2, <3>3, <3>4 DEF SegInv
  <2> QED BY <1>2, <2>1, <2>2
<1>17. PersistInv'
  BY <1>5, <1>15, <1>16, NarrowedPersist DEF Inv
<1>18. CurInv'
  BY <1>5, <1>6, <1>14, <1>15 DEF Inv, CurInv
<1>19. TypeInv'
  BY <1>3, <1>5, <1>7, <1>12, StepsAre DEF Inv, TypeInv
<1>20. StepInv'
  <2>1. Len(slots') = 1 => end' = 0
    <3> SUFFICES ASSUME Len(slots') = 1 PROVE end' = 0
      OBVIOUS
    <3>1. at = 0
      BY <1>2, <1>7, <1>8, <1>9
    <3> QED BY <1>3, <1>6, <1>7, <3>1
  <2> QED BY <1>2, <1>3, <1>5, <1>9, <2>1, StepsDiffer DEF StepInv
<1>21. JournalInv'
  BY <1>5, JournalStays DEF Inv
<1>22. FloorInv'
  <2>1. ASSUME "lost" \notin Faults PROVE floor' <= end' /\ journal'.floor <= floor' /\ journal'.floor <= SealedEnd'
    <3>1. floor <= end /\ journal.floor <= floor /\ journal.floor <= SealedEnd /\ journal.floor \in Nat
      BY <2>1 DEF Inv, FloorInv, JournalInv, JournalOk, JournalType
    <3> QED BY <1>3, <1>5, <1>7, <1>12, <1>15, <3>1
  <2> QED BY <2>1 DEF FloorInv
<1>23. LinkInv'
  <2>1. ASSUME NEW x \in 1..Settled' PROVE [slots'[x] EXCEPT !.n = slots'[x].sealed] \in journal.slots
    <3>1. slots'[x] = slots[x + d] /\ x + d \in 1..Settled
      BY <1>2, <1>6, <1>7, <1>14
    <3> QED BY <3>1 DEF Inv, LinkInv
  <2>2. ASSUME NEW s \in journal.slots
        PROVE  /\ Settled' > 0 /\ s.l <= slots'[Settled'].l
               /\ s.l < slots'[1].l => FirstOf(s.l + 1) <= floor' /\ s.l + 1 = slots'[1].l
    <3>1. /\ Settled > 0 /\ s.l <= slots[Settled].l
          /\ s.l < slots[1].l => FirstOf(s.l + 1) <= floor /\ s.l + 1 = slots[1].l
      BY DEF Inv, LinkInv
    <3>2. Settled' > 0
      BY <1>14, <1>15, <3>1
    <3>3. s \in SlotRec /\ s.l \in Nat /\ s.pos \in Positions
      BY DEF Inv, JournalInv, JournalOk, JournalType, SlotRec
    <3>4. 1 \in 1..(at - d) /\ slots'[1] = slots[1 + d] /\ 1 \in 1..at /\ 1 + d \in 1..at
      BY <1>2, <1>7, <1>14, <3>2
    <3>5. CASE d = 0
      BY <1>4, <1>14, <3>1, <3>2, <3>4, <3>5
    <3>6. CASE d = 1
      <4>1. slots'[1].l = slots[1].l + 1 /\ slots[1].l \in Nat
        BY <1>7, <3>4, <3>6, SlotOf
      <4>2. ~(s.l < slots[1].l)
        <5>1. PICK x \in 1..at : slots[x].pos = s.pos
          BY <1>4, <1>7, <3>3, <3>6
        <5>2. PICK t : t = [slots[x] EXCEPT !.n = slots[x].sealed]
          OBVIOUS
        <5>3. t \in journal.slots
          BY <1>6, <5>1, <5>2 DEF Inv, LinkInv
        <5>4. slots[x] \in SlotRec /\ slots[x].l = slots[1].l + (x - 1)
          BY <1>7, <5>1, SlotOf
        <5>5. t.pos = s.pos /\ t.l = slots[x].l
          BY <5>1, <5>2, <5>4 DEF SlotRec
        <5>6. s = t
          BY <5>3, <5>5 DEF Inv, JournalInv, JournalOk, JournalSlots
        <5> QED BY <3>3, <4>1, <5>1, <5>4, <5>5, <5>6
      <4>3. FirstOf(slots[1].l + 1) <= floor'
        BY <1>4, <3>6
      <4> QED BY <1>14, <3>1, <3>2, <3>3, <4>1, <4>2, <4>3
    <3> QED BY <1>2, <3>5, <3>6
  <2>3. ASSUME NEW g \in journal.segs, NEW i \in 1..Len(segments'),
               segments'[i].start < g.start, g.start < LogEnd(segments'[i])
        PROVE  FALSE
    BY <1>16, <2>3 DEF Narrowed, Inv, LinkInv
  <2> QED BY <1>5, <1>15, <2>1, <2>2, <2>3 DEF LinkInv, Inv
<1>24. ValueInv'
  <2> SUFFICES ASSUME NEW x \in 1..Len(slots'), NEW i \in 1..Len(segments'), NEW k \in 0..(slots'[x].n - 1),
                      segments'[i].log <= FirstOf(slots'[x].l) + k, FirstOf(slots'[x].l) + k < LogEnd(segments'[i])
               PROVE  ring'[<<slots'[x].pos, k>>] = IndexAt(segments'[i], FirstOf(slots'[x].l) + k)
    BY DEF ValueInv, ValuesOk
  <2>1. slots'[x] = slots[x + d] /\ x + d \in 1..at
    BY <1>2, <1>10
  <2>2. PICK h \in 1..Len(segments) :
         /\ segments'[i].start = segments[h].start /\ segments'[i].first = segments[h].first
         /\ LogEnd(segments'[i]) = LogEnd(segments[h]) /\ segments[h].log <= segments'[i].log
    BY <1>16 DEF Narrowed
  <2>3. PICK p : p = FirstOf(slots[x + d].l) + k
    OBVIOUS
  <2>4. segments[h].log <= p
    <3>1. p \in Nat
      <4>1. FirstOf(slots[x + d].l) \in Nat /\ slots[x + d].n \in Nat
        BY <1>7, <2>1, SlotOf
      <4>2. PICK a : a = FirstOf(slots[x + d].l)
        OBVIOUS
      <4>3. k \in Nat
        BY <2>1, <4>1
      <4>4. a \in Nat /\ p = a + k
        BY <2>3, <4>1, <4>2
      <4> QED BY <4>3, <4>4
    <3>2. segments[h].log \in Nat
      BY <1>7, SegmentOf
    <3>3. segments'[i].log \in Nat
      BY <1>16, SegmentOf DEF Narrowed
    <3>4. segments'[i].log <= p
      BY <2>1, <2>3
    <3> QED BY <2>2, <3>1, <3>2, <3>3, <3>4
  <2>5. ring[<<slots[x + d].pos, k>>] = IndexAt(segments[h], p)
    BY <2>1, <2>2, <2>3, <2>4 DEF Inv, ValueInv, ValuesOk
  <2> QED BY <1>5, <2>1, <2>2, <2>3, <2>5 DEF IndexAt
<1> QED BY <1>13, <1>16, <1>17, <1>18, <1>19, <1>20, <1>21, <1>22, <1>23, <1>24 DEF Inv

-----------------------------------------------------------------------------
(* The record of the next slot *)

Record(s) == [s EXCEPT !.n = s.sealed]

LEMMA RecordIs ==
  ASSUME NEW s \in SlotRec
  PROVE  /\ Record(s) \in SlotRec /\ Record(s).l = s.l /\ Record(s).pos = s.pos /\ Record(s).n = s.sealed
         /\ Record(s).sealed = s.sealed /\ Record(s).crc = s.crc
BY DEF Record, SlotRec

LEMMA SlotRecIs ==
  ASSUME NEW s \in SlotRec
  PROVE  /\ s.l \in Nat /\ s.pos \in Positions /\ s.n \in Nat /\ s.sealed \in Nat /\ s.n <= SlotSamples
         /\ s.sealed <= SlotSamples /\ s.crc \in Seq(Nat) /\ FirstOf(s.l) \in Nat
<1>1. s.l \in Nat /\ s.pos \in Positions /\ s.n \in 0..SlotSamples /\ s.sealed \in 0..SlotSamples /\ s.crc \in Seq(Nat)
  BY DEF SlotRec
<1>2. FirstOf(s.l) \in Nat
  BY <1>1, FirstOfIs
<1> QED BY <1>1, <1>2, Sizes

(* What the journal knows: the settled slots, and perhaps the one evicted last. *)
LEMMA JournalKnows ==
  ASSUME TypeInv, SlotInv, StepInv, JournalInv, LinkInv, NEW s \in journal.slots
  PROVE  /\ Settled > 0 /\ s \in SlotRec
         /\ \/ \E x \in 1..Settled : s = Record(slots[x])
            \/ /\ s.l + 1 = slots[1].l /\ FirstOf(s.l + 1) <= floor /\ s.sealed = SlotSamples
               /\ \A x \in 1..Settled : s.l < slots[x].l /\ s.pos # slots[x].pos
<1>1. /\ Settled > 0 /\ s.l <= slots[Settled].l
      /\ s.l < slots[1].l => FirstOf(s.l + 1) <= floor /\ s.l + 1 = slots[1].l
  BY DEF LinkInv
<1>2. /\ SlotsOk(slots, floor, end) /\ floor \in Nat /\ end \in Nat /\ Settled \in 1..Len(slots) /\ Len(slots) \in Nat
  BY <1>1, SettledIs DEF SlotInv, TypeInv
<1>3. s \in SlotRec /\ s.l \in Nat
  BY SlotRecIs DEF JournalInv, JournalOk, JournalType
<1>4. \A x \in 1..Settled : /\ slots[x] \in SlotRec /\ slots[x].l = slots[1].l + (x - 1) /\ slots[1].l \in Nat
                            /\ Record(slots[x]) \in journal.slots
  BY <1>2, SlotOf DEF LinkInv, Record
<1>5. \A t \in journal.slots : s.l = t.l \/ s.pos = t.pos => s = t
  BY DEF JournalInv, JournalOk, JournalSlots
<1>6. \A t \in journal.slots : s.l < t.l => s.sealed = SlotSamples
  BY DEF JournalInv, JournalOk, JournalSlots
<1>7. PICK a : a = slots[1].l
  OBVIOUS
<1>8. 1 \in 1..Settled /\ Settled \in 1..Settled /\ a \in Nat /\ slots[Settled].l = a + (Settled - 1)
  BY <1>1, <1>2, <1>4, <1>7
<1>9. CASE s.l < a
  <2>1. ASSUME NEW x \in 1..Settled PROVE s.l < slots[x].l /\ s.pos # slots[x].pos
    <3>1. slots[x].l = a + (x - 1) /\ x \in Nat /\ x >= 1
      BY <1>2, <1>4, <1>7
    <3>2. s.l < slots[x].l
      BY <1>3, <1>8, <1>9, <3>1
    <3>3. Record(slots[x]).l = slots[x].l /\ Record(slots[x]).pos = slots[x].pos
      BY <1>4, RecordIs
    <3> QED BY <1>3, <1>4, <1>5, <3>1, <3>2, <3>3
  <2>2. s.sealed = SlotSamples
    BY <1>4, <1>6, <1>7, <1>8, <1>9, RecordIs
  <2> QED BY <1>1, <1>3, <1>7, <1>9, <2>1, <2>2
<1>10. CASE ~(s.l < a)
  <2>1. PICK x : x = s.l - a + 1
    OBVIOUS
  <2>2. x \in 1..Settled /\ s.l = a + (x - 1)
    <3>1. PICK u, m : u = s.l /\ m = Settled
      OBVIOUS
    <3>2. u \in Nat /\ m \in Nat /\ a \in Nat /\ u <= a + (m - 1) /\ ~(u < a) /\ x = u - a + 1
      BY <1>1, <1>2, <1>3, <1>8, <1>10, <2>1, <3>1
    <3>3. x \in 1..m /\ u = a + (x - 1)
      BY <3>2
    <3> QED BY <3>1, <3>3
  <2>3. s = Record(slots[x])
    BY <1>4, <1>5, <1>7, <2>2, RecordIs
  <2> QED BY <1>1, <1>3, <2>2, <2>3
<1> QED BY <1>9, <1>10

(* Between the record of a slot and its end in the journal, all is sealed. *)
LEMMA AtOpen ==
  ASSUME TypeInv, SlotInv, StepInv, pc = <<"open">>
  PROVE  /\ Settled = Len(slots) - 1 /\ Len(slots) \in 1..Len(slots) /\ slots[Len(slots)] \in SlotRec
         /\ slots[Len(slots)] = [l |-> slots[Len(slots)].l, pos |-> slots[Len(slots)].pos, n |-> 0, sealed |-> 0, crc |-> <<>>]
         /\ \A x \in 1..Settled : /\ slots[x].sealed = SlotSamples /\ slots[x].n = SlotSamples
                                  /\ slots[x].pos # slots[Len(slots)].pos
                                  /\ slots[x].l < slots[Len(slots)].l
         /\ Settled > 0 => slots[Len(slots)].l = slots[1].l + Settled
         /\ SealedEnd = end /\ end = FirstOf(slots[Len(slots)].l)
<1> DEFINE at == Len(slots)
<1>1. /\ SlotsOk(slots, floor, end) /\ floor \in Nat /\ end \in Nat /\ slots \in Seq(SlotRec) /\ at \in Nat
      /\ Settled = at - 1 /\ slots # <<>> /\ slots[at].n = 0 /\ (at = 1 => end = 0) /\ (slots = <<>> <=> at = 0)
      /\ Settled \in Nat
  BY SettledIs DEF SlotInv, TypeInv, StepInv
<1>2. at \in 1..at /\ 1 \in 1..at
  BY <1>1
<1>3. /\ slots[at] \in SlotRec /\ slots[at].sealed \in Nat /\ slots[at].sealed <= slots[at].n
      /\ Len(slots[at].crc) = slots[at].sealed /\ slots[at].crc \in Seq(Nat) /\ slots[at].l \in Nat
      /\ slots[at].l = slots[1].l + (at - 1) /\ slots[1].l \in Nat
  BY <1>1, <1>2, SlotOf
<1>4. slots[at] = [l |-> slots[at].l, pos |-> slots[at].pos, n |-> 0, sealed |-> 0, crc |-> <<>>]
  BY <1>1, <1>3 DEF SlotRec
<1>5. ASSUME NEW x \in 1..Settled
      PROVE  /\ slots[x].sealed = SlotSamples /\ slots[x].n = SlotSamples
             /\ slots[x].pos # slots[at].pos /\ slots[x].l < slots[at].l
  <2>1. x \in 1..at /\ x < at
    BY <1>1
  <2>2. slots[x].pos # slots[at].pos
    BY <1>1, <1>2, <2>1, SlotNumbers
  <2>3. slots[x].l < slots[at].l
    BY <1>1, <1>2, <2>1, SlotNumbers
  <2> QED BY <1>1, <2>1, <2>2, <2>3, SlotOf
<1>6. end = FirstOf(slots[at].l)
  <2>1. FirstOf(slots[at].l) \in Nat
    BY <1>3, FirstOfIs
  <2> QED BY <1>1, <2>1 DEF SlotsOk
<1>7. SealedEnd = end
  <2>1. CASE at = 1
    BY <1>1, <2>1 DEF SealedEnd
  <2>2. CASE at # 1
    <3>1. Settled \in 1..at /\ Settled \in 1..Settled /\ Settled > 0 /\ Settled # 0
      BY <1>1, <2>2
    <3>2. slots[Settled].l = slots[1].l + (Settled - 1) /\ slots[Settled].l \in Nat
      BY <1>1, <3>1, SlotOf
    <3>3. slots[at].l = slots[Settled].l + 1
      BY <1>1, <1>3, <3>2
    <3>4. FirstOf(slots[Settled].l + 1) = FirstOf(slots[Settled].l) + SlotSamples
      BY <3>2, FirstOfIs
    <3> QED BY <1>5, <1>6, <3>1, <3>3, <3>4 DEF SealedEnd
  <2> QED BY <2>1, <2>2
<1> QED BY <1>1, <1>2, <1>3, <1>4, <1>5, <1>6, <1>7

LEMMA OpenReplayed ==
  ASSUME Inv, pc = <<"open">>, NEW j, j = Replay(journal, pending)
  PROVE  /\ JournalOk(j) /\ Durable(j.slots, ring, disk, dirty)
         /\ j.floor = journal.floor /\ j.segs = journal.segs
         /\ Record(slots[Len(slots)]) \in j.slots
         /\ \A x \in 1..Settled : Record(slots[x]) \in j.slots
         /\ \A s \in j.slots : s \in journal.slots \/ s = Record(slots[Len(slots)])
<1> DEFINE at == Len(slots)
           new == Record(slots[at])
<1>1. TypeInv /\ SlotInv /\ StepInv /\ JournalInv /\ LinkInv
  BY DEF Inv
<1>2. /\ Settled = at - 1 /\ at \in 1..at /\ slots[at] \in SlotRec
      /\ slots[at] = [l |-> slots[at].l, pos |-> slots[at].pos, n |-> 0, sealed |-> 0, crc |-> <<>>]
      /\ \A x \in 1..Settled : /\ slots[x].sealed = SlotSamples /\ slots[x].n = SlotSamples
                               /\ slots[x].pos # slots[at].pos
                               /\ slots[x].l < slots[at].l
      /\ Settled > 0 => slots[at].l = slots[1].l + Settled
  BY <1>1, AtOpen
<1>3. pending = [segs |-> {}, rec |-> Open(slots[at].l, slots[at].pos)]
  BY <1>1 DEF StepInv
<1>4. /\ new \in SlotRec /\ new.l = slots[at].l /\ new.pos = slots[at].pos /\ new.n = 0 /\ new.sealed = 0 /\ new.crc = <<>>
      /\ new = [l |-> slots[at].l, pos |-> slots[at].pos, n |-> 0, sealed |-> 0, crc |-> <<>>]
  BY <1>2, RecordIs DEF SlotRec
<1> HIDE DEF new
<1>5. PICK J : J = {s \in journal.slots : s.l # slots[at].l /\ s.pos # slots[at].pos} \cup {new}
  OBVIOUS
<1>6. j = [slots |-> J, floor |-> journal.floor, segs |-> journal.segs]
  BY <1>3, <1>4, <1>5 DEF Open, Reopened, Replay
<1>7. j.slots = J /\ j.floor = journal.floor /\ j.segs = journal.segs
  BY <1>6
<1>8. \A s \in journal.slots :
         /\ Settled > 0 /\ s \in SlotRec /\ s.l \in Nat /\ s.l < slots[at].l /\ s.sealed = SlotSamples
         /\ slots[1].l \in Nat /\ s.l + 1 >= slots[1].l
         /\ s.n = s.sealed /\ Len(s.crc) = s.sealed
  <2> TAKE s \in journal.slots
  <2>1. /\ Settled > 0 /\ s \in SlotRec
        /\ \/ \E x \in 1..Settled : s = Record(slots[x])
           \/ /\ s.l + 1 = slots[1].l /\ FirstOf(s.l + 1) <= floor /\ s.sealed = SlotSamples
              /\ \A x \in 1..Settled : s.l < slots[x].l /\ s.pos # slots[x].pos
    BY <1>1, JournalKnows
  <2>2. s.n = s.sealed /\ Len(s.crc) = s.sealed
    BY <1>1 DEF JournalInv, JournalOk, JournalType
  <2>3. s.l \in Nat /\ 1 \in 1..Settled
    BY <1>2, <2>1, SlotRecIs
  <2>4. SlotsOk(slots, floor, end) /\ floor \in Nat /\ end \in Nat
    BY <1>1 DEF SlotInv, TypeInv
  <2>5. slots[1].l \in Nat /\ slots[at].l \in Nat
    BY <1>2, <2>3, <2>4, SlotOf
  <2>6. CASE s.l + 1 = slots[1].l /\ FirstOf(s.l + 1) <= floor /\ s.sealed = SlotSamples
    BY <1>2, <2>1, <2>2, <2>3, <2>5, <2>6
  <2>7. ASSUME NEW x \in 1..Settled, s = Record(slots[x])
        PROVE  s.l < slots[at].l /\ s.sealed = SlotSamples /\ s.l + 1 >= slots[1].l
    <3>1. x \in 1..at
      BY <1>2
    <3>2. slots[x] \in SlotRec /\ slots[x].l = slots[1].l + (x - 1)
      BY <2>4, <3>1, SlotOf
    <3>3. s.l = slots[x].l /\ s.sealed = slots[x].sealed
      BY <2>7, <3>2, RecordIs
    <3> QED BY <1>2, <2>3, <2>5, <3>1, <3>2, <3>3
  <2> QED BY <2>1, <2>2, <2>3, <2>5, <2>6, <2>7
<1>9. \A x \in 1..Settled : Record(slots[x]) \in J /\ Record(slots[x]).l = slots[x].l
  <2> TAKE x \in 1..Settled
  <2>1. Record(slots[x]) \in journal.slots
    BY <1>1 DEF LinkInv, Record
  <2>2. slots[x] \in SlotRec
    <3>1. x \in 1..Len(slots)
      BY <1>2
    <3> QED BY <1>1, <3>1, SlotOf DEF TypeInv, SlotInv
  <2>3. Record(slots[x]).l = slots[x].l /\ Record(slots[x]).pos = slots[x].pos
    BY <2>2, RecordIs
  <2> QED BY <1>2, <1>5, <1>8, <2>1, <2>3
<1>10. JournalType(j)
  BY <1>1, <1>4, <1>5, <1>6, <1>7, <1>8 DEF JournalInv, JournalOk, JournalType
<1>11. JournalSlots(j)
  <2>1. ASSUME NEW s \in J, NEW t \in J
        PROVE  /\ s.l = t.l \/ s.pos = t.pos => s = t
               /\ s.l < t.l => s.sealed = SlotSamples
    BY <1>1, <1>2, <1>4, <1>5, <1>8, SlotRecIs DEF JournalInv, JournalOk, JournalSlots
  <2>2. ASSUME NEW s \in J, NEW t \in J, NEW m \in s.l..t.l PROVE \E u \in J : u.l = m
    <3>1. slots[at].l \in Nat /\ t.l \in Nat /\ t.l <= slots[at].l /\ s.l \in Nat
      BY <1>2, <1>4, <1>5, <1>8, SlotRecIs
    <3>2. m \in Nat /\ s.l <= m /\ m <= slots[at].l
      BY <3>1
    <3>3. CASE m = slots[at].l
      BY <1>4, <1>5, <3>3
    <3>4. CASE m = s.l
      BY <3>4
    <3>5. CASE m # s.l /\ m # slots[at].l
      <4>1. s \in journal.slots
        BY <1>4, <1>5, <3>1, <3>2, <3>5
      <4>2. Settled > 0 /\ s.l + 1 >= slots[1].l /\ slots[1].l \in Nat /\ slots[at].l = slots[1].l + Settled
        BY <1>2, <1>8, <4>1
      <4>3. PICK x : x = m - slots[1].l + 1
        OBVIOUS
      <4>4. Settled \in Nat
        BY <1>2
      <4>5. PICK a : a = slots[1].l
        OBVIOUS
      <4>6. x \in 1..Settled /\ m = a + (x - 1)
        <5>1. PICK u, n, v : u = s.l /\ n = Settled /\ v = slots[at].l
          OBVIOUS
        <5>2. u \in Nat /\ n \in Nat /\ a \in Nat /\ u + 1 >= a /\ v = a + n /\ x = m - a + 1 /\ m \in Nat
              /\ u <= m /\ m <= v /\ m # u /\ m # v
          BY <3>1, <3>2, <3>5, <4>2, <4>3, <4>4, <4>5, <5>1
        <5> QED BY <5>1, <5>2
      <4>7. slots[x].l = a + (x - 1)
        <5>1. x \in 1..Len(slots)
          BY <1>2, <4>6
        <5> QED BY <1>1, <4>5, <5>1, SlotOf DEF SlotInv, TypeInv
      <4> QED BY <1>9, <4>6, <4>7
    <3> QED BY <3>3, <3>4, <3>5
  <2>3. \E s \in J : \A t \in J : t.l <= s.l
    BY <1>2, <1>4, <1>5, <1>8, SlotRecIs
  <2> QED BY <1>7, <2>1, <2>2, <2>3 DEF JournalSlots
<1>12. JournalValues(j) /\ Durable(j.slots, ring, disk, dirty)
  <2>1. JournalValues(journal) /\ Durable(journal.slots, ring, disk, dirty)
    BY <1>1 DEF JournalInv, JournalOk
  <2>2. \A s \in J : s \in journal.slots \/ s.sealed = 0
    BY <1>4, <1>5
  <2>3. Durable(j.slots, ring, disk, dirty)
    <3> SUFFICES ASSUME NEW s \in J, NEW k \in 1..s.sealed
                 PROVE  /\ <<s.pos, k - 1>> \notin dirty
                        /\ ring[<<s.pos, k - 1>>] = s.crc[k] /\ disk[<<s.pos, k - 1>>] = s.crc[k]
      BY <1>7 DEF Durable
    <3>1. s \in journal.slots
      BY <2>2
    <3> QED BY <2>1, <3>1 DEF Durable
  <2> QED BY <1>7, <2>1, <2>2, <2>3 DEF JournalValues
<1>13. new \in J /\ \A s \in J : s \in journal.slots \/ s = new
  BY <1>5
<1> QED BY <1>7, <1>9, <1>10, <1>11, <1>12, <1>13 DEF JournalOk, new

LEMMA OpenedStep ==
  ASSUME Inv, Opened
  PROVE  Inv'
<1> DEFINE at == Len(slots)
<1>1. TypeInv /\ SlotInv /\ StepInv /\ JournalInv /\ LinkInv
  BY DEF Inv
<1>2. /\ pc = <<"open">> /\ pc' = <<"write">> /\ journal' = Replay(journal, pending) /\ pending' = NoRecords
      /\ cur' = [l |-> Last(slots).l, pos |-> Last(slots).pos, crc |-> <<>>, sealed |-> 0]
      /\ UNCHANGED <<rest, slots, free, segments, floor, end, open, ring, disk, dirty, stream>>
  BY DEF Opened, indexVars, ringVars, inputVars
<1>3. /\ Settled = at - 1 /\ at \in 1..at /\ slots[at] \in SlotRec
      /\ slots[at] = [l |-> slots[at].l, pos |-> slots[at].pos, n |-> 0, sealed |-> 0, crc |-> <<>>]
      /\ \A x \in 1..Settled : slots[x].l < slots[at].l
      /\ SealedEnd = end /\ end = FirstOf(slots[at].l)
  BY <1>1, <1>2, AtOpen
<1>4. /\ JournalOk(journal') /\ Durable(journal'.slots, ring, disk, dirty)
      /\ journal'.floor = journal.floor /\ journal'.segs = journal.segs
      /\ Record(slots[at]) \in journal'.slots
      /\ \A x \in 1..Settled : Record(slots[x]) \in journal'.slots
      /\ \A s \in journal'.slots : s \in journal.slots \/ s = Record(slots[at])
  BY <1>2, OpenReplayed
<1>5. at \in Nat /\ at > 0 /\ slots \in Seq(SlotRec) /\ SlotsOk(slots, floor, end) /\ floor \in Nat /\ end \in Nat
  BY <1>1, <1>3, SettledIs DEF SlotInv, TypeInv
<1>6. Settled' = at /\ SealedEnd' = SealedEnd
  BY <1>2, <1>3, <1>5, StepsDiffer, SlotRecIs DEF Settled, SealedEnd
<1>7. SlotInv' /\ ValueInv'
  BY <1>2, SlotStays, ValueStays DEF Inv
<1>8. SegInv'
  BY <1>2 DEF Inv, SegInv
<1>9. JournalInv'
  BY <1>2, <1>4 DEF JournalInv
<1>10. /\ Last(slots) = slots[at] /\ cur'.l = slots[at].l /\ cur'.pos = slots[at].pos /\ cur'.crc = <<>> /\ cur'.sealed = 0
      /\ cur' \in Cursor /\ cur' # None
  BY <1>2, <1>3, <1>5, SlotRecIs, NoneAssumption DEF Last, Positions, Cursor
<1>11. CurInv'
  BY <1>2, <1>3, <1>5, <1>6, <1>10 DEF Working, Inv, CurInv
<1>12. TypeInv'
  BY <1>1, <1>2, <1>10, StepsAre DEF TypeInv
<1>13. StepInv'
  BY <1>2, NothingUnderWay
<1>14. PersistInv'
  BY <1>2, <1>4, <1>6 DEF Inv, PersistInv
<1>15. FloorInv'
  BY <1>2, <1>4, <1>6 DEF Inv, FloorInv
<1>16. LinkInv'
  <2>1. ASSUME NEW x \in 1..at PROVE Record(slots[x]) \in journal'.slots
    BY <1>3, <1>4, <1>5
  <2>2. ASSUME NEW s \in journal'.slots
        PROVE  /\ s.l <= slots[at].l
               /\ s.l < slots[1].l => FirstOf(s.l + 1) <= floor /\ s.l + 1 = slots[1].l
    <3>1. slots[at].l \in Nat /\ slots[1].l \in Nat /\ slots[1].l <= slots[at].l
      BY <1>3, <1>5, SlotOf
    <3>2. CASE s \in journal.slots
      <4>1. /\ Settled > 0 /\ s.l <= slots[Settled].l
            /\ s.l < slots[1].l => FirstOf(s.l + 1) <= floor /\ s.l + 1 = slots[1].l
        BY <1>1, <3>2 DEF LinkInv
      <4>2. Settled \in 1..Settled /\ Settled \in 1..at
        BY <1>3, <1>5, <4>1
      <4>3. slots[Settled].l < slots[at].l /\ slots[Settled].l \in Nat
        BY <1>3, <1>5, <4>2, SlotOf
      <4> QED BY <1>1, <3>1, <3>2, <4>1, <4>3, JournalKnows, SlotRecIs
    <3>3. CASE s = Record(slots[at])
      BY <1>3, <3>1, <3>3, RecordIs
    <3> QED BY <1>4, <3>2, <3>3
  <2>3. \A g \in journal'.segs : g.start < SealedEnd'
    BY <1>1, <1>4, <1>6 DEF LinkInv
  <2>4. \A g \in journal'.segs, i \in 1..Len(segments') :
          ~(segments'[i].start < g.start /\ g.start < LogEnd(segments'[i]))
    BY <1>1, <1>2, <1>4 DEF LinkInv
  <2> QED BY <1>2, <1>5, <1>6, <2>1, <2>2, <2>3, <2>4 DEF LinkInv, Record
<1> QED BY <1>7, <1>8, <1>9, <1>11, <1>12, <1>13, <1>14, <1>15, <1>16 DEF Inv

LEMMA OpenFailsStep ==
  ASSUME Inv, OpenFails
  PROVE  Inv'
<1> DEFINE at == Len(slots)
<1>1. TypeInv /\ SlotInv /\ StepInv /\ JournalInv /\ LinkInv
  BY DEF Inv
<1>2. /\ pc = <<"open">> /\ pc' = <<"idle">> /\ pending' = NoRecords
      /\ slots' = Front(slots) /\ free' = free \cup {Last(slots).pos}
      /\ rest' = 0 /\ stream' = stream + rest /\ open' = FALSE
      /\ UNCHANGED <<journal, cur, ring, disk, dirty, segments, floor, end>>
  BY DEF OpenFails, Fail, ringVars, logVars
<1>3. /\ Settled = at - 1 /\ at \in 1..at /\ slots[at] \in SlotRec
      /\ SealedEnd = end /\ end = FirstOf(slots[at].l)
      /\ \A x \in 1..Settled : slots[x].sealed = SlotSamples /\ slots[x].n = SlotSamples /\ slots[x].pos # slots[at].pos
  BY <1>1, <1>2, AtOpen
<1>4. at \in Nat /\ at > 0 /\ slots \in Seq(SlotRec) /\ SlotsOk(slots, floor, end) /\ floor \in Nat /\ end \in Nat
  BY <1>1, <1>3, SettledIs DEF SlotInv, TypeInv
<1>5. /\ slots' \in Seq(SlotRec) /\ Len(slots') = at - 1 /\ \A x \in 1..(at - 1) : slots'[x] = slots[x]
  BY <1>2, <1>4 DEF Front
<1>6. Settled' = Settled /\ SealedEnd' = SealedEnd
  BY <1>2, <1>3, <1>4, <1>5, StepsDiffer DEF Settled, SealedEnd
<1>7. SlotInv'
  <2>1. \A i \in 1..Len(slots') :
           /\ slots'[i].l = slots'[1].l + (i - 1)
           /\ Len(slots'[i].crc) = slots'[i].sealed /\ slots'[i].sealed <= slots'[i].n
           /\ i < Len(slots') => slots'[i].n = SlotSamples /\ slots'[i].sealed = SlotSamples
    <3> TAKE i \in 1..Len(slots')
    <3>1. i \in 1..at /\ i \in 1..Settled /\ 1 \in 1..(at - 1) /\ slots'[1] = slots[1] /\ slots'[i] = slots[i]
      BY <1>3, <1>4, <1>5
    <3>2. /\ slots[i].l = slots[1].l + (i - 1) /\ Len(slots[i].crc) = slots[i].sealed /\ slots[i].sealed <= slots[i].n
      BY <1>4, <3>1, SlotOf
    <3>3. slots[i].n = SlotSamples /\ slots[i].sealed = SlotSamples
      BY <1>3, <3>1
    <3> QED BY <3>1, <3>2, <3>3
  <2>2. \A i, j \in 1..Len(slots') : slots'[i].pos = slots'[j].pos => i = j
    <3> SUFFICES ASSUME NEW i \in 1..Len(slots'), NEW j \in 1..Len(slots'), slots'[i].pos = slots'[j].pos PROVE i = j
      OBVIOUS
    <3>1. i \in 1..at /\ j \in 1..at /\ slots[i].pos = slots[j].pos
      BY <1>4, <1>5
    <3> QED BY <1>4, <3>1, SlotNumbers
  <2>3. slots' = <<>> => end = 0
    BY <1>1, <1>2, <1>4, <1>5 DEF StepInv
  <2>4. slots' # <<>> => end = FirstOf(slots'[Len(slots')].l) + slots'[Len(slots')].n /\ FirstOf(slots'[1].l) <= floor
    <3> SUFFICES ASSUME slots' # <<>>
                 PROVE  end = FirstOf(slots'[Len(slots')].l) + slots'[Len(slots')].n /\ FirstOf(slots'[1].l) <= floor
      OBVIOUS
    <3>1. at - 1 > 0 /\ at - 1 \in 1..(at - 1) /\ 1 \in 1..(at - 1) /\ at - 1 \in 1..at /\ at - 1 \in 1..Settled
      BY <1>3, <1>4, <1>5
    <3>2. FirstOf(slots[1].l) <= floor
      BY <1>4 DEF SlotsOk
    <3>3. PICK y : y = at - 1
      OBVIOUS
    <3>4. slots[y].l = slots[1].l + (y - 1) /\ slots[at].l = slots[1].l + (at - 1) /\ slots[1].l \in Nat /\ slots[y].l \in Nat
      BY <1>3, <1>4, <3>1, <3>3, SlotOf
    <3>5. slots[at].l = slots[y].l + 1
      BY <1>4, <3>3, <3>4
    <3>6. FirstOf(slots[y].l + 1) = FirstOf(slots[y].l) + SlotSamples
      BY <3>4, FirstOfIs
    <3> QED BY <1>3, <1>5, <3>1, <3>2, <3>3, <3>5, <3>6
  <2>5. SlotsOk(slots', floor, end)
    BY <1>5, <2>1, <2>2, <2>3, <2>4 DEF SlotsOk
  <2>6. free' = Positions \ {slots'[i].pos : i \in 1..Len(slots')}
    <3>1. free = Positions \ {slots[i].pos : i \in 1..at}
      BY <1>1 DEF SlotInv
    <3>2. ASSUME NEW q \in Positions
          PROVE  q \in {slots'[i].pos : i \in 1..Len(slots')} <=> q # slots[at].pos /\ q \in {slots[i].pos : i \in 1..at}
      <4>1. ASSUME NEW i \in 1..Len(slots'), q = slots'[i].pos
            PROVE  q # slots[at].pos /\ q \in {slots[j].pos : j \in 1..at}
        BY <1>3, <1>4, <1>5, <4>1
      <4>2. ASSUME NEW j \in 1..at, q = slots[j].pos, q # slots[at].pos
            PROVE  q \in {slots'[i].pos : i \in 1..Len(slots')}
        BY <1>4, <1>5, <4>2
      <4> QED BY <4>1, <4>2
    <3> QED BY <1>2, <1>3, <1>4, <3>1, <3>2, SlotRecIs DEF Last
  <2> QED BY <1>2, <2>5, <2>6 DEF SlotInv
<1>8. ValueInv'
  <2> SUFFICES ASSUME NEW x \in 1..Len(slots'), NEW i \in 1..Len(segments), NEW k \in 0..(slots'[x].n - 1),
                      segments[i].log <= FirstOf(slots'[x].l) + k, FirstOf(slots'[x].l) + k < LogEnd(segments[i])
               PROVE  ring[<<slots'[x].pos, k>>] = IndexAt(segments[i], FirstOf(slots'[x].l) + k)
    BY <1>2 DEF ValueInv, ValuesOk
  <2>1. x \in 1..at /\ slots'[x] = slots[x]
    BY <1>4, <1>5
  <2> QED BY <2>1 DEF Inv, ValueInv, ValuesOk
<1>9. PersistInv' /\ FloorInv' /\ JournalInv'
  BY <1>2, <1>6, PersistStays, FloorStays, JournalStays DEF Inv
<1>10. SegInv'
  BY <1>2 DEF Inv, SegInv
<1>11. StepInv'
  BY <1>2, NothingUnderWay
<1>12. TypeInv'
  <2>1. stream + rest \in Nat
    BY <1>1 DEF TypeInv
  <2> QED BY <1>1, <1>2, <2>1, StepsAre DEF TypeInv
<1>13. Settled > 0 => slots'[Settled] = slots[Settled] /\ slots'[1] = slots[1]
  BY <1>3, <1>4, <1>5
<1>14. CurInv'
  <2>1. cur = None => Settled = 0 \/ slots'[Settled].sealed = SlotSamples
    <3>1. cur = None => Settled = 0 \/ slots[Settled].sealed = SlotSamples
      BY DEF Inv, CurInv
    <3>2. Settled = 0 \/ Settled > 0
      BY <1>3, <1>4
    <3> QED BY <1>13, <3>1, <3>2
  <2>2. cur # None =>
       /\ Settled > 0 /\ cur.l = slots'[Settled].l /\ cur.pos = slots'[Settled].pos
       /\ cur.sealed = slots'[Settled].sealed /\ Len(cur.crc) = slots'[Settled].n
       /\ \A k \in 1..Len(cur.crc) :
            /\ ring[<<cur.pos, k - 1>>] = cur.crc[k]
            /\ <<cur.pos, k - 1>> \in dirty \/ disk[<<cur.pos, k - 1>>] = cur.crc[k]
       /\ \A k \in 1..cur.sealed : cur.crc[k] = slots'[Settled].crc[k]
    BY <1>13 DEF Inv, CurInv
  <2> QED BY <1>2, <1>6, <2>1, <2>2, StepsDiffer DEF CurInv
<1>15. LinkInv'
  BY <1>1, <1>2, <1>3, <1>5, <1>6, <1>13 DEF LinkInv
<1> QED BY <1>7, <1>8, <1>9, <1>10, <1>11, <1>12, <1>14, <1>15 DEF Inv

-----------------------------------------------------------------------------
(* The fsync of a checkpoint *)

(* A log cut at p keeps the segments that begin below it, whole but the last. *)
CutOff(segs, p, c) ==
  /\ Chained(c) /\ Len(c) <= Len(segs)
  /\ \A i \in 1..Len(c) :
       /\ c[i].start = segs[i].start /\ c[i].log = segs[i].log /\ c[i].first = segs[i].first
       /\ c[i].persisted = segs[i].persisted
       /\ c[i].n <= segs[i].n /\ LogEnd(c[i]) <= LogEnd(segs[i])
       /\ segs[i].n > 0 => c[i].n > 0
  /\ c # <<>> => LogEnd(c[Len(c)]) = p
  /\ c = <<>> /\ segs # <<>> => p <= segs[1].log

LEMMA CutIs ==
  ASSUME NEW segs, Chained(segs), NEW p \in Nat, segs # <<>> => p <= LogEnd(segs[Len(segs)]),
         NEW c, c = CutAt(segs, p)
  PROVE  CutOff(segs, p, c)
<1>1. segs \in Seq(SegRec) /\ Len(segs) \in Nat /\ DOMAIN segs = 1..Len(segs) /\ (segs = <<>> <=> Len(segs) = 0)
  BY DEF Chained
<1>2. PICK K : K = {i \in 1..Len(segs) : LogEnd(segs[i]) <= p \/ segs[i].log < p}
  OBVIOUS
<1>3. c = IF K = {} THEN <<>>
          ELSE [i \in 1..Max(K) |-> IF i = Max(K) THEN [segs[i] EXCEPT !.n = Min({@, p - segs[i].log})] ELSE segs[i]]
  BY <1>1, <1>2 DEF CutAt
<1>4. CASE K = {}
  <2>1. c = <<>> /\ Len(c) = 0
    BY <1>3, <1>4
  <2>2. ASSUME segs # <<>> PROVE p <= segs[1].log
    BY <1>1, <1>2, <1>4, <2>2, SegmentOf
  <2> QED BY <1>1, <2>1, <2>2 DEF CutOff, Chained
<1>5. CASE K # {}
  <2>1. PICK m : m = Max(K)
    OBVIOUS
  <2>2. m \in K /\ m \in 1..Len(segs) /\ \A i \in K : i <= m
    <3>1. K \in SUBSET (0..Len(segs))
      BY <1>1, <1>2
    <3>2. Max(K) \in K /\ \A i \in K : i <= Max(K)
      BY <1>1, <1>5, <3>1, MaxIs
    <3> QED BY <1>2, <2>1, <3>2
  <2>3. PICK r : r = [segs[m] EXCEPT !.n = Min({@, p - segs[m].log})]
    OBVIOUS
  <2>4. c = [i \in 1..m |-> IF i = m THEN r ELSE segs[i]]
    BY <1>3, <1>5, <2>1, <2>3
  <2>5. PICK l, n : l = segs[m].log /\ n = segs[m].n
    OBVIOUS
  <2>6. segs[m] \in SegRec /\ l \in Nat /\ n \in Nat /\ LogEnd(segs[m]) = l + n /\ (l + n <= p \/ l < p)
    BY <1>1, <1>2, <2>2, <2>5, SegmentOf
  <2>7. PICK q : q = Min({n, p - l})
    OBVIOUS
  <2>8. q \in Nat /\ q <= n /\ l + q <= p /\ (l + n <= p => q = n) /\ (l + n > p => q = p - l) /\ (n > 0 => q > 0)
    BY <2>6, <2>7, MinOfTwo
  <2>9. /\ r \in SegRec /\ r.start = segs[m].start /\ r.log = l /\ r.first = segs[m].first
        /\ r.persisted = segs[m].persisted /\ r.n = q /\ LogEnd(r) = l + q
    BY <2>3, <2>5, <2>6, <2>7, <2>8 DEF SegRec, LogEnd
  <2>10. /\ c \in Seq(SegRec) /\ Len(c) = m /\ c[m] = r /\ \A i \in 1..m : i # m => c[i] = segs[i]
         /\ c # <<>>
    BY <1>1, <2>2, <2>4, <2>9
  <2>11. LogEnd(r) = p
    <3>1. CASE l + n > p
      BY <2>6, <2>8, <2>9, <3>1
    <3>2. CASE ~(l + n > p)
      <4>1. CASE m = Len(segs)
        BY <1>1, <2>2, <2>6, <2>8, <2>9, <3>2, <4>1
      <4>2. CASE m # Len(segs)
        <5>1. m + 1 \in 1..Len(segs) /\ m < Len(segs)
          <6>1. PICK L : L = Len(segs)
            OBVIOUS
          <6>2. m \in 1..L /\ m # L /\ L \in Nat
            BY <1>1, <2>2, <4>2, <6>1
          <6>3. m + 1 \in 1..L /\ m < L
            BY <6>2
          <6> QED BY <6>1, <6>3
        <5>2. segs[m + 1].log = l + n
          BY <2>2, <2>6, <5>1 DEF Chained
        <5>3. ~(l + n < p)
          BY <1>2, <2>2, <5>1, <5>2
        <5> QED BY <2>6, <2>8, <2>9, <3>2, <5>3
      <4> QED BY <4>1, <4>2
    <3> QED BY <3>1, <3>2
  <2>12. \A i \in 1..Len(c) :
             /\ i \in 1..Len(segs)
             /\ c[i].start = segs[i].start /\ c[i].log = segs[i].log /\ c[i].first = segs[i].first
             /\ c[i].persisted = segs[i].persisted
             /\ c[i].n <= segs[i].n /\ LogEnd(c[i]) <= LogEnd(segs[i])
             /\ segs[i].n > 0 => c[i].n > 0
    <3> TAKE i \in 1..Len(c)
    <3>1. i \in 1..Len(segs)
      BY <1>1, <2>2, <2>10
    <3>2. CASE i = m
      <4>1. LogEnd(c[i]) <= LogEnd(segs[i])
        BY <2>6, <2>8, <2>9, <2>10, <3>2
      <4> QED BY <2>5, <2>8, <2>9, <2>10, <3>1, <3>2, <4>1
    <3>3. CASE i # m
      <4>1. c[i] = segs[i] /\ segs[i].n \in Nat /\ LogEnd(segs[i]) \in Nat
        BY <1>1, <2>10, <3>1, <3>3, SegmentOf
      <4> QED BY <3>1, <4>1
    <3> QED BY <3>2, <3>3
  <2>13. Chained(c)
    BY <1>1, <2>2, <2>10, <2>12 DEF Chained
  <2> QED BY <1>1, <2>2, <2>10, <2>11, <2>12, <2>13 DEF CutOff
<1> QED BY <1>4, <1>5

(* What a checkpoint under way says of the cursor. *)
LEMMA AtSync ==
  ASSUME Inv, cur # None, pc # <<"open">>
  PROVE  /\ Settled = Len(slots) /\ Len(slots) \in Nat /\ Len(slots) \in 1..Len(slots) /\ slots \in Seq(SlotRec)
         /\ slots # <<>> /\ cur \in Cursor /\ cur.pos \in Positions /\ cur.l \in Nat /\ cur.crc \in Seq(Nat)
         /\ cur.l = slots[Len(slots)].l /\ cur.pos = slots[Len(slots)].pos
         /\ cur.sealed = slots[Len(slots)].sealed /\ Len(cur.crc) = slots[Len(slots)].n
         /\ cur.sealed \in Nat /\ Len(cur.crc) \in Nat /\ cur.sealed <= Len(cur.crc) /\ Len(cur.crc) <= SlotSamples
         /\ SealedEnd = FirstOf(cur.l) + cur.sealed /\ end = FirstOf(cur.l) + Len(cur.crc)
         /\ FirstOf(cur.l) \in Nat
         /\ Record(slots[Len(slots)]) \in journal.slots
         /\ Record(slots[Len(slots)]).pos = cur.pos /\ Record(slots[Len(slots)]).sealed = cur.sealed
         /\ \A k \in 1..cur.sealed :
              /\ cur.crc[k] = slots[Len(slots)].crc[k]
              /\ <<cur.pos, k - 1>> \notin dirty /\ disk[<<cur.pos, k - 1>>] = cur.crc[k]
<1> DEFINE at == Len(slots)
<1>1. Settled = at /\ at \in Nat /\ slots \in Seq(SlotRec) /\ (slots = <<>> <=> at = 0)
  BY SettledIs DEF Inv
<1>2. /\ Settled > 0 /\ cur.l = slots[at].l /\ cur.pos = slots[at].pos
      /\ cur.sealed = slots[at].sealed /\ Len(cur.crc) = slots[at].n
      /\ \A k \in 1..cur.sealed : cur.crc[k] = slots[at].crc[k]
  BY <1>1 DEF Inv, CurInv
<1>3. at \in 1..at /\ slots # <<>>
  BY <1>1, <1>2
<1>4. cur \in Cursor /\ cur.crc \in Seq(Nat) /\ Len(cur.crc) \in Nat
  BY DEF Inv, TypeInv, Cursor
<1>5. SlotsOk(slots, floor, end) /\ floor \in Nat /\ end \in Nat
  BY DEF Inv, SlotInv, TypeInv
<1>6. /\ slots[at] \in SlotRec /\ slots[at].l \in Nat /\ slots[at].pos \in Positions /\ slots[at].sealed \in Nat
      /\ slots[at].sealed <= slots[at].n /\ slots[at].n <= SlotSamples /\ FirstOf(slots[at].l) \in Nat
  BY <1>3, <1>5, SlotOf
<1>7. SealedEnd = FirstOf(slots[at].l) + slots[at].sealed /\ end = FirstOf(slots[at].l) + slots[at].n
  BY <1>1, <1>2, <1>3, <1>5, SettledIs DEF Inv, SlotsOk
<1>8. Record(slots[at]) \in journal.slots
  BY <1>1, <1>3 DEF Inv, LinkInv, Record
<1>9. /\ Record(slots[at]).pos = slots[at].pos /\ Record(slots[at]).sealed = slots[at].sealed
      /\ Record(slots[at]).crc = slots[at].crc
  BY <1>6, RecordIs
<1>10. \A k \in 1..cur.sealed : <<cur.pos, k - 1>> \notin dirty /\ disk[<<cur.pos, k - 1>>] = cur.crc[k]
  BY <1>2, <1>8, <1>9 DEF Inv, JournalInv, Durable
<1> QED BY <1>1, <1>2, <1>3, <1>4, <1>5, <1>6, <1>7, <1>8, <1>9, <1>10

LEMMA SyncStep ==
  ASSUME Inv, NEW k \in Reason, Sync(k)
  PROVE  Inv'
<1>1. /\ pc = <<"sync", k>> /\ cur # None /\ pc' = <<"seal", k>>
      /\ disk' = [c \in Cells |-> IF c \in dirty THEN ring[c] ELSE disk[c]]
      /\ dirty' = {}
      /\ pending' = [segs |-> {Segment(segments[i]) : i \in Unpersisted},
                     rec  |-> Sealed(cur.l, Len(cur.crc), cur.crc, floor)]
      /\ UNCHANGED <<ring, journal, cur, rest, slots, free, segments, floor, end, open, stream>>
  BY DEF Sync, NothingToDo, indexVars, inputVars
<1>2. /\ pc # <<"open">> /\ pc' # <<"open">> /\ pc' \in Steps /\ pc' \in Sealing /\ pc' # <<"count">>
      /\ (pc' \in Working => pc \in Working)
  BY <1>1, StepsDiffer, StepsAre DEF Working
<1>3. Settled' = Settled /\ SealedEnd' = SealedEnd
  BY <1>1, <1>2, SettledStays
<1>4. \A c \in Cells : disk'[c] = IF c \in dirty THEN ring[c] ELSE disk[c]
  BY <1>1
<1>5. Settled = Len(slots) /\ cur.pos \in Positions /\ Len(cur.crc) \in Nat /\ Len(cur.crc) <= SlotSamples
  BY <1>1, <1>2, AtSync
<1>6. ASSUME NEW i \in 1..Len(cur.crc)
      PROVE  ring[<<cur.pos, i - 1>>] = cur.crc[i] /\ disk'[<<cur.pos, i - 1>>] = cur.crc[i]
  <2>1. /\ ring[<<cur.pos, i - 1>>] = cur.crc[i]
        /\ <<cur.pos, i - 1>> \in dirty \/ disk[<<cur.pos, i - 1>>] = cur.crc[i]
    BY <1>1 DEF Inv, CurInv
  <2>2. <<cur.pos, i - 1>> \in Cells
    BY <1>5, Sizes DEF Cells
  <2> QED BY <1>4, <2>1, <2>2
<1>7. CurInv'
  BY <1>1, <1>2, <1>3, <1>6 DEF Inv, CurInv
<1>8. StepInv'
  BY <1>1, <1>2, <1>6 DEF Unpersisted, StepInv
<1>9. JournalInv'
  <2> SUFFICES ASSUME NEW s \in journal.slots, NEW i \in 1..s.sealed
               PROVE  ring[<<s.pos, i - 1>>] = s.crc[i] /\ disk'[<<s.pos, i - 1>>] = s.crc[i]
    BY <1>1 DEF Inv, JournalInv, Durable
  <2>1. s.pos \in Positions /\ s.sealed \in Nat /\ s.sealed <= SlotSamples
    BY SlotRecIs DEF Inv, JournalInv, JournalOk, JournalType
  <2>2. <<s.pos, i - 1>> \in Cells
    BY <2>1, Sizes DEF Cells
  <2> QED BY <1>4, <2>2 DEF Inv, JournalInv, Durable
<1>10. TypeInv'
  BY <1>1, <1>2 DEF Inv, TypeInv
<1>11. SlotInv' /\ ValueInv' /\ PersistInv' /\ LinkInv' /\ FloorInv'
  BY <1>1, <1>3, SlotStays, ValueStays, PersistStays, LinkStays, FloorStays DEF Inv
<1>12. SegInv'
  BY <1>1 DEF Inv, SegInv
<1> QED BY <1>7, <1>8, <1>9, <1>10, <1>11, <1>12 DEF Inv

(* The log after a rollback to the last seal. *)
LEMMA CutCovers ==
  ASSUME NEW segs, NEW f \in Nat, NEW e \in Nat, SegsOk(segs, f, e), NEW p \in Nat, p <= e,
         NEW c, CutOff(segs, p, c), NEW h \in Nat, h = IF f <= p THEN f ELSE p
  PROVE  SegsOk(c, h, p)
<1>1. /\ Chained(segs) /\ segs \in Seq(SegRec) /\ Len(segs) \in Nat /\ (segs = <<>> <=> Len(segs) = 0)
      /\ Chained(c) /\ c \in Seq(SegRec) /\ Len(c) \in Nat /\ (c = <<>> <=> Len(c) = 0) /\ Len(c) <= Len(segs)
  BY DEF SegsOk, Chained, CutOff
<1>2. CASE c = <<>>
  BY <1>1, <1>2 DEF SegsOk, CutOff
<1>3. CASE c # <<>>
  <2>1. segs # <<>> /\ 1 \in 1..Len(c) /\ 1 \in 1..Len(segs) /\ Len(c) \in 1..Len(c)
    BY <1>1, <1>3
  <2>2. c[1].log = segs[1].log /\ LogEnd(c[Len(c)]) = p
    BY <1>3, <2>1 DEF CutOff
  <2>3. PICK a : a = c[1].log
    OBVIOUS
  <2>4. a \in Nat /\ a <= p
    <3>1. c[1].log \in Nat /\ LogEnd(c[1]) \in Nat /\ c[1].log <= LogEnd(c[1])
      BY <1>1, <2>1, SegmentOf
    <3>2. CASE Len(c) = 1
      BY <2>2, <2>3, <3>1, <3>2
    <3>3. CASE Len(c) # 1
      <4>1. 1 < Len(c)
        <5>1. PICK L : L = Len(c)
          OBVIOUS
        <5>2. 1 < L
          BY <1>1, <2>1, <3>3, <5>1
        <5> QED BY <5>1, <5>2
      <4>2. LogEnd(c[1]) <= c[Len(c)].start /\ c[Len(c)].log = c[Len(c)].start
        BY <1>1, <2>1, <4>1 DEF Chained
      <4>3. c[Len(c)].log \in Nat /\ c[Len(c)].log <= LogEnd(c[Len(c)])
        BY <1>1, <2>1, SegmentOf
      <4> QED BY <2>2, <2>3, <3>1, <4>2, <4>3
    <3> QED BY <3>2, <3>3
  <2>5. (h <= p => a = h) /\ (p <= h => a = p)
    BY <2>1, <2>2, <2>3, <2>4 DEF SegsOk
  <2> QED BY <1>1, <1>3, <2>2, <2>3, <2>5 DEF SegsOk
<1> QED BY <1>2, <1>3

(* The rollback, as facts; nothing of it happens when all that was written is sealed. *)
RolledBack ==
  LET p == SealedEnd IN
  /\ slots' = [slots EXCEPT ![Len(slots)].n = cur.sealed]
  /\ cur' = [cur EXCEPT !.crc = SubSeq(@, 1, cur.sealed)]
  /\ end' = p /\ floor' = (IF floor <= p THEN floor ELSE p)
  /\ CutOff(segments, p, segments')

LEMMA PoisonIs ==
  ASSUME Inv, cur # None, pc # <<"open">>, Poison
  PROVE  \/ Len(cur.crc) = cur.sealed /\ UNCHANGED <<slots, cur, segments, floor, end>>
         \/ RolledBack
<1>1. CASE Len(cur.crc) = cur.sealed
  BY <1>1 DEF Poison, logVars
<1>2. CASE Len(cur.crc) # cur.sealed
  <2>1. PICK p : p = FirstOf(cur.l) + cur.sealed
    OBVIOUS
  <2>2. /\ p = SealedEnd /\ p \in Nat /\ p <= end
    BY <2>1, AtSync, SettledIs DEF Inv
  <2>3. /\ slots' = [slots EXCEPT ![Len(slots)].n = cur.sealed]
        /\ cur' = [cur EXCEPT !.crc = SubSeq(@, 1, cur.sealed)]
        /\ end' = Min({end, p}) /\ floor' = Min({floor, p}) /\ segments' = CutAt(segments, p)
    BY <1>2, <2>1 DEF Poison
  <2>4. floor \in Nat /\ end \in Nat /\ SegsOk(segments, floor, end)
    BY DEF Inv, TypeInv, SegInv
  <2>5. end' = p
    BY <2>2, <2>3, <2>4, MinOfTwo
  <2>6. CutOff(segments, p, segments')
    BY <2>2, <2>3, <2>4, CutIs DEF SegsOk
  <2> QED BY <2>2, <2>3, <2>4, <2>5, <2>6, MinOfTwo DEF RolledBack
<1> QED BY <1>1, <1>2

LEMMA SyncFailsStep ==
  ASSUME Inv, NEW k \in Reason, SyncFails(k)
  PROVE  Inv'
<1> DEFINE at == Len(slots)
<1>1. /\ pc = <<"sync", k>> /\ cur # None /\ pc' = <<"idle">> /\ open' = FALSE /\ dirty' = {}
      /\ (stream' = stream + rest \/ stream' = stream) /\ (rest' = 0 \/ rest' = rest)
      /\ Poison
      /\ UNCHANGED <<ring, journal, pending, free>>
  BY DEF SyncFails, NothingToDo, FailUnlessEnd, Fail
<1>2. PICK reached \in SUBSET dirty : disk' = [c \in Cells |-> IF c \in reached THEN ring[c] ELSE disk[c]]
  BY DEF SyncFails
<1>3. pc # <<"open">> /\ pc' # <<"open">> /\ pc' \notin Working /\ pc' \in Steps /\ pending = NoRecords
  BY <1>1, StepsDiffer, StepsAre DEF Inv, StepInv
<1>4. /\ Settled = at /\ at \in Nat /\ at \in 1..at /\ slots \in Seq(SlotRec)
      /\ slots # <<>> /\ cur \in Cursor /\ cur.pos \in Positions /\ cur.l \in Nat /\ cur.crc \in Seq(Nat)
      /\ cur.l = slots[at].l /\ cur.pos = slots[at].pos
      /\ cur.sealed = slots[at].sealed /\ Len(cur.crc) = slots[at].n
      /\ cur.sealed \in Nat /\ Len(cur.crc) \in Nat /\ cur.sealed <= Len(cur.crc) /\ Len(cur.crc) <= SlotSamples
      /\ SealedEnd = FirstOf(cur.l) + cur.sealed /\ end = FirstOf(cur.l) + Len(cur.crc)
      /\ FirstOf(cur.l) \in Nat
  BY <1>1, <1>3, AtSync
<1>5. \A i \in 1..cur.sealed : cur.crc[i] = slots[at].crc[i] /\ <<cur.pos, i - 1>> \notin dirty /\ disk[<<cur.pos, i - 1>>] = cur.crc[i]
  BY <1>1, <1>3, AtSync
<1>6. \A c \in Cells : c \notin dirty => disk'[c] = disk[c]
  BY <1>2
<1>7. JournalInv'
  <2> SUFFICES ASSUME NEW s \in journal.slots, NEW i \in 1..s.sealed
               PROVE  ring[<<s.pos, i - 1>>] = s.crc[i] /\ disk'[<<s.pos, i - 1>>] = s.crc[i]
    BY <1>1 DEF Inv, JournalInv, Durable
  <2>1. s.pos \in Positions /\ s.sealed \in Nat /\ s.sealed <= SlotSamples
    BY SlotRecIs DEF Inv, JournalInv, JournalOk, JournalType
  <2>2. <<s.pos, i - 1>> \in Cells
    BY <2>1, Sizes DEF Cells
  <2> QED BY <1>6, <2>2 DEF Inv, JournalInv, Durable
<1>8. StepInv'
  BY <1>1, <1>3, NothingUnderWay
<1>9. \A i \in 1..cur.sealed : ring'[<<cur.pos, i - 1>>] = cur.crc[i] /\ disk'[<<cur.pos, i - 1>>] = cur.crc[i]
  <2> TAKE i \in 1..cur.sealed
  <2>1. i - 1 \in 0..(SlotSamples - 1) /\ i \in 1..Len(cur.crc)
    <3>1. PICK u, v : u = cur.sealed /\ v = Len(cur.crc)
      OBVIOUS
    <3>2. u \in Nat /\ v \in Nat /\ u <= v /\ v <= SlotSamples /\ SlotSamples \in Nat /\ i \in 1..u
      BY <1>4, <3>1, Sizes
    <3>3. i - 1 \in 0..(SlotSamples - 1) /\ i \in 1..v
      BY <3>2
    <3> QED BY <3>1, <3>3
  <2>2. ring[<<cur.pos, i - 1>>] = cur.crc[i]
    BY <1>1, <2>1 DEF Inv, CurInv
  <2> QED BY <1>1, <1>4, <1>5, <1>6, <2>1, <2>2 DEF Cells
<1>10. floor \in Nat /\ end \in Nat /\ SealedEnd \in Nat /\ SealedEnd <= end /\ stream' \in Nat /\ rest' \in Nat
       /\ SlotsOk(slots, floor, end) /\ SegsOk(segments, floor, end) /\ free = Positions \ {slots[i].pos : i \in 1..at}
  BY <1>1, SettledIs DEF Inv, TypeInv, SlotInv, SegInv
<1>11. CASE Len(cur.crc) = cur.sealed /\ UNCHANGED <<slots, cur, segments, floor, end>>
  <2>1. Settled' = Settled /\ SealedEnd' = SealedEnd
    BY <1>3, <1>11, SettledStays
  <2>2. TypeInv'
    BY <1>1, <1>3, <1>10, <1>11 DEF Inv, TypeInv
  <2>3. SlotInv' /\ ValueInv' /\ PersistInv' /\ LinkInv' /\ FloorInv'
    BY <1>1, <1>11, <2>1, SlotStays, ValueStays, PersistStays, LinkStays, FloorStays DEF Inv
  <2>4. SegInv'
    BY <1>1, <1>11 DEF Inv, SegInv
  <2>5. CurInv'
    BY <1>1, <1>3, <1>9, <1>11, <2>1 DEF Inv, CurInv
  <2> QED BY <1>7, <1>8, <2>2, <2>3, <2>4, <2>5 DEF Inv
<1>12. CASE RolledBack
  <2>1. PICK p : p = SealedEnd
    OBVIOUS
  <2>2. /\ slots' = [slots EXCEPT ![at].n = cur.sealed]
        /\ cur' = [cur EXCEPT !.crc = SubSeq(@, 1, cur.sealed)]
        /\ end' = p /\ floor' = (IF floor <= p THEN floor ELSE p)
        /\ CutOff(segments, p, segments')
    BY <1>12, <2>1 DEF RolledBack
  <2>3. floor' \in Nat /\ end' \in Nat /\ floor' <= floor /\ floor' <= end'
    BY <1>10, <2>1, <2>2
  <2>4. /\ slots' \in Seq(SlotRec) /\ Len(slots') = at /\ slots' # <<>>
        /\ \A i \in 1..at :
             /\ slots'[i].l = slots[i].l /\ slots'[i].pos = slots[i].pos
             /\ slots'[i].sealed = slots[i].sealed /\ slots'[i].crc = slots[i].crc
             /\ [slots'[i] EXCEPT !.n = slots'[i].sealed] = [slots[i] EXCEPT !.n = slots[i].sealed]
             /\ i # at => slots'[i].n = slots[i].n
        /\ slots'[at].n = cur.sealed
    <3>1. PICK m : m = cur.sealed
      OBVIOUS
    <3>2. m \in 0..SlotSamples
      BY SMTT(40), <1>4, <3>1, Sizes
    <3>3. slots' = [slots EXCEPT ![Len(slots)].n = m]
      BY <2>2, <3>1
    <3>4. SlotSet(slots, m, slots')
      BY <1>4, <3>2, <3>3, SlotGrown
    <3> QED BY <3>1, <3>4 DEF SlotSet
  <2>5. Settled' = at /\ SealedEnd' = p
    BY <1>3, <1>4, <2>1, <2>4 DEF Settled, SealedEnd
  <2>6. /\ cur' \in Cursor /\ cur' # None /\ cur'.l = cur.l /\ cur'.pos = cur.pos /\ cur'.sealed = cur.sealed
        /\ Len(cur'.crc) = cur.sealed /\ \A i \in 1..cur.sealed : cur'.crc[i] = cur.crc[i]
    <3>1. PICK q : q = SubSeq(cur.crc, 1, cur.sealed)
      OBVIOUS
    <3>2. q \in Seq(Nat) /\ Len(q) = cur.sealed /\ \A i \in 1..cur.sealed : q[i] = cur.crc[i]
      <4>1. PICK c, m : c = cur.crc /\ m = cur.sealed
        OBVIOUS
      <4>2. c \in Seq(Nat) /\ m \in Nat /\ m <= Len(c)
        BY <1>4, <4>1
      <4>3. SubSeq(c, 1, m) \in Seq(Nat) /\ Len(SubSeq(c, 1, m)) = m /\ \A i \in 1..m : SubSeq(c, 1, m)[i] = c[i]
        BY <4>2
      <4> QED BY <3>1, <4>1, <4>3
    <3>3. cur' \in Cursor /\ cur'.l = cur.l /\ cur'.pos = cur.pos /\ cur'.sealed = cur.sealed /\ cur'.crc = q
      <4>1. cur \in Cursor
        BY <1>4
      <4> HIDE DEF at
      <4> QED BY <2>2, <3>1, <3>2, <4>1 DEF Cursor
    <3> QED BY <3>2, <3>3, NoneAssumption
  <2>7. SlotInv'
    <3>1. \A i \in 1..Len(slots') :
             /\ slots'[i].l = slots'[1].l + (i - 1)
             /\ Len(slots'[i].crc) = slots'[i].sealed /\ slots'[i].sealed <= slots'[i].n
             /\ i < Len(slots') => slots'[i].n = SlotSamples /\ slots'[i].sealed = SlotSamples
      <4> TAKE i \in 1..Len(slots')
      <4>1. i \in 1..at /\ 1 \in 1..at /\ (i < at => i # at)
        BY <1>4, <2>4
      <4>2. /\ slots[i].l = slots[1].l + (i - 1)
            /\ Len(slots[i].crc) = slots[i].sealed /\ slots[i].sealed <= slots[i].n
            /\ i < at => slots[i].n = SlotSamples /\ slots[i].sealed = SlotSamples
        BY <1>10, <4>1, SlotOf
      <4>3. slots'[i].sealed <= slots'[i].n
        <5>1. CASE i # at
          BY <2>4, <4>1, <4>2, <5>1
        <5>2. CASE i = at
          <6>1. slots'[at].sealed = cur.sealed /\ slots'[at].n = cur.sealed
            BY <1>4, <2>4
          <6> QED BY <1>4, <5>2, <6>1
        <5> QED BY <5>1, <5>2
      <4> QED BY <2>4, <4>1, <4>2, <4>3
    <3>2. \A i, j \in 1..Len(slots') : slots'[i].pos = slots'[j].pos => i = j
      <4> SUFFICES ASSUME NEW i \in 1..Len(slots'), NEW j \in 1..Len(slots'), slots'[i].pos = slots'[j].pos
                   PROVE  i = j
        OBVIOUS
      <4>1. i \in 1..at /\ j \in 1..at /\ slots[i].pos = slots[j].pos
        BY <2>4
      <4> QED BY <1>10, <4>1, SlotNumbers
    <3>3. end' = FirstOf(slots'[Len(slots')].l) + slots'[Len(slots')].n
      BY <1>4, <2>1, <2>2, <2>4
    <3>4. FirstOf(slots'[1].l) <= floor'
      <4>1. FirstOf(slots[1].l) <= floor /\ 1 \in 1..at
        BY <1>4, <1>10 DEF SlotsOk
      <4>2. FirstOf(slots[1].l) \in Nat /\ FirstOf(slots[1].l) <= FirstOf(slots[at].l)
        <5>1. FirstOf(slots[1].l) \in Nat /\ FirstOf(slots[at].l) \in Nat
          BY <1>4, <1>10, <4>1, SlotOf
        <5>2. CASE at = 1
          BY <5>1, <5>2
        <5>3. CASE at # 1
          <6>1. 1 < at
            BY <1>4, <5>3
          <6>2. FirstOf(slots[1].l) + SlotSamples <= FirstOf(slots[at].l)
            BY <1>4, <1>10, <4>1, <6>1, SlotNumbers
          <6> QED BY <5>1, <6>2, Sizes
        <5> QED BY <5>2, <5>3
      <4>3. FirstOf(slots[1].l) <= floor'
        BY <1>4, <2>1, <2>2, <4>1, <4>2
      <4> QED BY <2>4, <4>1, <4>3
    <3>5. SlotsOk(slots', floor', end')
      BY <2>4, <3>1, <3>2, <3>3, <3>4 DEF SlotsOk
    <3>6. {slots'[i].pos : i \in 1..Len(slots')} = {slots[i].pos : i \in 1..Len(slots)}
      <4>1. Len(slots') = Len(slots) /\ \A i \in 1..Len(slots) : slots'[i].pos = slots[i].pos
        BY <2>4
      <4> QED BY <4>1
    <3> QED BY <1>1, <1>10, <3>5, <3>6 DEF SlotInv
  <2>8. SegInv'
    BY <1>1, <1>10, <2>1, <2>2, <2>3, CutCovers DEF SegInv
  <2>9. TypeInv'
    BY <1>1, <1>3, <1>10, <2>3, <2>6 DEF TypeInv
  <2>10. CurInv'
    <3>1. /\ Settled' > 0 /\ cur'.l = slots'[Settled'].l /\ cur'.pos = slots'[Settled'].pos
          /\ cur'.sealed = slots'[Settled'].sealed /\ Len(cur'.crc) = slots'[Settled'].n
      <4>1. /\ slots'[at].l = slots[at].l /\ slots'[at].pos = slots[at].pos /\ slots'[at].sealed = slots[at].sealed
            /\ slots'[at].n = cur.sealed
        BY <1>4, <2>4
      <4> QED BY <1>4, <2>5, <2>6, <4>1
    <3>2. \A i \in 1..cur'.sealed : cur'.crc[i] = slots'[Settled'].crc[i]
      BY <1>4, <1>5, <2>4, <2>5, <2>6
    <3> QED BY <1>3, <1>9, <2>6, <3>1, <3>2 DEF CurInv
  <2>11. FloorInv'
    BY <1>1, <2>1, <2>2, <2>3, <2>5 DEF Inv, FloorInv
  <2>12. \A i \in 1..Len(segments') :
            /\ i \in 1..Len(segments)
            /\ segments'[i].start = segments[i].start /\ segments'[i].log = segments[i].log
            /\ segments'[i].first = segments[i].first /\ segments'[i].persisted = segments[i].persisted
            /\ LogEnd(segments'[i]) <= LogEnd(segments[i])
            /\ segments[i].start \in Nat /\ segments[i].log \in Nat /\ LogEnd(segments[i]) \in Nat /\ LogEnd(segments'[i]) \in Nat
    <3> TAKE i \in 1..Len(segments')
    <3>1. segments \in Seq(SegRec) /\ Len(segments) \in Nat /\ segments' \in Seq(SegRec) /\ Len(segments') \in Nat
          /\ Len(segments') <= Len(segments)
      BY <1>10, <2>2 DEF SegsOk, Chained, CutOff
    <3>2. i \in 1..Len(segments)
      BY <3>1
    <3>3. LogEnd(segments'[i]) \in Nat
      BY <3>1, SegmentOf
    <3> QED BY <2>2, <3>1, <3>2, <3>3, SegmentOf DEF CutOff
  <2>13. PersistInv'
    <3> SUFFICES ASSUME NEW i \in 1..Len(segments')
                 PROVE  /\ segments'[i].persisted =>
                             segments'[i].start < SealedEnd /\ Segment(segments'[i]) \in journal.segs
                        /\ ~segments'[i].persisted =>
                             /\ SealedEnd <= segments'[i].log
                             /\ SealedEnd <= segments'[i].start \/ SealedEnd <= journal.floor
                             /\ \A g \in journal.segs : g.start # segments'[i].start
      BY <1>1, <2>1, <2>5 DEF PersistInv
    <3>1. Segment(segments'[i]) = Segment(segments[i])
      BY <2>12 DEF Segment
    <3> QED BY <2>12, <3>1 DEF Inv, PersistInv
  <2>14. ValueInv'
    <3> SUFFICES ASSUME NEW x \in 1..Len(slots'), NEW i \in 1..Len(segments'), NEW m \in 0..(slots'[x].n - 1),
                        segments'[i].log <= FirstOf(slots'[x].l) + m, FirstOf(slots'[x].l) + m < LogEnd(segments'[i])
                 PROVE  ring'[<<slots'[x].pos, m>>] = IndexAt(segments'[i], FirstOf(slots'[x].l) + m)
      BY DEF ValueInv, ValuesOk
    <3>1. x \in 1..at /\ slots'[x].l = slots[x].l /\ slots'[x].pos = slots[x].pos
      BY <2>4
    <3>2. m \in 0..(slots[x].n - 1) /\ m \in Nat
      <4>1. slots[x].n \in Nat /\ slots'[x].n \in Nat
        <5>1. slots'[x] \in SlotRec
          BY <2>4
        <5> QED BY <1>10, <3>1, <5>1, SlotOf, SlotRecIs
      <4>2. slots'[x].n <= slots[x].n
        <5>1. CASE x = at
          BY <1>4, <2>4, <5>1
        <5>2. CASE x # at
          <6>1. slots'[x].n = slots[x].n
            BY <2>4, <3>1, <5>2
          <6> QED BY <4>1, <6>1
        <5> QED BY <5>1, <5>2
      <4> QED BY <4>1, <4>2
    <3>3. PICK q : q = FirstOf(slots[x].l) + m
      OBVIOUS
    <3>4. q \in Nat
      <4>1. FirstOf(slots[x].l) \in Nat
        BY <1>10, <3>1, SlotOf
      <4> QED BY <3>2, <3>3, <4>1
    <3>5. segments[i].log <= q /\ q < LogEnd(segments[i]) /\ i \in 1..Len(segments)
      BY <2>12, <3>1, <3>3, <3>4
    <3>6. ring[<<slots[x].pos, m>>] = IndexAt(segments[i], q)
      BY <3>1, <3>2, <3>3, <3>5 DEF Inv, ValueInv, ValuesOk
    <3> QED BY <1>1, <2>12, <3>1, <3>3, <3>6 DEF IndexAt
  <2>15. LinkInv'
    <3>1. \A x \in 1..at : [slots'[x] EXCEPT !.n = slots'[x].sealed] \in journal.slots
      BY <1>4, <2>4 DEF Inv, LinkInv
    <3>2. ASSUME NEW s \in journal.slots
          PROVE  /\ at > 0 /\ s.l <= slots'[at].l
                 /\ s.l < slots'[1].l => FirstOf(s.l + 1) <= floor' /\ s.l + 1 = slots'[1].l
      <4>1. slots'[1].l = slots[1].l /\ slots'[at].l = slots[at].l
        <5>1. 1 \in 1..at
          BY <1>4
        <5> QED BY <1>4, <2>4, <5>1
      <4>2. FirstOf(slots'[1].l) <= floor'
        BY <2>4, <2>7 DEF SlotInv, SlotsOk
      <4> QED BY <1>4, <4>1, <4>2 DEF Inv, LinkInv
    <3>3. \A g \in journal.segs : g.start < SealedEnd'
      BY <2>1, <2>5 DEF Inv, LinkInv
    <3>4. ASSUME NEW g \in journal.segs, NEW i \in 1..Len(segments'),
                 segments'[i].start < g.start, g.start < LogEnd(segments'[i])
          PROVE  FALSE
      BY <2>12, <3>4 DEF Inv, LinkInv, JournalInv, JournalOk, JournalType, Start
    <3> QED BY <1>1, <2>5, <3>1, <3>2, <3>3, <3>4 DEF LinkInv
  <2> QED BY <1>7, <1>8, <2>7, <2>8, <2>9, <2>10, <2>11, <2>13, <2>14, <2>15 DEF Inv
<1> QED BY <1>1, <1>3, <1>11, <1>12, PoisonIs

-----------------------------------------------------------------------------
(* The seal of a checkpoint *)

(* The values of a function on a finite set are finitely many. *)
LEMMA ImageFinite ==
  ASSUME NEW f, f = [x \in DOMAIN f |-> f[x]], IsFiniteSet(DOMAIN f)
  PROVE  IsFiniteSet({f[x] : x \in DOMAIN f})
<1>1. PICK T : T = {f[x] : x \in DOMAIN f}
  OBVIOUS
<1>2. f \in Surjection(DOMAIN f, T)
  BY <1>1 DEF Surjection
<1> QED BY <1>1, <1>2, FS_Surjection

LEMMA SlotEnds ==
  ASSUME NEW ss, NEW f \in Nat, NEW e \in Nat, SlotsOk(ss, f, e), NEW x \in 1..Len(ss)
  PROVE  FirstOf(ss[x].l) + ss[x].n <= e
<1>1. ss \in Seq(SlotRec) /\ Len(ss) \in Nat /\ ss # <<>> /\ Len(ss) \in 1..Len(ss)
  BY DEF SlotsOk
<1>2. PICK a, n, b, m : a = FirstOf(ss[x].l) /\ n = ss[x].n /\ b = FirstOf(ss[Len(ss)].l) /\ m = ss[Len(ss)].n
  OBVIOUS
<1>3. a \in Nat /\ n \in Nat /\ n <= SlotSamples /\ b \in Nat /\ m \in Nat
  BY <1>1, <1>2, SlotOf
<1>4. e = b + m
  BY <1>1, <1>2 DEF SlotsOk
<1>5. CASE x = Len(ss)
  BY <1>2, <1>3, <1>4, <1>5
<1>6. CASE x # Len(ss)
  <2>1. a + SlotSamples <= b
    BY <1>1, <1>2, <1>6, SlotNumbers
  <2>2. a + n <= e
    BY <1>3, <1>4, <2>1, Sizes
  <2> QED BY <1>2, <2>2
<1> QED BY <1>5, <1>6

(* Segments with samples start at different places. *)
LEMMA StartsDiffer ==
  ASSUME NEW segs, Chained(segs), NEW i \in 1..Len(segs), NEW j \in 1..Len(segs),
         segs[i].n > 0, segs[j].n > 0, segs[i].start = segs[j].start
  PROVE  i = j
<1>1. /\ segs[i].start <= segs[i].log /\ segs[j].start <= segs[j].log
      /\ i < j => LogEnd(segs[i]) <= segs[j].start
      /\ j < i => LogEnd(segs[j]) <= segs[i].start
  BY DEF Chained
<1>2. /\ segs[i].start \in Nat /\ segs[i].log \in Nat /\ segs[i].n \in Nat /\ LogEnd(segs[i]) = segs[i].log + segs[i].n
      /\ segs[j].start \in Nat /\ segs[j].log \in Nat /\ segs[j].n \in Nat /\ LogEnd(segs[j]) = segs[j].log + segs[j].n
  BY SegmentOf DEF Chained
<1>3. ~(i < j) /\ ~(j < i)
  BY <1>1, <1>2
<1> QED BY <1>3

(* A journal that knows the segments above its floor gives every sealed sample the *)
(* segment the index has it in.                                                    *)
LEMMA ValuesFrom ==
  ASSUME NEW ss, NEW f \in Nat, NEW e \in Nat, SlotsOk(ss, f, e), NEW segs, SegsOk(segs, f, e),
         NEW rg, ValuesOk(ss, segs, rg), NEW j, JournalType(j), NEW dk, NEW dt, Durable(j.slots, rg, dk, dt),
         \A s \in j.slots : s.sealed > 0 => f <= j.floor,
         \A s \in j.slots : \/ \E x \in 1..Len(ss) : s.l = ss[x].l /\ s.pos = ss[x].pos /\ s.sealed <= ss[x].n
                            \/ FirstOf(s.l + 1) <= f,
         \A i \in 1..Len(segs) : segs[i].n > 0 => Segment(segs[i]) \in j.segs,
         \A g \in j.segs, i \in 1..Len(segs) : ~(segs[i].start < g.start /\ g.start < LogEnd(segs[i]))
  PROVE  JournalValues(j)
<1> SUFFICES ASSUME NEW s \in j.slots, NEW k \in 1..s.sealed, j.floor <= FirstOf(s.l) + (k - 1)
             PROVE  \E g \in j.segs : /\ g.start <= FirstOf(s.l) + (k - 1)
                        /\ s.crc[k] = g.first + (FirstOf(s.l) + (k - 1) - g.start)
                        /\ \A h \in j.segs : h.start <= FirstOf(s.l) + (k - 1) => h.start <= g.start
  BY DEF JournalValues
<1>1. s \in SlotRec /\ j.floor \in Nat /\ j.segs \subseteq Start
  BY DEF JournalType
<1>2. s.l \in Nat /\ s.sealed \in Nat /\ s.sealed <= SlotSamples /\ FirstOf(s.l) \in Nat
      /\ FirstOf(s.l + 1) = FirstOf(s.l) + SlotSamples
  BY <1>1, SlotRecIs, FirstOfIs
<1>3. PICK p : p = FirstOf(s.l) + (k - 1)
  OBVIOUS
<1>4. p \in Nat /\ k \in Nat /\ k >= 1 /\ k <= s.sealed /\ f <= p /\ p < FirstOf(s.l) + s.sealed
  BY <1>1, <1>2, <1>3
<1>5. PICK x \in 1..Len(ss) : s.l = ss[x].l /\ s.pos = ss[x].pos /\ s.sealed <= ss[x].n
  <2>1. ~(FirstOf(s.l + 1) <= f)
    BY <1>2, <1>4, Sizes
  <2> QED BY <2>1
<1>6. p < e
  <2>1. ss[x].n \in Nat
    BY SlotOf
  <2> QED BY <1>2, <1>4, <1>5, <2>1, SlotEnds
<1>7. Chained(segs) /\ segs # <<>> /\ segs[1].log <= p /\ p < LogEnd(segs[Len(segs)]) /\ segs \in Seq(SegRec)
  BY <1>4, <1>6 DEF SegsOk, Chained
<1>8. PICK i \in 1..Len(segs) : segs[i].log <= p /\ p < LogEnd(segs[i])
  BY <1>4, <1>7, Covered
<1>9. /\ segs[i].start \in Nat /\ segs[i].log \in Nat /\ segs[i].n \in Nat /\ LogEnd(segs[i]) = segs[i].log + segs[i].n
      /\ IndexAt(segs[i], p) = segs[i].first + (p - segs[i].start)
      /\ Segment(segs[i]) = [start |-> segs[i].start, first |-> segs[i].first]
  <2>1. segs[i] \in SegRec
    BY <1>7
  <2>2. p \in Int
    BY <1>4
  <2> QED BY <2>1, <2>2, SegmentIs
<1>10. segs[i].n > 0 /\ segs[i].start <= p
  <2>1. PICK a, b, c : a = segs[i].log /\ b = segs[i].n /\ c = segs[i].start
    OBVIOUS
  <2>2. a \in Nat /\ b \in Nat /\ c \in Nat /\ c <= a /\ a <= p /\ p < a + b
    BY <1>7, <1>8, <1>9, <2>1 DEF Chained
  <2>3. b > 0 /\ c <= p
    BY <1>4, <2>2
  <2> QED BY <2>1, <2>3
<1>11. PICK g : g = Segment(segs[i])
  OBVIOUS
<1>12. g \in j.segs /\ g.start = segs[i].start /\ g.first = segs[i].first
  BY <1>9, <1>10, <1>11
<1>13. s.crc[k] = g.first + (p - g.start)
  <2>1. k - 1 \in 0..(ss[x].n - 1)
    <3>1. ss[x].n \in Nat
      BY SlotOf
    <3> QED BY SMTT(40), <1>2, <1>4, <1>5, <3>1
  <2>2. rg[<<ss[x].pos, k - 1>>] = IndexAt(segs[i], p)
    BY <1>3, <1>5, <1>8, <2>1 DEF ValuesOk
  <2> QED BY <1>5, <1>9, <1>12, <2>2 DEF Durable
<1>14. ASSUME NEW h \in j.segs, h.start <= p PROVE h.start <= g.start
  <2>1. h.start \in Nat
    BY <1>1 DEF Start
  <2>2. h.start < LogEnd(segs[i])
    BY SMTT(40), <1>4, <1>8, <1>9, <1>14, <2>1
  <2>3. ~(segs[i].start < h.start)
    BY <2>2
  <2> QED BY <1>9, <1>12, <2>1, <2>3
<1>15. /\ g.start <= FirstOf(s.l) + (k - 1)
       /\ s.crc[k] = g.first + (FirstOf(s.l) + (k - 1) - g.start)
       /\ \A h \in j.segs : h.start <= FirstOf(s.l) + (k - 1) => h.start <= g.start
  <2>1. s.crc[k] = g.first + (FirstOf(s.l) + (k - 1) - g.start)
    BY <1>1, <1>2, <1>3, <1>4, <1>9, <1>12, <1>13 DEF Start
  <2> QED BY <1>3, <1>10, <1>12, <1>14, <2>1
<1> QED BY <1>12, <1>15

(* The starts that a checkpoint journals are new ones. *)
LEMMA NewStarts ==
  ASSUME Inv, NEW S, S \subseteq {Segment(segments[i]) : i \in Unpersisted}
  PROVE  /\ S \subseteq Start /\ IsFiniteSet(journal.segs \cup S) /\ journal.segs \cup S \subseteq Start
         /\ \A g, h \in journal.segs \cup S : g.start = h.start => g = h
         /\ \A g \in S : SealedEnd <= g.start \/ SealedEnd <= journal.floor
         /\ \A g \in S, i \in 1..Len(segments) : ~(segments[i].start < g.start /\ g.start < LogEnd(segments[i]))
<1>1. Chained(segments) /\ segments \in Seq(SegRec) /\ Len(segments) \in Nat /\ DOMAIN segments = 1..Len(segments)
  BY DEF Inv, SegInv, SegsOk, Chained
<1>2. \A i \in Unpersisted : i \in 1..Len(segments) /\ ~segments[i].persisted /\ segments[i].n > 0
  BY <1>1 DEF Unpersisted
<1>3. JournalType(journal)
  BY DEF Inv, JournalInv, JournalOk
<1>4. \A i \in 1..Len(segments) : Segment(segments[i]) \in Start /\ Segment(segments[i]).start = segments[i].start
  BY <1>1, SegmentIs
<1>5. S \subseteq Start
  BY <1>2, <1>4
<1>6. IsFiniteSet(S)
  <2>1. IsFiniteSet(1..Len(segments))
    BY <1>1, FS_Interval
  <2>2. IsFiniteSet(Unpersisted)
    BY <1>2, <2>1, FS_Subset
  <2>3. PICK f : f = [i \in Unpersisted |-> Segment(segments[i])]
    OBVIOUS
  <2>4. IsFiniteSet({Segment(segments[i]) : i \in Unpersisted})
    BY <2>2, <2>3, ImageFinite
  <2> QED BY <2>4, FS_Subset
<1>7. IsFiniteSet(journal.segs \cup S)
  BY <1>3, <1>6, FS_Union DEF JournalType
<1>8. ASSUME NEW g \in S PROVE \E i \in 1..Len(segments) : /\ segments[i].n > 0 /\ g = Segment(segments[i]) /\ g.start = segments[i].start
                                                           /\ ~segments[i].persisted
  BY <1>2, <1>4
<1>9. ASSUME NEW g \in journal.segs \cup S, NEW h \in journal.segs \cup S, g.start = h.start PROVE g = h
  BY <1>1, <1>3, <1>8, <1>9, StartsDiffer DEF JournalType, Inv, PersistInv
<1>10. \A g \in S : SealedEnd <= g.start \/ SealedEnd <= journal.floor
  BY <1>8 DEF Inv, PersistInv
<1>11. ASSUME NEW g \in S, NEW i \in 1..Len(segments), segments[i].start < g.start, g.start < LogEnd(segments[i])
       PROVE  FALSE
  <2>1. PICK l \in 1..Len(segments) : segments[l].n > 0 /\ g.start = segments[l].start
    BY <1>8
  <2>2. /\ segments[i].start \in Nat /\ LogEnd(segments[i]) \in Nat /\ segments[l].start \in Nat
        /\ segments[l].log \in Nat /\ LogEnd(segments[l]) = segments[l].log + segments[l].n /\ segments[l].n \in Nat
        /\ segments[i].log \in Nat
    BY <1>1, SegmentOf
  <2>3. /\ i < l => LogEnd(segments[i]) <= segments[l].start
        /\ l < i => LogEnd(segments[l]) <= segments[i].start
        /\ segments[l].start <= segments[l].log
    BY <1>1 DEF Chained
  <2>4. i # l
    BY <1>11, <2>1, <2>2
  <2> QED BY <1>11, <2>1, <2>2, <2>3, <2>4
<1> QED BY <1>3, <1>5, <1>7, <1>9, <1>10, <1>11 DEF JournalType

(* A sealed sample of the journal lies below the sealed end. *)
LEMMA JournalEnds ==
  ASSUME Inv, NEW s \in journal.slots
  PROVE  /\ s \in SlotRec /\ FirstOf(s.l) + s.sealed <= SealedEnd
         /\ FirstOf(s.l) \in Nat /\ s.sealed \in Nat
<1>1. TypeInv /\ SlotInv /\ StepInv /\ JournalInv /\ LinkInv
  BY DEF Inv
<1>2. /\ Settled > 0 /\ s \in SlotRec
      /\ \/ \E x \in 1..Settled : s = Record(slots[x])
         \/ /\ s.l + 1 = slots[1].l /\ FirstOf(s.l + 1) <= floor /\ s.sealed = SlotSamples
            /\ \A x \in 1..Settled : s.l < slots[x].l /\ s.pos # slots[x].pos
  BY <1>1, JournalKnows
<1>3. FirstOf(s.l) \in Nat /\ s.sealed \in Nat /\ s.sealed <= SlotSamples /\ s.l \in Nat
  BY <1>2, SlotRecIs
<1>4. /\ Settled \in Nat /\ Settled \in 1..Len(slots) /\ Len(slots) \in Nat
      /\ SealedEnd = FirstOf(slots[Settled].l) + slots[Settled].sealed
      /\ SlotsOk(slots, floor, end) /\ floor \in Nat /\ end \in Nat
  BY <1>1, <1>2, SettledIs DEF SlotInv, TypeInv
<1>5. FirstOf(slots[Settled].l) \in Nat /\ slots[Settled].sealed \in Nat /\ slots[Settled].l \in Nat
  BY <1>4, SlotOf
<1>6. ASSUME s.l < slots[Settled].l PROVE FirstOf(s.l) + s.sealed <= SealedEnd
  <2>1. FirstOf(s.l) + SlotSamples <= FirstOf(slots[Settled].l)
    BY <1>3, <1>5, <1>6, FirstOfIs
  <2> QED BY SMTT(40), <1>3, <1>4, <1>5, <2>1, Sizes
<1>7. ASSUME NEW x \in 1..Settled, s = Record(slots[x]) PROVE FirstOf(s.l) + s.sealed <= SealedEnd
  <2>1. x \in 1..Len(slots)
    BY <1>4
  <2>2. s.l = slots[x].l /\ s.sealed = slots[x].sealed
    BY <1>4, <1>7, <2>1, RecordIs, SlotOf
  <2>3. CASE x = Settled
    BY <1>3, <1>4, <1>5, <2>2, <2>3
  <2>4. CASE x # Settled
    BY <1>4, <1>6, <2>1, <2>2, <2>4, SlotNumbers
  <2> QED BY <2>3, <2>4
<1> QED BY <1>2, <1>3, <1>4, <1>6, <1>7

(* Of a seal's append the starts alone may be in the journal. *)
LEMMA StartsReplayed ==
  ASSUME Inv, NEW S, S \subseteq {Segment(segments[i]) : i \in Unpersisted},
         NEW j, j = Replay(journal, [segs |-> S, rec |-> NoRec])
  PROVE  JournalOk(j) /\ j.slots = journal.slots /\ j.floor = journal.floor /\ j.segs = journal.segs \cup S
<1>1. j = [slots |-> journal.slots, floor |-> journal.floor, segs |-> journal.segs \cup S]
  BY DEF Replay, NoRec
<1>2. j.slots = journal.slots /\ j.floor = journal.floor /\ j.segs = journal.segs \cup S
  BY <1>1
<1>3. JournalType(journal) /\ JournalSlots(journal) /\ JournalValues(journal)
  BY DEF Inv, JournalInv, JournalOk
<1>4. /\ IsFiniteSet(journal.segs \cup S) /\ journal.segs \cup S \subseteq Start
      /\ \A g, h \in journal.segs \cup S : g.start = h.start => g = h
      /\ \A g \in S : SealedEnd <= g.start \/ SealedEnd <= journal.floor
  BY NewStarts
<1>5. JournalType(j)
  BY <1>1, <1>2, <1>3, <1>4 DEF JournalType
<1>6. JournalValues(j)
  <2> SUFFICES ASSUME NEW s \in journal.slots, NEW k \in 1..s.sealed, journal.floor <= FirstOf(s.l) + (k - 1)
               PROVE  \E g \in j.segs : /\ g.start <= FirstOf(s.l) + (k - 1)
                        /\ s.crc[k] = g.first + (FirstOf(s.l) + (k - 1) - g.start)
                        /\ \A h \in j.segs : h.start <= FirstOf(s.l) + (k - 1) => h.start <= g.start
    BY <1>2 DEF JournalValues
  <2>1. PICK g \in journal.segs : /\ g.start <= FirstOf(s.l) + (k - 1)
                        /\ s.crc[k] = g.first + (FirstOf(s.l) + (k - 1) - g.start)
                        /\ \A h \in journal.segs : h.start <= FirstOf(s.l) + (k - 1) => h.start <= g.start
    BY <1>3 DEF JournalValues
  <2>2. ASSUME NEW h \in S PROVE ~(h.start <= FirstOf(s.l) + (k - 1))
    <3>1. FirstOf(s.l) + s.sealed <= SealedEnd /\ FirstOf(s.l) \in Nat /\ s.sealed \in Nat
      BY JournalEnds
    <3>2. h.start \in Nat /\ journal.floor \in Nat /\ SealedEnd \in Nat
      BY <1>3, <1>4, SettledIs DEF Inv, JournalType, Start
    <3>3. PICK a, n, e, t, f : a = FirstOf(s.l) /\ n = s.sealed /\ e = SealedEnd /\ t = h.start /\ f = journal.floor
      OBVIOUS
    <3>4. /\ a \in Nat /\ n \in Nat /\ e \in Nat /\ t \in Nat /\ f \in Nat /\ a + n <= e /\ (e <= t \/ e <= f)
          /\ f <= a + (k - 1) /\ k \in 1..n
      BY <1>4, <3>1, <3>2, <3>3
    <3> QED BY <3>3, <3>4
  <2> QED BY <1>2, <2>1, <2>2
<1> QED BY <1>2, <1>3, <1>5, <1>6 DEF JournalOk, JournalSlots

(* The slots and the segments after a seal. *)
SealedSlots == [slots EXCEPT ![Len(slots)].sealed = Len(cur.crc), ![Len(slots)].crc = cur.crc]
SealedSegs  == [i \in 1..Len(segments) |-> [segments[i] EXCEPT !.persisted = @ \/ segments[i].n > 0]]

LEMMA SealedSlotsAre ==
  ASSUME Inv, pc \in Sealing
  PROVE  /\ Settled = Len(slots) /\ Len(slots) \in 1..Len(slots) /\ Len(slots) \in Nat /\ cur # None /\ cur \in Cursor
         /\ SlotsOk(slots, floor, end) /\ floor \in Nat /\ end \in Nat
         /\ cur.l = slots[Len(slots)].l /\ cur.pos = slots[Len(slots)].pos /\ cur.crc \in Seq(Nat)
         /\ Len(cur.crc) = slots[Len(slots)].n
         /\ SealedSlots \in Seq(SlotRec) /\ Len(SealedSlots) = Len(slots)
         /\ SealedSlots[Len(slots)] = [l |-> cur.l, pos |-> cur.pos, n |-> Len(cur.crc), sealed |-> Len(cur.crc), crc |-> cur.crc]
         /\ \A x \in 1..Len(slots) : x < Len(slots) => SealedSlots[x] = slots[x]
         /\ \A x \in 1..Len(slots) : /\ SealedSlots[x].l = slots[x].l /\ SealedSlots[x].pos = slots[x].pos
                                     /\ SealedSlots[x].n = slots[x].n
         /\ SlotsOk(SealedSlots, floor, end)
<1> DEFINE at == Len(slots)
<1>1. /\ pc # <<"open">> /\ Settled = at /\ at \in Nat /\ slots \in Seq(SlotRec)
      /\ SlotsOk(slots, floor, end) /\ floor \in Nat /\ end \in Nat
  BY SettledIs, StepsDiffer DEF Inv, SlotInv, TypeInv
<1>2. /\ cur # None /\ Settled > 0 /\ cur.l = slots[Settled].l /\ cur.pos = slots[Settled].pos
      /\ cur.sealed = slots[Settled].sealed /\ Len(cur.crc) = slots[Settled].n /\ cur \in Cursor
  BY DEF Inv, StepInv, CurInv, TypeInv
<1>3. at \in 1..at /\ cur.crc \in Seq(Nat)
  BY <1>1, <1>2 DEF Cursor
<1>4. slots[at] \in SlotRec /\ slots[at].n \in Nat /\ slots[at].n <= SlotSamples
  BY <1>1, <1>3, SlotOf
<1>5. PICK n, c : n = slots[at].n /\ c = cur.crc
  OBVIOUS
<1>6. PICK new : new = [l |-> cur.l, pos |-> cur.pos, n |-> n, sealed |-> n, crc |-> c]
  OBVIOUS
<1>7. new \in SlotRec /\ Len(c) = n /\ c \in Seq(Nat)
  BY <1>1, <1>2, <1>3, <1>4, <1>5, <1>6, SlotOf, Sizes DEF SlotRec
<1>8. SealedSlots = [slots EXCEPT ![at] = new]
  <2>1. [[slots[at] EXCEPT !.sealed = n] EXCEPT !.crc = c] = new
    <3>1. PICK l, p, m, z, d : slots[at] = [l |-> l, pos |-> p, n |-> m, sealed |-> z, crc |-> d]
      BY <1>4 DEF SlotRec
    <3>2. [slots[at] EXCEPT !.sealed = n] = [l |-> l, pos |-> p, n |-> m, sealed |-> n, crc |-> d]
      BY <3>1
    <3>3. PICK t : t = [l |-> l, pos |-> p, n |-> m, sealed |-> n, crc |-> d]
      OBVIOUS
    <3>4. [t EXCEPT !.crc = c] = [l |-> l, pos |-> p, n |-> m, sealed |-> n, crc |-> c]
      BY <3>3
    <3>5. [[slots[at] EXCEPT !.sealed = n] EXCEPT !.crc = c] = [l |-> l, pos |-> p, n |-> m, sealed |-> n, crc |-> c]
      BY <3>2, <3>3, <3>4
    <3> QED BY <1>1, <1>2, <1>5, <1>6, <3>1, <3>5
  <2> QED BY <1>1, <1>2, <1>3, <1>5, <1>7, <2>1 DEF SealedSlots
<1>9. /\ SealedSlots \in Seq(SlotRec) /\ Len(SealedSlots) = at /\ SealedSlots[at] = new
      /\ \A x \in 1..at : x # at => SealedSlots[x] = slots[x]
  BY <1>1, <1>3, <1>7, <1>8
<1>10. \A x \in 1..at : x < at => SealedSlots[x] = slots[x]
  BY <1>1, <1>9
<1>11. \A x \in 1..at : /\ SealedSlots[x].l = slots[x].l /\ SealedSlots[x].pos = slots[x].pos
                        /\ SealedSlots[x].n = slots[x].n
  BY <1>1, <1>2, <1>5, <1>6, <1>9
<1>12. \A x \in 1..at : Len(SealedSlots[x].crc) = SealedSlots[x].sealed /\ SealedSlots[x].sealed <= SealedSlots[x].n
  <2> TAKE x \in 1..at
  <2>1. Len(slots[x].crc) = slots[x].sealed /\ slots[x].sealed <= slots[x].n
    BY <1>1, SlotOf
  <2> QED BY <1>4, <1>5, <1>6, <1>7, <1>9, <2>1
<1>13. SlotsOk(SealedSlots, floor, end)
  <2>1. 1 \in 1..at /\ slots # <<>> /\ SealedSlots # <<>>
    BY <1>1, <1>3, <1>9
  <2>2. \A i \in 1..at :
       /\ SealedSlots[i].l = SealedSlots[1].l + (i - 1)
       /\ i < at => SealedSlots[i].n = SlotSamples /\ SealedSlots[i].sealed = SlotSamples
    <3> TAKE i \in 1..at
    <3>1. slots[i].l = slots[1].l + (i - 1) /\ (i < at => slots[i].n = SlotSamples /\ slots[i].sealed = SlotSamples)
      BY <1>1, SlotOf
    <3> QED BY <1>10, <1>11, <2>1, <3>1
  <2>3. \A i, j \in 1..at : SealedSlots[i].pos = SealedSlots[j].pos => i = j
    BY <1>1, <1>11 DEF SlotsOk
  <2>4. end = FirstOf(SealedSlots[at].l) + SealedSlots[at].n /\ FirstOf(SealedSlots[1].l) <= floor
    BY <1>1, <1>3, <1>11, <2>1 DEF SlotsOk
  <2> QED BY <1>9, <1>12, <2>1, <2>2, <2>3, <2>4 DEF SlotsOk
<1> QED BY <1>1, <1>2, <1>3, <1>5, <1>6, <1>7, <1>9, <1>10, <1>11, <1>13

LEMMA SealReplayed ==
  ASSUME Inv, pc \in Sealing, NEW j, j = Replay(journal, pending)
  PROVE  /\ JournalOk(j) /\ Durable(j.slots, ring, disk, dirty)
         /\ j.floor = (IF journal.floor >= floor THEN journal.floor ELSE floor)
         /\ j.segs = journal.segs \cup {Segment(segments[i]) : i \in Unpersisted}
         /\ \A x \in 1..Len(slots) : Record(SealedSlots[x]) \in j.slots
         /\ \A s \in j.slots : s = Record(SealedSlots[Len(slots)]) \/ s \in journal.slots
<1> DEFINE at == Len(slots)
           S  == {Segment(segments[i]) : i \in Unpersisted}
<1>1. TypeInv /\ SlotInv /\ StepInv /\ JournalInv /\ LinkInv /\ SegInv /\ ValueInv /\ PersistInv
  BY DEF Inv
<1>2. /\ Settled = at /\ at \in 1..at /\ at \in Nat /\ cur # None
      /\ SlotsOk(slots, floor, end) /\ floor \in Nat /\ end \in Nat
      /\ cur.l = slots[at].l /\ cur.pos = slots[at].pos /\ cur.crc \in Seq(Nat)
      /\ Len(cur.crc) = slots[at].n
      /\ SealedSlots \in Seq(SlotRec) /\ Len(SealedSlots) = at
      /\ SealedSlots[at] = [l |-> cur.l, pos |-> cur.pos, n |-> Len(cur.crc), sealed |-> Len(cur.crc), crc |-> cur.crc]
      /\ \A x \in 1..at : x < at => SealedSlots[x] = slots[x]
      /\ \A x \in 1..at : SealedSlots[x].l = slots[x].l /\ SealedSlots[x].pos = slots[x].pos
  BY SealedSlotsAre
<1>3. PICK new : new = Record(SealedSlots[at])
  OBVIOUS
<1>4. /\ SealedSlots[at] \in SlotRec /\ new \in SlotRec /\ new = SealedSlots[at]
      /\ new.l = slots[at].l /\ new.pos = slots[at].pos /\ new.sealed = Len(cur.crc) /\ new.n = Len(cur.crc) /\ new.crc = cur.crc
      /\ slots[at] \in SlotRec /\ slots[at].l \in Nat /\ slots[at].n <= SlotSamples /\ slots[at].n \in Nat
      /\ slots[at].sealed <= slots[at].n
  BY <1>2, <1>3, SlotOf DEF Record
<1>5. Record(slots[at]) \in journal.slots /\ Record(slots[at]).l = slots[at].l /\ Record(slots[at]).pos = slots[at].pos
      /\ Record(slots[at]).sealed = slots[at].sealed
  BY <1>1, <1>2, <1>4, RecordIs DEF LinkInv, Record
<1>6. \A s, t \in journal.slots : s.l = t.l \/ s.pos = t.pos => s = t
  BY <1>1 DEF JournalInv, JournalOk, JournalSlots
<1>7. PICK J : J = {s \in journal.slots : s.l # slots[at].l} \cup {new}
  OBVIOUS
<1>8. PICK f : f = Max({journal.floor, floor})
  OBVIOUS
<1>9. j = [slots |-> J, floor |-> f, segs |-> journal.segs \cup S]
  <2>1. PICK r : r = Sealed(cur.l, Len(cur.crc), cur.crc, floor)
    OBVIOUS
  <2>2. r.k = "seal" /\ r.l = cur.l /\ r.n = Len(cur.crc) /\ r.crc = cur.crc /\ r.floor = floor
    BY <2>1 DEF Sealed
  <2>3. pending.rec = r /\ pending.segs = S
    BY <1>1, <2>1 DEF StepInv
  <2>4. ASSUME NEW s \in journal.slots, s.l # slots[at].l
        PROVE  (IF s.l = r.l /\ r.n >= s.sealed /\ r.n <= SlotSamples
                THEN [s EXCEPT !.n = r.n, !.sealed = r.n, !.crc = r.crc] ELSE s) = s
    BY <1>2, <2>2, <2>4
  <2>5. ASSUME NEW s \in journal.slots, s.l = slots[at].l
        PROVE  (IF s.l = r.l /\ r.n >= s.sealed /\ r.n <= SlotSamples
                THEN [s EXCEPT !.n = r.n, !.sealed = r.n, !.crc = r.crc] ELSE s) = new
    <3>1. s = Record(slots[at]) /\ s.sealed <= slots[at].n /\ s \in SlotRec
      BY <1>4, <1>5, <1>6, <2>5, RecordIs
    <3>2. s.l = r.l /\ r.n >= s.sealed /\ r.n <= SlotSamples
      BY <1>2, <1>4, <2>2, <2>5, <3>1, SlotRecIs
    <3>3. [s EXCEPT !.n = r.n, !.sealed = r.n, !.crc = r.crc] = [l |-> s.l, pos |-> s.pos, n |-> r.n, sealed |-> r.n, crc |-> r.crc]
      <4>1. PICK l, p, m, z, d : s = [l |-> l, pos |-> p, n |-> m, sealed |-> z, crc |-> d]
        BY <3>1 DEF SlotRec
      <4>2. PICK t : t = [s EXCEPT !.n = r.n, !.sealed = r.n, !.crc = r.crc]
        OBVIOUS
      <4>3. t.n = r.n
        BY <4>1, <4>2
      <4>4. t.sealed = r.n
        BY <4>1, <4>2
      <4>5. t.crc = r.crc
        BY <4>1, <4>2
      <4>6. t = [l |-> l, pos |-> p, n |-> r.n, sealed |-> r.n, crc |-> r.crc]
        BY <4>1, <4>2, <4>3, <4>4, <4>5
      <4> QED BY <4>1, <4>2, <4>6
    <3>4. [l |-> s.l, pos |-> s.pos, n |-> r.n, sealed |-> r.n, crc |-> r.crc] = new
      BY <1>2, <1>4, <1>5, <2>2, <2>5, <3>1
    <3> QED BY <3>2, <3>3, <3>4
  <2>6. Resealed(journal.slots, r) = J
    BY <1>5, <1>7, <2>4, <2>5 DEF Resealed
  <2> QED BY <1>8, <2>2, <2>3, <2>6 DEF Replay
<1>10. j.slots = J /\ j.floor = f /\ j.segs = journal.segs \cup S
  BY <1>9
<1>11. journal.floor \in Nat /\ JournalType(journal) /\ f = (IF journal.floor >= floor THEN journal.floor ELSE floor) /\ f \in Nat /\ floor <= f
  <2>1. journal.floor \in Nat /\ JournalType(journal)
    BY <1>1 DEF JournalInv, JournalOk, JournalType
  <2> QED BY <1>2, <1>8, <2>1, MaxOfTwo
<1>12. \A s \in journal.slots : s \in SlotRec /\ s.l \in Nat /\ s.l <= slots[at].l
  BY <1>1, <1>2, <1>11, SlotRecIs DEF LinkInv, JournalType
<1>13. JournalType(j)
  <2>1. \A s \in J : s \in SlotRec /\ s.n = s.sealed /\ Len(s.crc) = s.sealed
    BY <1>4, <1>7, <1>11 DEF JournalType
  <2> QED BY <1>9, <1>10, <1>11, <2>1, NewStarts DEF JournalType
<1>14. Durable(J, ring, disk, dirty)
  <2> SUFFICES ASSUME NEW s \in J, NEW k \in 1..s.sealed
               PROVE  /\ <<s.pos, k - 1>> \notin dirty
                      /\ ring[<<s.pos, k - 1>>] = s.crc[k] /\ disk[<<s.pos, k - 1>>] = s.crc[k]
    BY DEF Durable
  <2>1. CASE s \in journal.slots
    BY <1>1, <2>1 DEF JournalInv, Durable
  <2>2. CASE s = new
    BY <1>1, <1>2, <1>4, <2>2 DEF StepInv, Inv, CurInv
  <2> QED BY <1>7, <2>1, <2>2
<1>15. JournalSlots(j)
  <2>1. \A s \in J : \E o \in journal.slots : o.l = s.l /\ o.pos = s.pos /\ (s = o \/ s = new)
    BY <1>4, <1>5, <1>7
  <2>2. ASSUME NEW s \in J, NEW t \in J
        PROVE  /\ s.l = t.l \/ s.pos = t.pos => s = t
               /\ s.l < t.l => s.sealed = SlotSamples
    BY <1>1, <1>4, <1>6, <1>7, <1>12, <2>1 DEF JournalInv, JournalOk, JournalSlots
  <2>3. ASSUME NEW s \in J, NEW t \in J, NEW m \in s.l..t.l PROVE \E u \in J : u.l = m
    BY <1>1, <1>4, <1>7, <2>1 DEF JournalInv, JournalOk, JournalSlots
  <2> QED BY <1>4, <1>7, <1>10, <1>12, <2>2, <2>3 DEF JournalSlots
<1>16. JournalValues(j)
  <2>1. Durable(j.slots, ring, disk, dirty)
    BY <1>10, <1>14
  <2>2. \A s \in j.slots : s.sealed > 0 => floor <= j.floor
    BY <1>10, <1>11
  <2>3. \A s \in j.slots : \/ \E x \in 1..at : s.l = slots[x].l /\ s.pos = slots[x].pos /\ s.sealed <= slots[x].n
                           \/ FirstOf(s.l + 1) <= floor
    <3> TAKE s \in j.slots
    <3>1. CASE s = new
      BY <1>2, <1>4, <3>1
    <3>2. CASE s \in journal.slots
      <4>1. ASSUME NEW x \in 1..at, s = Record(slots[x]) PROVE s.l = slots[x].l /\ s.pos = slots[x].pos /\ s.sealed <= slots[x].n
        BY <1>2, <4>1, SlotOf, RecordIs
      <4> QED BY <1>1, <1>2, <3>2, <4>1, JournalKnows
    <3> QED BY <1>7, <1>10, <3>1, <3>2
  <2>4. \A i \in 1..Len(segments) : segments[i].n > 0 => Segment(segments[i]) \in j.segs
    BY <1>1, <1>10 DEF PersistInv, Unpersisted, SegInv, SegsOk, Chained
  <2>5. \A g \in j.segs, i \in 1..Len(segments) : ~(segments[i].start < g.start /\ g.start < LogEnd(segments[i]))
    BY <1>1, <1>10, NewStarts DEF LinkInv
  <2>6. SegsOk(segments, floor, end) /\ ValuesOk(slots, segments, ring)
    BY <1>1 DEF SegInv, ValueInv
  <2> QED BY <1>2, <1>13, <2>1, <2>2, <2>3, <2>4, <2>5, <2>6, ValuesFrom
<1>17. \A x \in 1..at : Record(SealedSlots[x]) \in J
  <2> TAKE x \in 1..at
  <2>1. CASE x = at
    BY <1>3, <1>7, <2>1
  <2>2. CASE x # at
    <3>1. x < at /\ SealedSlots[x] = slots[x]
      BY <1>2, <2>2
    <3>2. slots[x] \in SlotRec /\ slots[x].l < slots[at].l /\ slots[x].l \in Nat
      BY <1>2, <3>1, SlotOf, SlotNumbers
    <3>3. Record(slots[x]).l # slots[at].l
      BY <1>4, <3>2, RecordIs
    <3> QED BY <1>1, <1>2, <1>7, <3>1, <3>3 DEF LinkInv, Record
  <2> QED BY <2>1, <2>2
<1>18. \A s \in J : s = new \/ s \in journal.slots
  BY <1>7
<1> QED BY <1>3, <1>10, <1>11, <1>13, <1>14, <1>15, <1>16, <1>17, <1>18 DEF JournalOk

-----------------------------------------------------------------------------
(* The journal written anew *)

(* A journal that describes an index: its slots as sealed, and its segments. *)
Described(j, ss, segs, f, rg, dk, dt) ==
  /\ JournalOk(j) /\ Durable(j.slots, rg, dk, dt) /\ j.floor \in Nat
  /\ j.floor = f \/ (j.floor = 0 /\ \A x \in 1..Len(ss) : ss[x].sealed = 0)
  /\ \A x \in 1..Len(ss) : Record(ss[x]) \in j.slots
  /\ \A s \in j.slots : \E x \in 1..Len(ss) : s = Record(ss[x])
  /\ \A i \in 1..Len(segs) : segs[i].n > 0 => Segment(segs[i]) \in j.segs
  /\ \A g \in j.segs : \E i \in 1..Len(segs) : segs[i].n > 0 /\ g = Segment(segs[i]) /\ g.start = segs[i].start
  /\ \A g \in j.segs, i \in 1..Len(segs) : ~(segs[i].start < g.start /\ g.start < LogEnd(segs[i]))

LEMMA SnapshotOk ==
  ASSUME NEW ss, NEW f \in Nat, NEW e \in Nat, SlotsOk(ss, f, e), NEW segs, SegsOk(segs, f, e),
         NEW rg, ValuesOk(ss, segs, rg), NEW dk, NEW dt, \A x \in 1..Len(ss) : Durable({ss[x]}, rg, dk, dt),
         \A i \in 1..Len(segs) : segs[i].n > 0 => segs[i].persisted,
         NEW j, j = Snapshot(ss, segs, f)
  PROVE  Described(j, ss, segs, f, rg, dk, dt)
<1>1. /\ ss \in Seq(SlotRec) /\ Len(ss) \in Nat /\ DOMAIN ss = 1..Len(ss)
      /\ Chained(segs) /\ segs \in Seq(SegRec) /\ Len(segs) \in Nat /\ DOMAIN segs = 1..Len(segs)
  BY DEF SlotsOk, SegsOk, Chained
<1>2. PICK J : J = {Record(ss[x]) : x \in 1..Len(ss)}
  OBVIOUS
<1>3. PICK P : P = {i \in 1..Len(segs) : segs[i].persisted /\ segs[i].n > 0}
  OBVIOUS
<1>4. PICK G : G = {Segment(segs[i]) : i \in P}
  OBVIOUS
<1>5. PICK h : h = (IF \E i \in DOMAIN ss : ss[i].sealed > 0 THEN f ELSE 0)
  OBVIOUS
<1>6. j = [slots |-> J, floor |-> h, segs |-> G]
  BY <1>1, <1>2, <1>3, <1>4, <1>5 DEF Snapshot, Record
<1>7. j.slots = J /\ j.floor = h /\ j.segs = G
  BY <1>6
<1>8. \A x \in 1..Len(ss) : /\ ss[x] \in SlotRec /\ ss[x].l \in Nat /\ ss[x].sealed \in Nat /\ ss[x].sealed <= ss[x].n
                            /\ Len(ss[x].crc) = ss[x].sealed /\ ss[x].l = ss[1].l + (x - 1) /\ ss[1].l \in Nat
                            /\ x < Len(ss) => ss[x].sealed = SlotSamples
  BY SlotOf
<1>9. \A x \in 1..Len(ss) : /\ Record(ss[x]) \in SlotRec /\ Record(ss[x]).l = ss[x].l /\ Record(ss[x]).pos = ss[x].pos
                            /\ Record(ss[x]).n = ss[x].sealed /\ Record(ss[x]).sealed = ss[x].sealed
                            /\ Record(ss[x]).crc = ss[x].crc
  BY <1>8, RecordIs
<1>10. h \in Nat /\ (h = f \/ (h = 0 /\ \A x \in 1..Len(ss) : ss[x].sealed = 0))
  <2>1. CASE \E i \in DOMAIN ss : ss[i].sealed > 0
    BY <1>5, <2>1
  <2>2. CASE ~(\E i \in DOMAIN ss : ss[i].sealed > 0)
    <3>1. \A x \in 1..Len(ss) : ~(ss[x].sealed > 0) /\ ss[x].sealed \in Nat
      BY <1>1, <1>8, <2>2
    <3> QED BY <1>5, <2>2, <3>1
  <2> QED BY <2>1, <2>2
<1>11. \A i \in P : /\ i \in 1..Len(segs) /\ segs[i].n > 0 /\ Segment(segs[i]) \in Start /\ Segment(segs[i]).start = segs[i].start
  BY <1>1, <1>3, SegmentIs
<1>12. \A g \in G : \E i \in 1..Len(segs) : segs[i].n > 0 /\ g = Segment(segs[i]) /\ g.start = segs[i].start
  BY <1>4, <1>11
<1>13. G \subseteq Start /\ IsFiniteSet(G)
  <2>1. IsFiniteSet(P)
    <3>1. IsFiniteSet(1..Len(segs))
      BY <1>1, FS_Interval
    <3>2. P \in SUBSET (1..Len(segs))
      BY <1>3
    <3> QED BY <3>1, <3>2, FS_Subset
  <2>2. PICK q : q = [i \in P |-> Segment(segs[i])]
    OBVIOUS
  <2>3. IsFiniteSet(G)
    BY <1>4, <2>1, <2>2, ImageFinite
  <2> QED BY <1>4, <1>11, <2>3
<1>14. ASSUME NEW g \in G, NEW k \in G, g.start = k.start PROVE g = k
  BY <1>1, <1>12, <1>14, StartsDiffer
<1>15. JournalType(j)
  <2>1. \A s \in J : s \in SlotRec /\ s.n = s.sealed /\ Len(s.crc) = s.sealed
    BY <1>2, <1>8, <1>9
  <2> QED BY <1>6, <1>7, <1>10, <1>13, <1>14, <2>1 DEF JournalType
<1>16. JournalSlots(j)
  <2>1. ASSUME NEW s \in J, NEW t \in J
        PROVE  /\ s.l = t.l \/ s.pos = t.pos => s = t
               /\ s.l < t.l => s.sealed = SlotSamples
               /\ \A m \in s.l..t.l : \E u \in J : u.l = m
    <3>1. PICK x \in 1..Len(ss) : s = Record(ss[x])
      BY <1>2
    <3>2. PICK y \in 1..Len(ss) : t = Record(ss[y])
      BY <1>2
    <3>3. s.l = ss[x].l /\ t.l = ss[y].l /\ s.pos = ss[x].pos /\ t.pos = ss[y].pos /\ s.sealed = ss[x].sealed
      BY <1>9, <3>1, <3>2
    <3>4. PICK a, n : a = ss[1].l /\ n = Len(ss)
      OBVIOUS
    <3>5. /\ a \in Nat /\ n \in Nat /\ x \in 1..n /\ y \in 1..n /\ s.l = a + (x - 1) /\ t.l = a + (y - 1)
          /\ x < n => s.sealed = SlotSamples
      BY <1>1, <1>8, <3>3, <3>4
    <3>6. s.l < t.l => s.sealed = SlotSamples
      BY <3>5
    <3>7. ASSUME NEW m \in s.l..t.l PROVE \E u \in J : u.l = m
      <4>1. PICK z : z = m - a + 1
        OBVIOUS
      <4>2. z \in 1..n /\ m = a + (z - 1)
        BY <3>5, <3>7, <4>1
      <4>3. z \in 1..Len(ss) /\ ss[z].l = m
        BY <1>8, <3>4, <4>2
      <4> QED BY <1>2, <1>9, <4>3
    <3> QED BY <3>1, <3>2, <3>3, <3>6, <3>7, SlotNumbers
  <2>2. ASSUME J # {} PROVE \E s \in J : \A t \in J : t.l <= s.l
    <3>1. PICK z \in 1..Len(ss) : TRUE
      BY <1>2, <2>2
    <3>2. Len(ss) \in 1..Len(ss)
      BY <1>1, <3>1
    <3>3. ASSUME NEW t \in J PROVE t.l <= Record(ss[Len(ss)]).l
      <4>1. PICK y \in 1..Len(ss) : t = Record(ss[y])
        BY <1>2
      <4>2. PICK a, n, u, v : a = ss[1].l /\ n = Len(ss) /\ u = ss[y].l /\ v = ss[Len(ss)].l
        OBVIOUS
      <4>3. a \in Nat /\ n \in Nat /\ y \in 1..n /\ u = a + (y - 1) /\ v = a + (n - 1)
        BY <1>1, <1>8, <3>2, <4>2
      <4>4. u <= v
        BY <4>3
      <4> QED BY <1>9, <3>2, <4>1, <4>2, <4>4
    <3> QED BY <1>2, <3>2, <3>3
  <2> QED BY <1>7, <2>1, <2>2 DEF JournalSlots
<1>17. Durable(J, rg, dk, dt)
  BY <1>2, <1>9 DEF Durable
<1>18. ASSUME NEW g \in G, NEW i \in 1..Len(segs), segs[i].start < g.start, g.start < LogEnd(segs[i])
       PROVE  FALSE
  <2>1. PICK l \in 1..Len(segs) : segs[l].n > 0 /\ g.start = segs[l].start
    BY <1>12
  <2>2. /\ segs[i].start \in Nat /\ LogEnd(segs[i]) \in Nat /\ segs[l].start \in Nat
        /\ segs[l].log \in Nat /\ LogEnd(segs[l]) = segs[l].log + segs[l].n /\ segs[l].n \in Nat
        /\ segs[i].log \in Nat
    BY <1>1, SegmentOf
  <2>3. i # l
    BY <1>18, <2>1, <2>2
  <2> QED BY <1>1, <1>18, <2>1, <2>2, <2>3 DEF Chained
<1>19. \A i \in 1..Len(segs) : segs[i].n > 0 => Segment(segs[i]) \in G
  BY <1>3, <1>4
<1>20. JournalValues(j)
  <2>1. Durable(j.slots, rg, dk, dt)
    BY <1>7, <1>17
  <2>2. \A s \in j.slots : \E x \in 1..Len(ss) : s.l = ss[x].l /\ s.pos = ss[x].pos /\ s.sealed <= ss[x].n /\ s.sealed = ss[x].sealed
    <3> TAKE s \in j.slots
    <3>1. PICK x \in 1..Len(ss) : s = Record(ss[x])
      BY <1>2, <1>7
    <3>2. ss[x].sealed <= ss[x].n
      BY <1>8
    <3> QED BY <1>9, <3>1, <3>2
  <2>3. \A s \in j.slots : s.sealed > 0 => f <= j.floor
    BY <1>7, <1>10, <2>2
  <2>4. \A i \in 1..Len(segs) : segs[i].n > 0 => Segment(segs[i]) \in j.segs
    BY <1>7, <1>19
  <2>5. \A g \in j.segs, i \in 1..Len(segs) : ~(segs[i].start < g.start /\ g.start < LogEnd(segs[i]))
    BY <1>7, <1>18
  <2> QED BY <1>15, <2>1, <2>2, <2>3, <2>4, <2>5, ValuesFrom
<1>21. \A x \in 1..Len(ss) : Record(ss[x]) \in J
  BY <1>2
<1>22. \A s \in J : \E x \in 1..Len(ss) : s = Record(ss[x])
  BY <1>2
<1>23. JournalOk(j)
  BY <1>15, <1>16, <1>20 DEF JournalOk
<1> QED BY <1>7, <1>10, <1>12, <1>17, <1>18, <1>19, <1>21, <1>22, <1>23 DEF Described

(* c has the segments of segs, and those with samples are persisted. *)
MarkPersisted(segs) == [i \in 1..Len(segs) |-> [segs[i] EXCEPT !.persisted = @ \/ segs[i].n > 0]]
Persisted(c, segs) ==
  /\ c \in Seq(SegRec) /\ Len(c) = Len(segs) /\ Len(segs) \in Nat /\ segs \in Seq(SegRec)
  /\ \A i \in 1..Len(segs) : /\ c[i].start = segs[i].start /\ c[i].log = segs[i].log /\ c[i].n = segs[i].n
                             /\ c[i].first = segs[i].first /\ LogEnd(c[i]) = LogEnd(segs[i])
                             /\ Segment(c[i]) = Segment(segs[i]) /\ EndIndex(c[i]) = EndIndex(segs[i])
                             /\ c[i].persisted = (segs[i].persisted \/ segs[i].n > 0)
                             /\ \A p \in Int : IndexAt(c[i], p) = IndexAt(segs[i], p)

LEMMA SealedSegsAre ==
  ASSUME NEW segs, Chained(segs), NEW c, c = MarkPersisted(segs)
  PROVE  Persisted(c, segs)
<1>1. segs \in Seq(SegRec) /\ Len(segs) \in Nat
  BY DEF Chained
<1>2. \A i \in 1..Len(segs) : /\ c[i] \in SegRec /\ c[i].start = segs[i].start /\ c[i].log = segs[i].log /\ c[i].n = segs[i].n
                              /\ c[i].first = segs[i].first
                              /\ c[i].persisted = (segs[i].persisted \/ segs[i].n > 0)
  <2> TAKE i \in 1..Len(segs)
  <2>1. segs[i] \in SegRec
    BY <1>1
  <2>2. PICK b : b = (segs[i].persisted \/ segs[i].n > 0)
    OBVIOUS
  <2>3. c[i] = [segs[i] EXCEPT !.persisted = b]
    BY <2>2 DEF MarkPersisted
  <2>4. c[i] \in SegRec /\ c[i].start = segs[i].start /\ c[i].log = segs[i].log /\ c[i].n = segs[i].n
        /\ c[i].first = segs[i].first /\ c[i].persisted = b
    BY <2>1, <2>2, <2>3 DEF SegRec
  <2> QED BY <2>2, <2>4
<1>3. \A i \in 1..Len(segs) : /\ LogEnd(c[i]) = LogEnd(segs[i])
                              /\ Segment(c[i]) = Segment(segs[i]) /\ EndIndex(c[i]) = EndIndex(segs[i])
                              /\ \A p \in Int : IndexAt(c[i], p) = IndexAt(segs[i], p)
  BY <1>2 DEF LogEnd, Segment, EndIndex, IndexAt
<1> QED BY <1>1, <1>2, <1>3 DEF Persisted, MarkPersisted

(* The seal is in the journal, and the index says so. *)
LEMMA SealStep ==
  ASSUME Inv, Whole, pc \in Sealing, Seal,
         journal' \in {Replay(journal, pending), Snapshot(slots', segments', floor)},
         TypeInv', pc' \in {<<"idle">>, <<"write">>}, pc' \in Working => open' /\ rest' > 0,
         open' => open /\ stream' = stream
  PROVE  Inv' /\ Whole'
<1> DEFINE at == Len(slots)
           S  == {Segment(segments[i]) : i \in Unpersisted}
<1>1. TypeInv /\ SlotInv /\ StepInv /\ JournalInv /\ LinkInv /\ SegInv /\ ValueInv /\ PersistInv /\ CurInv /\ FloorInv
  BY DEF Inv
<1>2. /\ Settled = at /\ at \in 1..at /\ at \in Nat /\ cur # None /\ cur \in Cursor
      /\ SlotsOk(slots, floor, end) /\ floor \in Nat /\ end \in Nat
      /\ cur.l = slots[at].l /\ cur.pos = slots[at].pos /\ cur.crc \in Seq(Nat)
      /\ Len(cur.crc) = slots[at].n
      /\ SealedSlots \in Seq(SlotRec) /\ Len(SealedSlots) = at
      /\ SealedSlots[at] = [l |-> cur.l, pos |-> cur.pos, n |-> Len(cur.crc), sealed |-> Len(cur.crc), crc |-> cur.crc]
      /\ \A x \in 1..at : x < at => SealedSlots[x] = slots[x]
      /\ \A x \in 1..at : SealedSlots[x].l = slots[x].l /\ SealedSlots[x].pos = slots[x].pos /\ SealedSlots[x].n = slots[x].n
      /\ SlotsOk(SealedSlots, floor, end)
  BY SealedSlotsAre
<1>3. /\ segments' = SealedSegs /\ slots' = SealedSlots
      /\ cur' = [cur EXCEPT !.sealed = Len(cur.crc)] /\ pending' = NoRecords
      /\ UNCHANGED <<free, floor, end, ring, disk, dirty>>
  BY DEF Seal, SealedSegs, SealedSlots, ringVars
<1>4. SegsOk(segments, floor, end) /\ Chained(segments)
  BY <1>1 DEF SegInv, SegsOk
<1>5. PICK c : c = segments'
  OBVIOUS
<1>6. PICK n : n = Len(segments)
  OBVIOUS
<1>7. /\ c \in Seq(SegRec) /\ Len(c) = n /\ n \in Nat /\ segments \in Seq(SegRec)
      /\ \A i \in 1..n : /\ c[i].start = segments[i].start /\ c[i].log = segments[i].log /\ c[i].n = segments[i].n
                         /\ c[i].first = segments[i].first /\ LogEnd(c[i]) = LogEnd(segments[i])
                         /\ Segment(c[i]) = Segment(segments[i]) /\ EndIndex(c[i]) = EndIndex(segments[i])
                         /\ c[i].persisted = (segments[i].persisted \/ segments[i].n > 0)
                         /\ \A p \in Int : IndexAt(c[i], p) = IndexAt(segments[i], p)
  <2>1. c = MarkPersisted(segments)
    BY <1>3, <1>5 DEF SealedSegs, MarkPersisted
  <2>2. /\ c \in Seq(SegRec) /\ Len(c) = Len(segments) /\ Len(segments) \in Nat /\ segments \in Seq(SegRec)
        /\ \A i \in 1..Len(segments) :
                         /\ c[i].start = segments[i].start /\ c[i].log = segments[i].log /\ c[i].n = segments[i].n
                         /\ c[i].first = segments[i].first /\ LogEnd(c[i]) = LogEnd(segments[i])
                         /\ Segment(c[i]) = Segment(segments[i]) /\ EndIndex(c[i]) = EndIndex(segments[i])
                         /\ c[i].persisted = (segments[i].persisted \/ segments[i].n > 0)
                         /\ \A p \in Int : IndexAt(c[i], p) = IndexAt(segments[i], p)
    BY <1>4, <2>1, SealedSegsAre DEF Persisted
  <2> QED BY <1>6, <2>2
<1>8. SegsOk(c, floor, end)
  <2>1. (c = <<>> <=> n = 0) /\ (segments = <<>> <=> n = 0)
    BY <1>6, <1>7
  <2>2. n # 0 => 1 \in 1..n /\ n \in 1..n
    BY <1>7
  <2> QED BY <1>4, <1>6, <1>7, <2>1, <2>2 DEF SegsOk, Chained
<1>9. SlotInv'
  <2>1. \A x \in 1..at : slots'[x].pos = slots[x].pos
    BY <1>2, <1>3
  <2>2. {slots'[i].pos : i \in 1..Len(slots')} = {slots[i].pos : i \in 1..at}
    <3>1. {slots'[i].pos : i \in 1..at} = {slots[i].pos : i \in 1..at}
      BY <2>1
    <3> QED BY <1>2, <1>3, <3>1
  <2> QED BY <1>1, <1>2, <1>3, <2>2 DEF SlotInv
<1>10. ValuesOk(slots', c, ring)
  <2> SUFFICES ASSUME NEW x \in 1..at, NEW i \in 1..n, NEW k \in 0..(slots'[x].n - 1),
                      c[i].log <= FirstOf(slots'[x].l) + k, FirstOf(slots'[x].l) + k < LogEnd(c[i])
               PROVE  ring[<<slots'[x].pos, k>>] = IndexAt(c[i], FirstOf(slots'[x].l) + k)
    BY <1>2, <1>3, <1>7 DEF ValuesOk
  <2>1. slots'[x].l = slots[x].l /\ slots'[x].pos = slots[x].pos /\ slots'[x].n = slots[x].n
    BY <1>2, <1>3
  <2>2. k \in 0..(slots[x].n - 1)
    BY <2>1
  <2>3. ring[<<slots[x].pos, k>>] = IndexAt(segments[i], FirstOf(slots[x].l) + k)
    BY <1>1, <1>6, <1>7, <2>1, <2>2 DEF ValueInv, ValuesOk
  <2> QED BY <1>2, <1>7, <2>1, <2>2, <2>3, SlotOf
<1>11. pc' # <<"open">> /\ Settled' = at
  BY <1>2, <1>3, StepsDiffer DEF Settled
<1>12. SealedEnd' = end
  BY <1>2, <1>3, <1>11, SettledIs DEF SealedEnd, Inv, SlotsOk
<1>13. CurInv'
  BY <1>1, <1>2, <1>3, <1>11, NoneAssumption DEF Cursor, CurInv
<1>14. StepInv'
  BY <1>3, NothingUnderWay
<1>15. SegInv'
  BY <1>1, <1>3, <1>5, <1>6, <1>7, <1>8 DEF SegInv
<1>16. \A i \in 1..n : c[i].n > 0 <=> c[i].persisted
  BY <1>6, <1>7 DEF Whole, PersistedHave
<1>17. SealedEnd <= end /\ SealedEnd \in Nat
  BY <1>1, SettledIs
<1>18. \A i \in 1..n : c[i].persisted => c[i].start < end
  <2> SUFFICES ASSUME NEW i \in 1..n, c[i].persisted PROVE c[i].start < end
    OBVIOUS
  <2>1. i \in 1..Len(c) /\ Chained(c)
    BY <1>7, <1>8 DEF SegsOk
  <2>2. /\ c[i].start \in Nat /\ c[i].log \in Nat /\ c[i].n \in Nat /\ LogEnd(c[i]) = c[i].log + c[i].n /\ c[i].start <= c[i].log
    BY <1>7, <2>1, SegmentOf DEF Chained
  <2>3. c[i].log \in Int /\ c[i].log <= c[i].log /\ c[i].log < LogEnd(c[i])
    BY <1>16, <2>2
  <2> QED BY <1>2, <1>8, <2>1, <2>2, <2>3, Retained
<1>19. ASSUME journal' = Replay(journal, pending)
       PROVE  PersistInv' /\ JournalInv' /\ LinkInv' /\ FloorInv'
  <2>1. /\ JournalOk(journal') /\ Durable(journal'.slots, ring, disk, dirty)
        /\ journal'.floor = (IF journal.floor >= floor THEN journal.floor ELSE floor)
        /\ journal'.segs = journal.segs \cup S
        /\ \A x \in 1..at : Record(SealedSlots[x]) \in journal'.slots
        /\ \A s \in journal'.slots : s = Record(SealedSlots[at]) \/ s \in journal.slots
    BY <1>19, SealReplayed
  <2>2. journal.floor \in Nat
    BY <1>1 DEF JournalInv, JournalOk, JournalType
  <2>3. \A i \in Unpersisted : /\ i \in 1..n /\ segments[i].n > 0 /\ ~segments[i].persisted
                               /\ Segment(segments[i]).start = segments[i].start
    BY <1>6, <1>7, SegmentIs DEF Unpersisted
  <2>4. PersistInv'
    <3> SUFFICES ASSUME NEW i \in 1..n
        PROVE /\ c[i].persisted =>
                   c[i].start < end /\ Segment(c[i]) \in journal'.segs
              /\ ~c[i].persisted =>
                   /\ end <= c[i].log
                   /\ end <= c[i].start \/ end <= journal'.floor
                   /\ \A g \in journal'.segs : g.start # c[i].start
      BY <1>5, <1>7, <1>12 DEF PersistInv
    <3>1. ASSUME c[i].persisted PROVE Segment(c[i]) \in journal'.segs
      <4>1. CASE segments[i].persisted
        BY <1>1, <1>6, <1>7, <2>1, <4>1 DEF PersistInv
      <4>2. CASE ~segments[i].persisted
        <5>1. segments[i].n > 0
          BY <1>7, <3>1, <4>2
        <5>2. i \in Unpersisted
          BY <1>6, <1>7, <4>2, <5>1 DEF Unpersisted
        <5> QED BY <1>7, <2>1, <5>2
      <4> QED BY <4>1, <4>2
    <3>2. ASSUME ~c[i].persisted
          PROVE  /\ end <= c[i].log
                 /\ end <= c[i].start \/ end <= journal'.floor
                 /\ \A g \in journal'.segs : g.start # c[i].start
      <4>1. c[i].n = 0
        <5>1. c[i].n \in Nat /\ ~(c[i].n > 0)
          BY <1>7, <1>16, <3>2, SegmentOf
        <5> QED BY <5>1
      <4>2. i = n /\ c[i].log = end /\ (floor < end => c[i].start = end)
        <5>1. floor \in Nat /\ end \in Nat
          BY <1>2
        <5>2. i = Len(c) /\ c[i].log = end /\ (floor < end => c[i].start = end)
          <6>1. Len(c) \in Nat /\ i \in 1..Len(c) /\ SegsOk(c, floor, end)
            BY <1>7, <1>8
          <6> QED BY <4>1, <5>1, <6>1, EmptyIsLast
        <5> QED BY <1>7, <5>2
      <4>3. end <= c[i].start \/ end <= journal'.floor
        BY <1>2, <2>1, <2>2, <4>2
      <4>4. ASSUME NEW g \in journal'.segs PROVE g.start # c[i].start
        <5>1. CASE g \in journal.segs
          BY <1>1, <1>6, <1>7, <3>2, <5>1 DEF PersistInv
        <5>2. ASSUME NEW l \in Unpersisted, g = Segment(segments[l]) PROVE g.start # c[i].start
          <6>1. l \in 1..n /\ segments[l].n > 0 /\ g.start = segments[l].start
            BY <2>3, <5>2
          <6>2. l < i
            BY <1>7, <4>1, <4>2, <6>1
          <6>3. /\ segments[l].start \in Nat /\ segments[l].log \in Nat /\ segments[l].n \in Nat
                /\ LogEnd(segments[l]) = segments[l].log + segments[l].n /\ segments[i].start \in Nat
            BY <1>6, <1>7, <6>1, SegmentOf
          <6>4. segments[l].start # segments[i].start
            BY <1>4, <1>6, <6>1, <6>2, <6>3 DEF Chained
          <6> QED BY <1>7, <6>1, <6>4
        <5> QED BY <2>1, <5>1, <5>2
      <4> QED BY <1>2, <4>2, <4>3, <4>4
    <3> QED BY <1>18, <3>1, <3>2
  <2>5. LinkInv'
    <3>1. \A x \in 1..at : [slots'[x] EXCEPT !.n = slots'[x].sealed] \in journal'.slots
      BY <1>3, <2>1 DEF Record
    <3>2. ASSUME NEW s \in journal'.slots
          PROVE  /\ s.l <= slots'[at].l
                 /\ s.l < slots'[1].l => FirstOf(s.l + 1) <= floor /\ s.l + 1 = slots'[1].l
      <4>1. slots'[at].l = slots[at].l /\ slots'[1].l = slots[1].l /\ slots[at].l \in Nat
            /\ slots[1].l \in Nat /\ slots[1].l <= slots[at].l
        <5>1. slots[at].l = slots[1].l + (at - 1) /\ slots[1].l \in Nat /\ slots[at].l \in Nat
          BY <1>2, SlotOf
        <5>2. PICK a, b : a = slots[1].l /\ b = slots[at].l
          OBVIOUS
        <5>3. a <= b
          BY <1>2, <5>1, <5>2
        <5> QED BY <1>2, <1>3, <5>1, <5>2, <5>3
      <4>2. CASE s \in journal.slots
        BY <1>1, <1>2, <4>1, <4>2 DEF LinkInv
      <4>3. CASE s = Record(SealedSlots[at])
        BY <1>2, <4>1, <4>3, RecordIs
      <4> QED BY <2>1, <4>2, <4>3
    <3>3. ASSUME NEW g \in journal'.segs PROVE g.start < end
      <4>1. CASE g \in journal.segs
        BY <1>1, <1>2, <1>17, <4>1 DEF LinkInv, JournalInv, JournalOk, JournalType, Start
      <4>2. ASSUME NEW l \in Unpersisted, g = Segment(segments[l]) PROVE g.start < end
        <5>1. l \in 1..n /\ segments[l].n > 0 /\ g.start = segments[l].start
          BY <2>3, <4>2
        <5> QED BY <1>7, <1>18, <5>1
      <4> QED BY <2>1, <4>1, <4>2
    <3>4. \A g \in journal'.segs, i \in 1..n : ~(c[i].start < g.start /\ g.start < LogEnd(c[i]))
      BY <1>1, <1>6, <1>7, <2>1, NewStarts DEF LinkInv
    <3> QED BY <1>2, <1>3, <1>5, <1>7, <1>11, <1>12, <3>1, <3>2, <3>3, <3>4 DEF LinkInv
  <2>6. FloorInv'
    BY <1>1, <1>2, <1>3, <1>12, <2>1, <2>2 DEF FloorInv
  <2> QED BY <1>3, <2>1, <2>4, <2>5, <2>6 DEF JournalInv
<1>20. ASSUME journal' = Snapshot(slots', segments', floor)
       PROVE  PersistInv' /\ JournalInv' /\ LinkInv' /\ FloorInv'
  <2>1. \A x \in 1..Len(slots') : Durable({slots'[x]}, ring, disk, dirty)
    <3> SUFFICES ASSUME NEW x \in 1..at, NEW k \in 1..slots'[x].sealed
                 PROVE  /\ <<slots'[x].pos, k - 1>> \notin dirty
                        /\ ring[<<slots'[x].pos, k - 1>>] = slots'[x].crc[k] /\ disk[<<slots'[x].pos, k - 1>>] = slots'[x].crc[k]
      BY <1>2, <1>3 DEF Durable
    <3>1. CASE x = at
      BY <1>1, <1>2, <1>3, <3>1 DEF StepInv, CurInv
    <3>2. CASE x # at
      <4>1. Record(slots[x]) \in journal.slots /\ slots[x] \in SlotRec
        BY <1>1, <1>2, SlotOf DEF LinkInv, Record
      <4>2. Record(slots[x]).pos = slots[x].pos /\ Record(slots[x]).sealed = slots[x].sealed /\ Record(slots[x]).crc = slots[x].crc
        BY <4>1, RecordIs
      <4>3. PICK r : r = Record(slots[x])
        OBVIOUS
      <4>4. r \in journal.slots /\ k \in 1..r.sealed
            /\ r.pos = slots'[x].pos /\ r.sealed = slots'[x].sealed /\ r.crc = slots'[x].crc
        BY <1>2, <1>3, <3>2, <4>1, <4>2, <4>3
      <4>5. /\ <<r.pos, k - 1>> \notin dirty
            /\ ring[<<r.pos, k - 1>>] = r.crc[k] /\ disk[<<r.pos, k - 1>>] = r.crc[k]
        BY <1>1, <4>4 DEF Durable, JournalInv
      <4> QED BY <4>4, <4>5
    <3> QED BY <3>1, <3>2
  <2>2. /\ JournalOk(journal') /\ Durable(journal'.slots, ring, disk, dirty) /\ journal'.floor \in Nat
        /\ journal'.floor = floor \/ (journal'.floor = 0 /\ \A x \in 1..Len(slots') : slots'[x].sealed = 0)
        /\ \A x \in 1..Len(slots') : Record(slots'[x]) \in journal'.slots
        /\ \A s \in journal'.slots : \E x \in 1..Len(slots') : s = Record(slots'[x])
        /\ \A i \in 1..Len(c) : c[i].n > 0 => Segment(c[i]) \in journal'.segs
        /\ \A g \in journal'.segs : \E i \in 1..Len(c) : c[i].n > 0 /\ g = Segment(c[i]) /\ g.start = c[i].start
        /\ \A g \in journal'.segs, i \in 1..Len(c) : ~(c[i].start < g.start /\ g.start < LogEnd(c[i]))
    <3>1. journal' = Snapshot(slots', c, floor) /\ SlotsOk(slots', floor, end) /\ ValuesOk(slots', c, ring)
      BY <1>2, <1>3, <1>5, <1>10, <1>20
    <3>2. floor \in Nat /\ end \in Nat
      BY <1>2
    <3>3. Described(journal', slots', c, floor, ring, disk, dirty)
      BY <1>7, <1>8, <1>16, <2>1, <3>1, <3>2, SnapshotOk
    <3> QED BY <3>3 DEF Described
  <2>3. PersistInv'
    <3> SUFFICES ASSUME NEW i \in 1..n
        PROVE /\ c[i].persisted =>
                   c[i].start < end /\ Segment(c[i]) \in journal'.segs
              /\ ~c[i].persisted =>
                   /\ end <= c[i].log
                   /\ end <= c[i].start \/ end <= journal'.floor
                   /\ \A g \in journal'.segs : g.start # c[i].start
      BY <1>5, <1>7, <1>12 DEF PersistInv
    <3>1. ASSUME ~c[i].persisted
          PROVE  /\ end <= c[i].log
                 /\ end <= c[i].start \/ end <= journal'.floor
                 /\ \A g \in journal'.segs : g.start # c[i].start
      <4>1. c[i].n = 0
        <5>1. c[i].n \in Nat /\ ~(c[i].n > 0)
          BY <1>7, <1>16, <3>1, SegmentOf
        <5> QED BY <5>1
      <4>2. i = n /\ c[i].log = end /\ (floor < end => c[i].start = end) /\ c[i].start \in Nat
        <5>1. i \in 1..Len(c)
          BY <1>7
        <5>2. floor \in Nat /\ end \in Nat
          BY <1>2
        <5>3. i = Len(c) /\ c[i].log = end /\ (floor < end => c[i].start = end)
          BY <1>8, <4>1, <5>1, <5>2, EmptyIsLast
        <5> QED BY <1>7, <5>1, <5>3, SegmentOf
      <4>3. end <= c[i].start \/ end <= journal'.floor
        <5>1. CASE journal'.floor = floor
          BY <1>2, <4>2, <5>1
        <5>2. CASE \A x \in 1..Len(slots') : slots'[x].sealed = 0
          <6>1. slots'[1].sealed = 0 /\ slots'[at].sealed = 0 /\ 1 \in 1..at /\ Len(slots') = at
            BY SMTT(40), <1>2, <1>3, <5>2
          <6>2. at = 1
            <7>1. 1 < at => slots'[1].sealed = SlotSamples
              BY SMTT(40), <1>2, <1>3, <6>1, SlotOf
            <7> QED BY <1>2, <6>1, <7>1, Sizes
          <6>3. slots[1].n = 0 /\ slots[1].sealed = 0
            <7>1. slots[1].sealed \in Nat /\ slots[1].sealed <= slots[1].n
              BY <1>2, <6>1, SlotOf
            <7> QED BY <1>2, <1>3, <6>1, <6>2, <7>1
          <6>4. slots # <<>>
            BY <1>2, SettledIs DEF Inv
          <6>5. end = FirstOf(0) + 0
            BY <1>2, <6>2, <6>3, <6>4 DEF SlotsOk, Whole, SealedFirst
          <6> QED BY <4>2, <6>5, FirstOfIs
        <5> QED BY <2>2, <5>1, <5>2
      <4>4. ASSUME NEW g \in journal'.segs, g.start = c[i].start PROVE FALSE
        <5>1. PICK l \in 1..Len(c) : c[l].n > 0 /\ g.start = c[l].start
          BY <2>2
        <5>2. l # i /\ l \in 1..n /\ i \in 1..Len(c)
          BY <1>7, <4>1, <5>1
        <5>3. LogEnd(c[l]) <= c[i].start /\ c[l].start <= c[l].log
          BY <1>7, <1>8, <4>2, <5>1, <5>2 DEF SegsOk, Chained
        <5>4. /\ c[l].start \in Nat /\ c[l].log \in Nat /\ c[l].n \in Nat
              /\ LogEnd(c[l]) = c[l].log + c[l].n
          BY <1>7, <5>1, SegmentOf
        <5> QED BY <4>2, <4>4, <5>1, <5>3, <5>4
      <4> QED BY <1>2, <4>2, <4>3, <4>4
    <3> QED BY <1>7, <1>16, <1>18, <2>2, <3>1
  <2>4. LinkInv'
    <3>1. \A x \in 1..at : [slots'[x] EXCEPT !.n = slots'[x].sealed] \in journal'.slots
      BY <1>2, <1>3, <2>2 DEF Record
    <3>2. ASSUME NEW s \in journal'.slots
          PROVE  /\ s.l <= slots'[at].l
                 /\ s.l < slots'[1].l => FirstOf(s.l + 1) <= floor /\ s.l + 1 = slots'[1].l
      <4>1. PICK x \in 1..at : s = Record(slots'[x])
        BY <1>2, <1>3, <2>2
      <4>2. slots'[x] \in SlotRec /\ slots'[x].l = slots'[1].l + (x - 1) /\ slots'[at].l = slots'[1].l + (at - 1) /\ slots'[1].l \in Nat
        <5>1. x \in 1..Len(slots') /\ at \in 1..Len(slots')
          BY <1>2, <1>3
        <5> QED BY <1>2, <1>3, <5>1, SlotOf
      <4>3. PICK a, b, d : a = slots'[1].l /\ b = slots'[at].l /\ d = slots'[x].l
        OBVIOUS
      <4>4. d <= b /\ ~(d < a)
        BY <1>2, <4>2, <4>3
      <4> QED BY <4>1, <4>2, <4>3, <4>4, RecordIs
    <3>3. \A g \in journal'.segs : g.start < end
      BY <1>7, <1>16, <1>18, <2>2
    <3>4. \A g \in journal'.segs, i \in 1..n : ~(c[i].start < g.start /\ g.start < LogEnd(c[i]))
      BY <1>7, <2>2
    <3> QED BY <1>2, <1>3, <1>5, <1>7, <1>11, <1>12, <3>1, <3>2, <3>3, <3>4 DEF LinkInv
  <2>5. FloorInv'
    BY <1>1, <1>2, <1>3, <1>12, <2>2 DEF FloorInv
  <2> QED BY <1>3, <2>2, <2>3, <2>4, <2>5 DEF JournalInv
<1>21. Whole'
  <2>1. SealedFirst'
    <3>1. 1 \in 1..at /\ slots # <<>>
      BY <1>2, SettledIs DEF Inv
    <3>2. slots[1].sealed <= slots'[1].sealed /\ slots[1].sealed \in Nat /\ slots'[1].sealed \in Nat
      <4>1. slots[1].sealed \in Nat /\ slots[1].sealed <= slots[1].n /\ slots'[1].sealed \in Nat
        BY <1>2, <1>3, <3>1, SlotOf
      <4>2. CASE at = 1
        BY <1>2, <1>3, <4>1, <4>2
      <4>3. CASE at # 1
        BY <1>2, <1>3, <3>1, <4>1, <4>3
      <4> QED BY <4>2, <4>3
    <3> QED BY <1>2, <1>3, <3>1, <3>2 DEF SealedFirst, Whole
  <2> QED BY <1>5, <1>7, <1>16, <2>1 DEF Whole, PersistedHave
<1>22. ValueInv'
  BY <1>3, <1>5, <1>10 DEF ValueInv
<1>23. PersistInv' /\ JournalInv' /\ LinkInv' /\ FloorInv'
  BY <1>19, <1>20
<1> QED BY <1>9, <1>13, <1>14, <1>15, <1>21, <1>22, <1>23 DEF Inv

LEMMA SealType ==
  ASSUME Inv, pc \in Sealing, Seal, pc' \in {<<"idle">>, <<"write">>}, stream' \in Nat, rest' \in Nat, open' \in BOOLEAN
  PROVE  TypeInv'
<1>1. cur # None /\ cur \in Cursor /\ cur.crc \in Seq(Nat)
  BY SealedSlotsAre
<1>2. cur' = [cur EXCEPT !.sealed = Len(cur.crc)] /\ UNCHANGED <<floor, end>>
  BY DEF Seal
<1>3. cur' \in Cursor
  BY <1>1, <1>2 DEF Cursor
<1> QED BY <1>2, <1>3 DEF Inv, TypeInv, Steps

LEMMA SealDoneStep ==
  ASSUME Inv, Whole, NEW k \in Reason, SealDone(k)
  PROVE  Inv' /\ Whole'
<1>1. /\ pc = <<"seal", k>> /\ pc \in Sealing /\ Seal
      /\ journal' \in {Replay(journal, pending), Snapshot(slots', segments', floor)}
      /\ pc' = Resume(k) /\ UNCHANGED <<open, rest, stream>>
  BY StepsDiffer DEF SealDone
<1>2. pc' \in {<<"idle">>, <<"write">>}
  BY <1>1, StepsAre
<1>3. pc' \in Working => open' /\ rest' > 0
  BY <1>1, StepsAre, StepsDiffer DEF Working, Inv, CurInv
<1> QED BY <1>1, <1>2, <1>3, SealStep, SealType DEF Inv, TypeInv

LEMMA CompactionFailsStep ==
  ASSUME Inv, Whole, NEW k \in Reason, CompactionFails(k)
  PROVE  Inv' /\ Whole'
<1>1. /\ pc = <<"seal", k>> /\ pc \in Sealing /\ Seal
      /\ journal' \in {Replay(journal, pending), Snapshot(slots', segments', floor)}
      /\ FailUnlessEnd(k)
  BY StepsDiffer DEF CompactionFails
<1>2. pc' = <<"idle">> /\ open' = FALSE /\ (stream' = stream + rest \/ stream' = stream) /\ (rest' = 0 \/ rest' = rest)
  BY <1>1 DEF FailUnlessEnd, Fail
<1>3. TypeInv'
  <2>1. stream + rest \in Nat /\ stream \in Nat /\ rest \in Nat
    BY DEF Inv, TypeInv
  <2>2. rest' \in Nat
    BY <1>2, <2>1
  <2> QED BY <1>1, <1>2, <2>1, <2>2, SealType
<1> QED BY <1>1, <1>2, <1>3, SealStep, StepsDiffer

-----------------------------------------------------------------------------
(* What is sealed first, and what is persisted *)

LEMMA WholeStays ==
  ASSUME Whole, UNCHANGED <<slots, segments>>
  PROVE  Whole'
BY DEF Whole, SealedFirst, PersistedHave

LEMMA FeedWhole ==
  ASSUME Inv, Whole, NEW k \in 1..MaxAppend, NEW gap \in 0..MaxGap, Feed(k, gap)
  PROVE  Whole'
<1>1. UNCHANGED slots
  BY DEF Feed
<1>2. CASE segments' = segments
  BY <1>1, <1>2, WholeStays
<1>3. CASE segments' = BeginSegment(stream + gap)
  <2>1. TypeInv /\ SegsOk(segments, floor, end) /\ stream + gap \in Nat /\ segments \in Seq(SegRec) /\ Len(segments) \in Nat
    BY DEF Inv, SegInv, TypeInv, SegsOk, Chained
  <2>2. PICK m \in 0..Len(segments) : BegunAt(segments', stream + gap, m)
    BY <1>3, <2>1, BeginSegmentIs
  <2>3. ASSUME NEW i \in 1..Len(segments'), segments'[i].persisted PROVE segments'[i].n > 0
    BY <2>1, <2>2, <2>3 DEF NewSegment, Whole, PersistedHave, BegunAt
  <2> QED BY <1>1, <2>3 DEF Whole, PersistedHave, SealedFirst
<1> QED BY <1>2, <1>3 DEF Feed

LEMMA AdvanceWhole ==
  ASSUME Inv, Whole, Advance, Inv'
  PROVE  Whole'
<1> DEFINE at == Len(slots)
<1>1. PICK d, new : Advanced(d, new)
  BY AdvanceIs
<1>2. /\ d \in {0, 1} /\ d \in Nat /\ Len(slots') = at - d + 1
      /\ \A i \in 1..(at - d) : slots'[i] = slots[i + d]
      /\ slots'[Len(slots')] = new
      /\ new.l = (IF slots = <<>> THEN 0 ELSE slots[at].l + 1)
      /\ end' = end
      /\ d = 0 => floor' = floor /\ segments' = segments
      /\ d = 1 => /\ at > 1
                  /\ floor' \in {floor, FirstOf(slots[1].l + 1)}
                  /\ segments' = Trim(segments, floor', open)
  BY <1>1 DEF Advanced
<1>3. /\ Settled = at
      /\ slots # <<>> => slots[at].sealed = SlotSamples /\ end = FirstOf(slots[at].l + 1)
  BY LastIsFull
<1>4. /\ SlotsOk(slots, floor, end) /\ floor \in Nat /\ end \in Nat /\ slots \in Seq(SlotRec)
      /\ at \in Nat /\ (slots = <<>> <=> at = 0)
      /\ SegsOk(segments, floor, end) /\ Chained(segments) /\ segments \in Seq(SegRec)
  BY SettledIs DEF Inv, SlotInv, SegInv, TypeInv, SegsOk, Chained
<1>5. SealedFirst'
  <2>1. CASE at = 0
    BY <1>2, <1>4, <2>1 DEF SealedFirst
  <2>2. CASE at # 0 /\ d = 0
    BY <1>2, <1>4, <2>2 DEF Whole, SealedFirst
  <2>3. CASE d = 1
    <3>1. 1 \in 1..(at - d) /\ 1 + d = 2 /\ 2 \in 1..at /\ at # 0
      BY <1>2, <1>4, <2>3
    <3>2. slots[2].sealed = SlotSamples
      <4>1. CASE at = 2
        BY <1>3, <1>4, <3>1, <4>1
      <4>2. CASE at # 2
        <5>1. PICK a : a = at
          OBVIOUS
        <5>2. 2 < a
          BY <1>4, <3>1, <4>2, <5>1
        <5> QED BY <1>4, <3>1, <5>1, <5>2, SlotOf
      <4> QED BY <4>1, <4>2
    <3> QED BY <1>2, <3>1, <3>2, Sizes DEF SealedFirst
  <2> QED BY <1>2, <2>1, <2>2, <2>3
<1>6. PersistedHave'
  <2>1. CASE d = 0
    BY <1>2, <2>1 DEF Whole, PersistedHave
  <2>2. CASE d = 1
    <3> SUFFICES ASSUME NEW i \in 1..Len(segments'), segments'[i].persisted PROVE segments'[i].n > 0
      BY DEF PersistedHave
    <3>1. floor' \in Nat /\ end' \in Nat /\ SegsOk(segments', floor', end') /\ open \in BOOLEAN
      BY DEF Inv, TypeInv, SegInv
    <3>2. Trimmed(segments, floor', open, segments')
      BY <1>2, <1>4, <2>2, <3>1, TrimChained
    <3>3. PICK h \in 1..Len(segments) : segments'[i].start = segments[h].start /\ segments'[i].persisted = segments[h].persisted
      BY <3>2 DEF Trimmed
    <3>4. FirstOf(slots[1].l + 1) < end
      <4>1. 1 \in 1..at /\ at \in 1..at /\ 1 < at
        BY <1>2, <1>4, <2>2
      <4>2. slots[1].l + 1 < slots[at].l + 1 /\ slots[1].l + 1 \in Nat /\ slots[at].l + 1 \in Nat
        <5>1. PICK u, v : u = slots[1].l /\ v = slots[at].l
          OBVIOUS
        <5>2. u \in Nat /\ v \in Nat /\ u < v
          BY <1>4, <4>1, <5>1, SlotNumbers, SlotOf
        <5>3. u + 1 < v + 1 /\ u + 1 \in Nat /\ v + 1 \in Nat
          BY <5>2
        <5> QED BY <5>1, <5>3
      <4>3. FirstOf(slots[1].l + 1) + SlotSamples <= FirstOf(slots[at].l + 1) /\ FirstOf(slots[1].l + 1) \in Nat
        BY <4>2, FirstOfIs
      <4>4. end = FirstOf(slots[at].l + 1)
        BY <1>3, <1>4, <4>1
      <4>5. PICK a, b : a = FirstOf(slots[1].l + 1) /\ b = FirstOf(slots[at].l + 1)
        OBVIOUS
      <4>6. a < b
        BY <1>4, <4>3, <4>4, <4>5, Sizes
      <4> QED BY <4>4, <4>5, <4>6
    <3>5. floor' < end' /\ segments'[i].start < end'
      BY <1>2, <2>2, <3>3, <3>4, PersistedBelow
    <3> QED BY <3>1, <3>5, BelowHas
  <2> QED BY <1>2, <2>1, <2>2
<1> QED BY <1>5, <1>6 DEF Whole

LEMMA OpenFailsWhole ==
  ASSUME Inv, Whole, OpenFails
  PROVE  Whole'
<1>1. slots' = Front(slots) /\ UNCHANGED segments
  BY DEF OpenFails, logVars
<1>2. slots' # <<>> => slots # <<>> /\ slots'[1] = slots[1]
  BY <1>1, SettledIs DEF Front, Inv
<1> QED BY <1>1, <1>2 DEF Whole, SealedFirst, PersistedHave

LEMMA SyncFailsWhole ==
  ASSUME Inv, Whole, NEW k \in Reason, SyncFails(k)
  PROVE  Whole'
<1>1. pc = <<"sync", k>> /\ cur # None /\ Poison
  BY DEF SyncFails, NothingToDo
<1>2. pc # <<"open">> /\ <<"sync", k>> \in Syncing
  BY <1>1, StepsDiffer
<1>3. ASSUME RolledBack PROVE Whole'
  <2>1. slots' = [slots EXCEPT ![Len(slots)].n = cur.sealed] /\ CutOff(segments, SealedEnd, segments')
    BY <1>3 DEF RolledBack
  <2>2. PersistedHave'
    BY <2>1 DEF CutOff, Chained, Inv, SegInv, SegsOk, Whole, PersistedHave
  <2>3. SealedFirst'
    <3>1. /\ slots # <<>> /\ slots \in Seq(SlotRec) /\ Len(slots) \in 1..Len(slots) /\ Len(slots) \in Nat
          /\ cur.sealed = slots[Len(slots)].sealed
      BY <1>1, <1>2, AtSync
    <3>2. slots[Len(slots)].sealed \in 0..SlotSamples
      <4>1. slots[Len(slots)] \in SlotRec
        BY <3>1
      <4> QED BY <4>1 DEF SlotRec
    <3>3. slots'[1].l = slots[1].l /\ slots'[1].sealed = slots[1].sealed
      <4>1. 1 \in 1..Len(slots)
        BY <3>1
      <4> QED BY <2>1, <3>1, <3>2, <4>1, SlotGrown DEF SlotSet
    <3> QED BY <3>1, <3>3 DEF Whole, SealedFirst
  <2> QED BY <2>2, <2>3 DEF Whole
<1> QED BY <1>1, <1>2, <1>3, PoisonIs, WholeStays

-----------------------------------------------------------------------------
(* What recovery keeps *)

(* Segments that start at different places can be put in the order of the log. *)
Sorted(q, S) ==
  /\ Cardinality(S) \in Nat /\ q \in [1..Cardinality(S) -> S] /\ Range(q) = S
  /\ \A i, j \in 1..Cardinality(S) : i < j => q[i].log < q[j].log

LEMMA SortedIs ==
  ASSUME NEW S, IsFiniteSet(S), \A g \in S : g.log \in Nat, \A g, h \in S : g.log = h.log => g = h
  PROVE  Sorted(InLogOrder(S), S)
<1> DEFINE upTo(g) == {h \in S : h.log <= g.log}
           r == [g \in S |-> Cardinality(upTo(g))]
<1>1. PICK n : n = Cardinality(S)
  OBVIOUS
<1>2. n \in Nat
  BY <1>1, FS_CardinalityType
<1>3. \A g \in S : IsFiniteSet(upTo(g)) /\ r[g] \in 1..n
  BY <1>1, <1>2, FS_Subset, FS_CardinalityType, FS_EmptySet
<1>4. \A g, h \in S : g.log <= h.log => r[g] <= r[h]
  BY <1>3, FS_Subset
<1>5. \A g, h \in S : g.log < h.log => r[g] # r[h]
  <2> SUFFICES ASSUME NEW g \in S, NEW h \in S, g.log < h.log PROVE r[g] # r[h]
    OBVIOUS
  <2>1. upTo(g) \in SUBSET upTo(h) /\ h \in upTo(h) /\ h \notin upTo(g)
    OBVIOUS
  <2>2. Cardinality(upTo(h)) # Cardinality(upTo(g))
    BY <1>3, <2>1, FS_Subset
  <2> QED BY <2>2
<1>6. r \in [S -> 1..n] /\ \A g, h \in S : r[g] = r[h] => g = h
  BY <1>3, <1>5
<1> HIDE DEF r, upTo
<1>7. \A i \in 1..n : \E g \in S : r[g] = i
  <2>1. r \in Injection(S, 1..n)
    BY <1>6 DEF Injection, IsInjective
  <2>2. r \in Surjection(S, 1..n)
    BY <1>1, <1>2, <2>1, FS_Injection, FS_Interval
  <2> QED BY <2>2 DEF Surjection
<1>8. PICK q : q = [i \in 1..n |-> CHOOSE g \in S : r[g] = i]
  OBVIOUS
<1>9. \A i \in 1..n : q[i] \in S /\ r[q[i]] = i
  BY <1>7, <1>8
<1>10. q \in [1..n -> S] /\ DOMAIN q = 1..n
  BY <1>8, <1>9
<1>11. Range(q) = S
  BY <1>6, <1>9, <1>10 DEF Range
<1>12. \A i, j \in 1..n : i < j => q[i].log < q[j].log
  BY <1>2, <1>4, <1>9
<1>13. \E p \in [1..Cardinality(S) -> S] :
          Range(p) = S /\ \A i, j \in DOMAIN p : i < j => p[i].log < p[j].log
  BY <1>1, <1>10, <1>11, <1>12
<1>14. /\ InLogOrder(S) \in [1..Cardinality(S) -> S] /\ Range(InLogOrder(S)) = S
       /\ \A i, j \in DOMAIN InLogOrder(S) : i < j => InLogOrder(S)[i].log < InLogOrder(S)[j].log
  BY <1>13 DEF InLogOrder
<1> QED BY <1>1, <1>2, <1>14 DEF Sorted

(* The slots that were sealed. *)
Live(j) == {s \in j.slots : s.sealed > 0}

(* They are slots low to high of the log, each but the last sealed full. *)
Spans(S, low, high) ==
  /\ low \in Nat /\ high \in Nat /\ low <= high
  /\ Min({s.l : s \in S}) = low /\ Max({s.l : s \in S}) = high
  /\ \A s \in S : /\ s \in SlotRec /\ s.l \in Nat /\ low <= s.l /\ s.l <= high /\ s.sealed > 0
                  /\ s.l < high => s.sealed = SlotSamples
  /\ \A s, t \in S : s.l = t.l \/ s.pos = t.pos => s = t
  /\ \A m \in Nat : low <= m /\ m <= high => \E s \in S : s.l = m

LEMMA LiveSpans ==
  ASSUME NEW j, JournalType(j), JournalSlots(j), Live(j) # {}
  PROVE  \E low, high : Spans(Live(j), low, high)
<1> DEFINE L == {s.l : s \in Live(j)}
<1>1. \A s \in Live(j) : s \in j.slots /\ s \in SlotRec /\ s.l \in Nat /\ s.sealed > 0
  BY SlotRecIs DEF Live, JournalType
<1>2. PICK z \in j.slots : \A t \in j.slots : t.l <= z.l
  BY DEF JournalSlots, Live
<1>3. z.l \in Nat
  BY SlotRecIs DEF JournalType
<1>4. L \in SUBSET (0..z.l) /\ L \in SUBSET Nat /\ L # {}
  BY <1>1, <1>2, <1>3
<1>5. PICK low : low = Min(L)
  OBVIOUS
<1>6. PICK high : high = Max(L)
  OBVIOUS
<1>7. low \in L /\ \A n \in L : low <= n
  BY <1>4, <1>5, MinIs
<1>8. high \in L /\ \A n \in L : n <= high
  BY <1>3, <1>4, <1>6, MaxIs
<1>9. PICK b \in Live(j) : b.l = low
  BY <1>7
<1>10. PICK t \in Live(j) : t.l = high
  BY <1>8
<1>11. low \in Nat /\ high \in Nat /\ low <= high
  BY <1>1, <1>7, <1>8, <1>9, <1>10
<1>12. \A s \in Live(j) : /\ low <= s.l /\ s.l <= high
                          /\ s.l < high => s.sealed = SlotSamples
  BY <1>1, <1>7, <1>8, <1>10 DEF JournalSlots
<1>13. \A s, u \in Live(j) : s.l = u.l \/ s.pos = u.pos => s = u
  BY <1>1 DEF JournalSlots
<1>14. ASSUME NEW m \in Nat, low <= m, m <= high PROVE \E s \in Live(j) : s.l = m
  BY <1>1, <1>9, <1>10, <1>11, <1>14, Sizes DEF JournalSlots, Live
<1> QED BY <1>1, <1>5, <1>6, <1>11, <1>12, <1>13, <1>14 DEF Spans

LEMMA KeptIs ==
  ASSUME NEW j, JournalType(j), JournalSlots(j), NEW r,
         \A s \in j.slots : \A k \in 1..s.sealed : r[<<s.pos, k - 1>>] = s.crc[k]
  PROVE  Kept(j, r) = Live(j)
<1>1. Kept(j, r) = IF Live(j) = {} THEN {} ELSE Verified(Contiguous(Live(j)), r)
  BY DEF Kept, Live
<1>2. CASE Live(j) = {}
  BY <1>1, <1>2
<1>3. CASE Live(j) # {}
  <2>1. PICK low, high : Spans(Live(j), low, high)
    BY <1>3, LiveSpans
  <2>2. /\ low \in Nat /\ high \in Nat /\ low <= high /\ Max({s.l : s \in Live(j)}) = high
        /\ \A s \in Live(j) : /\ s \in SlotRec /\ s.l \in Nat /\ low <= s.l /\ s.l <= high
                              /\ s.l < high => s.sealed = SlotSamples
        /\ \A m \in Nat : low <= m /\ m <= high => \E s \in Live(j) : s.l = m
    BY <2>1 DEF Spans
  <2>3. Contiguous(Live(j)) = Live(j)
    <3>1. ASSUME NEW s \in Live(j), NEW m \in (s.l + 1)..high
          PROVE  \E t \in Live(j) : t.l = m /\ \E u \in Live(j) : u.l = m - 1 /\ u.sealed = SlotSamples
      <4>1. PICK a : a = s.l
        OBVIOUS
      <4>2. a \in Nat /\ low <= a /\ m \in (a + 1)..high
        BY <2>2, <4>1
      <4>3. m \in Nat /\ low <= m /\ m <= high /\ m - 1 \in Nat /\ low <= m - 1 /\ m - 1 <= high /\ m - 1 < high
        BY <2>2, <4>2
      <4>4. PICK t \in Live(j) : t.l = m
        BY <2>2, <4>3
      <4>5. PICK u \in Live(j) : u.l = m - 1
        BY <2>2, <4>3
      <4>6. u.sealed = SlotSamples
        BY <2>2, <4>3, <4>5
      <4> QED BY <4>4, <4>5, <4>6
    <3> QED BY <2>2, <3>1 DEF Contiguous
  <2>4. PICK z \in Live(j) : z.l = high
    BY <2>2
  <2>5. Content(r, z.pos, z.sealed) = z.crc
    <3>1. z \in j.slots /\ z \in SlotRec /\ Len(z.crc) = z.sealed
      BY DEF Live, JournalType
    <3>2. PICK c : c = z.crc
      OBVIOUS
    <3>3. c = [k \in 1..Len(c) |-> c[k]]
      <4>1. c \in Seq(Nat)
        BY <3>1, <3>2, SlotRecIs
      <4> QED BY <4>1
    <3>4. [k \in 1..z.sealed |-> r[<<z.pos, k - 1>>]] = c
      BY <3>1, <3>2, <3>3
    <3> QED BY <3>2, <3>4 DEF Content
  <2>6. Verified(Live(j), r) = Live(j)
    <3>1. PICK good : good = {s \in Live(j) : s.l > high - VerifySlots /\ Content(r, s.pos, s.sealed) = s.crc}
      OBVIOUS
    <3>2. z \in good
      BY <2>2, <2>4, <2>5, <3>1, Sizes
    <3>3. \A s \in Live(j) : s.l <= z.l
      BY <2>2, <2>4
    <3> QED BY <2>2, <3>1, <3>2, <3>3 DEF Verified
  <2> QED BY <1>1, <1>3, <2>3, <2>6
<1> QED BY <1>2, <1>3

(* Of a ring file that was lost, nothing is kept. *)
LEMMA KeptLost ==
  ASSUME NEW j, JournalType(j), NEW r, r = [c \in Cells |-> None]
  PROVE  Kept(j, r) = {}
<1>1. ASSUME NEW s \in Live(j) PROVE Content(r, s.pos, s.sealed) # s.crc
  <2>1. s \in SlotRec /\ s.sealed > 0 /\ Len(s.crc) = s.sealed
    BY DEF Live, JournalType
  <2>2. s.crc \in Seq(Nat) /\ s.pos \in Positions /\ s.sealed \in Nat
    BY <2>1, SlotRecIs
  <2>3. 1 \in 1..s.sealed /\ s.crc[1] \in Nat
    BY <2>1, <2>2
  <2>4. Content(r, s.pos, s.sealed)[1] = None
    BY <2>2, <2>3, Sizes DEF Content, Cells
  <2> QED BY <2>3, <2>4, NoneAssumption
<1>2. Verified(Contiguous(Live(j)), r) = {}
  BY <1>1 DEF Verified, Contiguous
<1> QED BY <1>2 DEF Kept, Live

-----------------------------------------------------------------------------
(* The slots and the segments that recovery gives *)

(* The slots of S in the order of the log. *)
Lined(S, ss, low, high) ==
  /\ ss \in Seq(SlotRec) /\ Len(ss) = high - low + 1 /\ ss # <<>>
  /\ \A i \in 1..Len(ss) : ss[i] \in S /\ ss[i].l = low + (i - 1)
  /\ \A s \in S : \E i \in 1..Len(ss) : s = ss[i]
  /\ ss[Len(ss)].l = high

LEMMA LinedUp ==
  ASSUME NEW S, NEW low, NEW high, Spans(S, low, high),
         NEW ss, ss = [i \in 1..(high - low + 1) |-> CHOOSE s \in S : s.l = low + i - 1]
  PROVE  Lined(S, ss, low, high)
<1>1. /\ low \in Nat /\ high \in Nat /\ low <= high
      /\ \A s \in S : s \in SlotRec /\ s.l \in Nat /\ low <= s.l /\ s.l <= high
      /\ \A s, t \in S : s.l = t.l => s = t
      /\ \A m \in Nat : low <= m /\ m <= high => \E s \in S : s.l = m
  BY DEF Spans
<1>2. PICK n : n = high - low + 1
  OBVIOUS
<1>3. n \in Nat /\ n > 0 /\ high = low + (n - 1)
  BY <1>1, <1>2
<1>4. ASSUME NEW i \in 1..n PROVE ss[i] \in S /\ ss[i].l = low + (i - 1)
  BY <1>1, <1>2, <1>3
<1>5. ss \in Seq(SlotRec) /\ Len(ss) = n /\ ss # <<>>
  <2>1. \A i \in 1..n : ss[i] \in SlotRec
    BY <1>1, <1>4
  <2>2. ss \in [1..n -> SlotRec]
    BY <1>2, <2>1
  <2>3. n \in Nat /\ n > 0
    BY <1>3
  <2>4. PICK t : t = ss
    OBVIOUS
  <2>5. t \in Seq(SlotRec) /\ Len(t) = n
    <3>1. \A m \in Nat : \A u \in [1..m -> SlotRec] : u \in Seq(SlotRec) /\ Len(u) = m
      OBVIOUS
    <3> QED BY <2>2, <2>3, <2>4, <3>1
  <2>6. t # <<>>
    BY <2>3, <2>5
  <2> QED BY <2>4, <2>5, <2>6
<1>6. ASSUME NEW s \in S PROVE \E i \in 1..n : s = ss[i]
  <2>1. PICK i : i = s.l - low + 1
    OBVIOUS
  <2>2. PICK a : a = s.l
    OBVIOUS
  <2>3. i \in 1..n /\ a = low + (i - 1)
    BY <1>1, <1>3, <2>1, <2>2
  <2>4. ss[i] \in S /\ ss[i].l = s.l
    BY <1>4, <2>2, <2>3
  <2> QED BY <1>1, <2>3, <2>4
<1>7. ss[n].l = high
  BY <1>3, <1>4
<1> QED BY <1>2, <1>4, <1>5, <1>6, <1>7 DEF Lined

LEMMA LinedSlotsOk ==
  ASSUME NEW j, JournalType(j), NEW low, NEW high, Spans(Live(j), low, high),
         NEW ss, Lined(Live(j), ss, low, high), NEW e, e = FirstOf(high) + ss[Len(ss)].sealed,
         NEW f \in Nat, FirstOf(low) <= f
  PROVE  SlotsOk(ss, f, e) /\ e \in Nat /\ FirstOf(low) < e
<1>1. /\ low \in Nat /\ high \in Nat /\ low <= high
      /\ \A s \in Live(j) : /\ s \in SlotRec /\ s.l \in Nat /\ s.sealed > 0
                            /\ s.l < high => s.sealed = SlotSamples
      /\ \A s, t \in Live(j) : s.pos = t.pos => s = t
  BY DEF Spans
<1>2. /\ ss \in Seq(SlotRec) /\ Len(ss) = high - low + 1 /\ ss # <<>>
      /\ \A i \in 1..Len(ss) : ss[i] \in Live(j) /\ ss[i].l = low + (i - 1)
      /\ ss[Len(ss)].l = high
  BY DEF Lined
<1>3. \A s \in Live(j) : s.n = s.sealed /\ Len(s.crc) = s.sealed
  BY DEF JournalType, Live
<1>4. PICK n : n = Len(ss)
  OBVIOUS
<1>5. n \in Nat /\ n > 0 /\ 1 \in 1..n /\ n \in 1..n /\ high = low + (n - 1)
  BY <1>1, <1>2, <1>4
<1>6. ss[1].l = low
  BY <1>1, <1>2, <1>4, <1>5
<1>7. ASSUME NEW i \in 1..n
      PROVE  /\ ss[i].l = ss[1].l + (i - 1)
             /\ Len(ss[i].crc) = ss[i].sealed /\ ss[i].sealed <= ss[i].n
             /\ i < n => ss[i].n = SlotSamples /\ ss[i].sealed = SlotSamples
  <2>1. ss[i] \in Live(j) /\ ss[i].l = low + (i - 1)
    BY <1>2, <1>4
  <2>2. ss[i].n = ss[i].sealed /\ Len(ss[i].crc) = ss[i].sealed
    BY <1>3, <2>1
  <2>3. ss[i].sealed <= ss[i].n
    BY <1>1, <2>1, <2>2, SlotRecIs
  <2> QED BY <1>1, <1>5, <1>6, <2>1, <2>2, <2>3
<1>8. ASSUME NEW i \in 1..n, NEW k \in 1..n, ss[i].pos = ss[k].pos PROVE i = k
  <2>1. ss[i] \in Live(j) /\ ss[k] \in Live(j) /\ ss[i].l = low + (i - 1) /\ ss[k].l = low + (k - 1)
    BY <1>2, <1>4
  <2>2. low + (i - 1) = low + (k - 1)
    BY <1>1, <1>8, <2>1
  <2> QED BY <1>1, <2>2
<1>9. ss[n] \in Live(j) /\ ss[n].n = ss[n].sealed /\ ss[n].sealed \in Nat /\ ss[n].sealed > 0
  BY <1>1, <1>2, <1>3, <1>4, <1>5, SlotRecIs
<1>10. e \in Nat /\ FirstOf(low) < e
  <2>1. FirstOf(low) \in Nat /\ FirstOf(high) \in Nat
    BY <1>1, FirstOfIs
  <2>2. FirstOf(low) <= FirstOf(high)
    BY <1>1, <2>1, FirstOfIs, Sizes
  <2>3. PICK m : m = ss[n].sealed
    OBVIOUS
  <2> QED BY <1>4, <1>9, <2>1, <2>2, <2>3
<1>11. e = FirstOf(ss[n].l) + ss[n].n /\ FirstOf(ss[1].l) <= f
  BY <1>2, <1>4, <1>6, <1>9
<1> QED BY <1>2, <1>4, <1>7, <1>8, <1>10, <1>11 DEF SlotsOk

(* The segments between f and e that the starts of a journal give. *)
Stop(j, e, g)  == Min({e} \cup {h.start : h \in {x \in j.segs : x.start > g.start}})
Above(f, g)    == Max({g.start, f})
Between(j, f, e) ==
  {[start |-> g.start, log |-> Above(f, g), n |-> Stop(j, e, g) - Above(f, g),
    first |-> g.first, persisted |-> TRUE] : g \in {x \in j.segs : Above(f, x) < Stop(j, e, x)}}

LEMMA StopIs ==
  ASSUME NEW j, JournalType(j), NEW e \in Nat, NEW g \in j.segs
  PROVE  /\ Stop(j, e, g) \in Nat /\ Stop(j, e, g) <= e
         /\ Stop(j, e, g) = e \/ \E h \in j.segs : h.start > g.start /\ Stop(j, e, g) = h.start
         /\ \A h \in j.segs : h.start > g.start => Stop(j, e, g) <= h.start
<1> DEFINE T == {e} \cup {h.start : h \in {x \in j.segs : x.start > g.start}}
<1>1. T \in SUBSET Nat /\ e \in T
  BY DEF JournalType, Start
<1> HIDE DEF T
<1>2. Min(T) \in T /\ \A n \in T : Min(T) <= n
  BY <1>1, MinIs
<1> USE DEF T
<1> QED BY <1>1, <1>2 DEF Stop

(* Segment s is what start g gives. *)
GivenBy(s, j, f, e, g) ==
  /\ g \in j.segs
  /\ s = [start |-> g.start, log |-> Above(f, g), n |-> Stop(j, e, g) - Above(f, g),
          first |-> g.first, persisted |-> TRUE]
  /\ s \in SegRec /\ s.start = g.start /\ s.first = g.first /\ s.persisted = TRUE
  /\ s.log = (IF g.start >= f THEN g.start ELSE f)
  /\ s.log \in Nat /\ f <= s.log /\ g.start <= s.log /\ s.log < Stop(j, e, g)
  /\ LogEnd(s) = Stop(j, e, g) /\ s.n > 0

LEMMA BetweenIs ==
  ASSUME NEW j, JournalType(j), NEW f \in Nat, NEW e \in Nat
  PROVE  /\ \A s \in Between(j, f, e) : \E g \in j.segs : GivenBy(s, j, f, e, g)
         /\ \A g \in j.segs : g.start < Stop(j, e, g) /\ f < Stop(j, e, g) =>
              \E s \in Between(j, f, e) : GivenBy(s, j, f, e, g)
         /\ IsFiniteSet(Between(j, f, e))
<1>1. \A g \in j.segs : g.start \in Nat /\ g.first \in Nat
  BY DEF JournalType, Start
<1>2. ASSUME NEW g \in j.segs, Above(f, g) < Stop(j, e, g),
             NEW s, s = [start |-> g.start, log |-> Above(f, g), n |-> Stop(j, e, g) - Above(f, g),
                         first |-> g.first, persisted |-> TRUE]
      PROVE  GivenBy(s, j, f, e, g)
  <2>1. PICK a : a = Above(f, g)
    OBVIOUS
  <2>2. PICK b : b = Stop(j, e, g)
    OBVIOUS
  <2>3. a = (IF g.start >= f THEN g.start ELSE f)
    BY <1>1, <2>1, MaxOfTwo DEF Above
  <2>4. PICK c : c = g.start
    OBVIOUS
  <2>5. a \in Nat /\ b \in Nat /\ a < b /\ f <= a /\ c <= a /\ c \in Nat
    BY <1>1, <1>2, <2>1, <2>2, <2>3, <2>4, StopIs
  <2>6. b - a \in Nat /\ b - a > 0 /\ a + (b - a) = b
    BY <2>5
  <2>7. s = [start |-> c, log |-> a, n |-> b - a, first |-> g.first, persisted |-> TRUE]
    BY <1>2, <2>1, <2>2, <2>4
  <2>8. s \in SegRec
    BY <1>1, <2>5, <2>6, <2>7 DEF SegRec
  <2>9. LogEnd(s) = b
    BY <2>6, <2>7 DEF LogEnd
  <2> QED BY <1>2, <2>1, <2>2, <2>3, <2>4, <2>5, <2>6, <2>7, <2>8, <2>9 DEF GivenBy
<1>3. ASSUME NEW s \in Between(j, f, e) PROVE \E g \in j.segs : GivenBy(s, j, f, e, g)
  BY <1>2 DEF Between
<1>4. ASSUME NEW g \in j.segs, g.start < Stop(j, e, g), f < Stop(j, e, g)
      PROVE  \E s \in Between(j, f, e) : GivenBy(s, j, f, e, g)
  <2>1. Above(f, g) < Stop(j, e, g)
    BY <1>1, <1>4, MaxOfTwo DEF Above
  <2>2. PICK s : s = [start |-> g.start, log |-> Above(f, g), n |-> Stop(j, e, g) - Above(f, g),
                      first |-> g.first, persisted |-> TRUE]
    OBVIOUS
  <2> QED BY <1>2, <2>1, <2>2 DEF Between
<1>5. IsFiniteSet(Between(j, f, e))
  <2>1. PICK T : T = {x \in j.segs : Above(f, x) < Stop(j, e, x)}
    OBVIOUS
  <2>2. IsFiniteSet(T)
    BY <2>1, FS_Subset DEF JournalType
  <2>3. PICK F : F = [g \in T |-> [start |-> g.start, log |-> Above(f, g), n |-> Stop(j, e, g) - Above(f, g),
                                   first |-> g.first, persisted |-> TRUE]]
    OBVIOUS
  <2>4. DOMAIN F = T /\ F = [x \in DOMAIN F |-> F[x]]
    BY <2>3
  <2>5. {F[x] : x \in DOMAIN F} = Between(j, f, e)
    BY <2>1, <2>3, <2>4 DEF Between
  <2> QED BY <2>2, <2>4, <2>5, ImageFinite
<1> QED BY <1>3, <1>4, <1>5

(* Every segment is given by a start of the journal. *)
FromStarts(segs, j, f, e) ==
  segs \in Seq(SegRec) /\ \A i \in 1..Len(segs) : \E g \in j.segs : GivenBy(segs[i], j, f, e, g)

LEMMA GivenOrder ==
  ASSUME NEW j, JournalType(j), NEW f \in Nat, NEW e \in Nat,
         NEW s, NEW t, NEW g, NEW h, GivenBy(s, j, f, e, g), GivenBy(t, j, f, e, h), s.log < t.log
  PROVE  /\ g.start < h.start /\ t.log = h.start /\ t.start = h.start /\ LogEnd(s) <= h.start
         /\ LogEnd(s) \in Nat
<1>1. /\ g \in j.segs /\ s.log = (IF g.start >= f THEN g.start ELSE f)
      /\ LogEnd(s) = Stop(j, e, g) /\ s.log \in Nat /\ f <= s.log
  BY DEF GivenBy
<1>2. /\ h \in j.segs /\ t.log = (IF h.start >= f THEN h.start ELSE f) /\ t.start = h.start /\ t.log \in Nat
  BY DEF GivenBy
<1>3. PICK a, b, c, d : a = g.start /\ b = h.start /\ c = s.log /\ d = t.log
  OBVIOUS
<1>4. a < b /\ d = b
  BY <1>1, <1>2, <1>3 DEF JournalType, Start
<1> QED BY <1>1, <1>2, <1>3, <1>4, StopIs

LEMMA RecoveredSegs ==
  ASSUME NEW j, JournalType(j), NEW f \in Nat, NEW e \in Nat, f <= e,
         f < e => \E g \in j.segs : g.start <= f,
         NEW segs, segs = InLogOrder(Between(j, f, e))
  PROVE  SegsOk(segs, f, e) /\ FromStarts(segs, j, f, e)
<1> DEFINE A == Between(j, f, e)
<1>1. /\ \A s \in A : \E g \in j.segs : GivenBy(s, j, f, e, g)
      /\ \A g \in j.segs : g.start < Stop(j, e, g) /\ f < Stop(j, e, g) => \E s \in A : GivenBy(s, j, f, e, g)
      /\ IsFiniteSet(A)
  BY BetweenIs
<1> HIDE DEF A
<1>2. \A s \in A : s \in SegRec /\ s.log \in Nat /\ s.n > 0 /\ s.start \in Nat /\ s.start <= s.log
                   /\ LogEnd(s) \in Nat /\ LogEnd(s) <= e /\ s.log < LogEnd(s) /\ f <= s.log
  BY <1>1, StopIs, SegmentIs DEF GivenBy
<1>3. ASSUME NEW s \in A, NEW t \in A, s.log = t.log PROVE s = t
  <2>1. PICK g \in j.segs : GivenBy(s, j, f, e, g)
    BY <1>1
  <2>2. PICK h \in j.segs : GivenBy(t, j, f, e, h)
    BY <1>1
  <2>3. g.start \in Nat /\ h.start \in Nat
    BY DEF JournalType, Start
  <2>4. ~(g.start < h.start)
    BY <1>3, <2>1, <2>2, <2>3, StopIs DEF GivenBy
  <2>5. ~(h.start < g.start)
    BY <1>3, <2>1, <2>2, <2>3, StopIs DEF GivenBy
  <2>6. g.start = h.start
    BY <2>3, <2>4, <2>5
  <2> QED BY <2>1, <2>2, <2>6 DEF GivenBy, JournalType
<1>4. PICK n : n = Cardinality(A)
  OBVIOUS
<1>5. /\ n \in Nat /\ segs \in [1..n -> A] /\ Range(segs) = A
      /\ \A i, k \in 1..n : i < k => segs[i].log < segs[k].log
  BY <1>1, <1>2, <1>3, <1>4, SortedIs DEF Sorted, A
<1>6. segs \in Seq(SegRec) /\ Len(segs) = n /\ (segs = <<>> <=> n = 0)
  BY <1>2, <1>5
<1>7. \A i \in 1..n : segs[i] \in A
  BY <1>5
<1>8. \A s \in A : \E i \in 1..n : s = segs[i]
  BY <1>5 DEF Range
<1>9. ASSUME NEW i \in 1..n, NEW k \in 1..n, i < k
       PROVE  LogEnd(segs[i]) <= segs[k].start /\ segs[k].log = segs[k].start
  <2>1. PICK g \in j.segs : GivenBy(segs[i], j, f, e, g)
    BY <1>1, <1>7
  <2>2. PICK h \in j.segs : GivenBy(segs[k], j, f, e, h)
    BY <1>1, <1>7
  <2>3. PICK s, t : s = segs[i] /\ t = segs[k]
    OBVIOUS
  <2>4. GivenBy(s, j, f, e, g) /\ GivenBy(t, j, f, e, h) /\ s.log < t.log
    BY <1>5, <1>9, <2>1, <2>2, <2>3
  <2>5. h.start = t.log /\ h.start = t.start /\ LogEnd(s) <= h.start
    BY <1>1, <2>4, GivenOrder
  <2> QED BY <2>3, <2>5
<1>10. ASSUME NEW i \in 1..n, NEW g \in j.segs, GivenBy(segs[i], j, f, e, g), Stop(j, e, g) # e
       PROVE  \E k \in 1..n : i < k /\ segs[k].log = LogEnd(segs[i])
  <2>1. PICK h \in j.segs : h.start > g.start /\ Stop(j, e, g) = h.start
    BY <1>10, StopIs
  <2>2. Stop(j, e, g) \in Nat /\ Stop(j, e, g) <= e /\ Stop(j, e, h) \in Nat /\ Stop(j, e, h) <= e
    BY StopIs
  <2>3. h.start < e /\ h.start \in Nat
    BY <1>10, <2>1, <2>2
  <2>4. h.start < Stop(j, e, h)
    <3>1. \A u \in j.segs : u.start \in Nat
      BY DEF JournalType, Start
    <3> QED BY <2>3, <3>1, StopIs
  <2>5. f <= segs[i].log /\ segs[i].log < Stop(j, e, g) /\ LogEnd(segs[i]) = Stop(j, e, g) /\ segs[i].log \in Nat
    BY <1>10 DEF GivenBy
  <2>6. f < h.start
    BY <2>1, <2>3, <2>5
  <2>7. PICK s \in A : GivenBy(s, j, f, e, h)
    BY <1>1, <2>2, <2>3, <2>4, <2>6
  <2>8. PICK k \in 1..n : s = segs[k]
    BY <1>8
  <2>9. segs[k].log = LogEnd(segs[i]) /\ segs[i].log < segs[k].log
    BY <2>1, <2>3, <2>5, <2>6, <2>7, <2>8 DEF GivenBy
  <2>10. i < k
    BY <1>2, <1>5, <1>7, <2>9
  <2> QED BY <2>9, <2>10
<1>11. ASSUME NEW i \in 1..n, i < n PROVE segs[i + 1].log = LogEnd(segs[i])
  <2>1. PICK g \in j.segs : GivenBy(segs[i], j, f, e, g)
    BY <1>1, <1>7
  <2>2. i + 1 \in 1..n /\ i < i + 1
    BY <1>5, <1>11
  <2>3. LogEnd(segs[i]) <= segs[i + 1].log
    BY <1>9, <2>2
  <2>4. Stop(j, e, g) # e
    BY <1>2, <1>7, <2>1, <2>2, <2>3, StopIs DEF GivenBy
  <2>5. PICK k \in 1..n : i < k /\ segs[k].log = LogEnd(segs[i])
    BY <1>10, <2>1, <2>4
  <2>6. ~(i + 1 < k)
    <3>1. PICK c, d : c = segs[i + 1].log /\ d = segs[k].log
      OBVIOUS
    <3>2. c \in Nat /\ d \in Nat /\ d <= c
      BY <1>2, <1>7, <2>2, <2>3, <2>5, <3>1
    <3> QED BY <1>5, <2>2, <3>1, <3>2
  <2> QED BY <1>5, <2>2, <2>5, <2>6
<1>12. Chained(segs)
  BY <1>2, <1>6, <1>7, <1>9, <1>11 DEF Chained
<1>13. n > 0 => LogEnd(segs[n]) = e
  <2> SUFFICES ASSUME n > 0 PROVE LogEnd(segs[n]) = e
    OBVIOUS
  <2>1. n \in 1..n
    BY <1>5
  <2>2. PICK g \in j.segs : GivenBy(segs[n], j, f, e, g)
    BY <1>1, <1>7, <2>1
  <2>3. Stop(j, e, g) = e
    BY <1>5, <1>10, <2>1, <2>2
  <2> QED BY <2>2, <2>3 DEF GivenBy
<1>14. f < e => n > 0 /\ segs[1].log = f
  <2> SUFFICES ASSUME f < e PROVE n > 0 /\ segs[1].log = f
    OBVIOUS
  <2> DEFINE T == {g.start : g \in {x \in j.segs : x.start <= f}}
  <2>1. T \in SUBSET (0..f) /\ T # {}
    BY SMTT(40) DEF JournalType, Start
  <2>2. PICK a \in T : \A b \in T : b <= a
    BY <2>1, Greatest
  <2>3. PICK g \in j.segs : g.start = a /\ g.start <= f
    BY <2>2
  <2>4. \A h \in j.segs : h.start <= f => h.start <= g.start
    BY <2>2, <2>3
  <2> HIDE DEF T
  <2>5. f < Stop(j, e, g)
    <3>1. Stop(j, e, g) = e \/ \E u \in j.segs : u.start > g.start /\ Stop(j, e, g) = u.start
      BY StopIs
    <3>2. \A u \in j.segs : u.start \in Nat
      BY DEF JournalType, Start
    <3> QED BY <2>4, <3>1, <3>2
  <2>6. g.start \in Nat /\ Stop(j, e, g) \in Nat
    BY StopIs DEF JournalType, Start
  <2>7. PICK s \in A : GivenBy(s, j, f, e, g)
    BY <1>1, <2>3, <2>5, <2>6
  <2>8. PICK k \in 1..n : s = segs[k]
    BY <1>8
  <2>9. segs[k].log = f
    BY <2>3, <2>6, <2>7, <2>8 DEF GivenBy
  <2>10. n > 0 /\ 1 \in 1..n
    BY <1>5
  <2>11. k = 1
    BY <1>2, <1>5, <1>7, <2>9, <2>10
  <2> QED BY <2>9, <2>10, <2>11
<1>15. f = e => n = 0
  BY <1>2, <1>5, <1>7
<1>16. SegsOk(segs, f, e)
  BY <1>5, <1>6, <1>12, <1>13, <1>14, <1>15 DEF SegsOk
<1> QED BY <1>1, <1>6, <1>7, <1>16 DEF FromStarts

(* What the recovered segments say of a sealed sample is its content. *)
LEMMA RecoveredValues ==
  ASSUME NEW j, JournalType(j), JournalValues(j), NEW f \in Nat, NEW e \in Nat,
         f < e => j.floor <= f, NEW segs, FromStarts(segs, j, f, e),
         NEW s \in j.slots, NEW k \in 0..(s.sealed - 1), NEW i \in 1..Len(segs),
         segs[i].log <= FirstOf(s.l) + k, FirstOf(s.l) + k < LogEnd(segs[i])
  PROVE  s.crc[k + 1] = IndexAt(segs[i], FirstOf(s.l) + k)
<1>1. PICK g \in j.segs : GivenBy(segs[i], j, f, e, g)
  BY DEF FromStarts
<1>2. PICK p : p = FirstOf(s.l) + k
  OBVIOUS
<1>3. s \in SlotRec /\ FirstOf(s.l) \in Nat /\ s.sealed \in Nat
  BY SlotRecIs DEF JournalType
<1>4. p \in Nat /\ k + 1 \in 1..s.sealed /\ FirstOf(s.l) + ((k + 1) - 1) = p
  BY <1>2, <1>3
<1>5. /\ segs[i] \in SegRec /\ segs[i].start = g.start /\ segs[i].first = g.first
      /\ f <= segs[i].log /\ segs[i].log \in Nat /\ g.start <= segs[i].log /\ LogEnd(segs[i]) = Stop(j, e, g)
  BY <1>1 DEF GivenBy
<1>6. Stop(j, e, g) \in Nat /\ Stop(j, e, g) <= e /\ \A h \in j.segs : h.start > g.start => Stop(j, e, g) <= h.start
  BY StopIs
<1>7. PICK a, b : a = segs[i].log /\ b = Stop(j, e, g)
  OBVIOUS
<1>8. a \in Nat /\ b \in Nat /\ a <= p /\ p < b /\ b <= e /\ f <= a /\ g.start <= a
  BY <1>2, <1>5, <1>6, <1>7
<1>9. g.start \in Nat /\ j.floor \in Nat /\ \A h \in j.segs : h.start \in Nat
  BY DEF JournalType, Start
<1>10. f < e /\ j.floor <= p /\ g.start <= p
  BY SMTT(40), <1>4, <1>8, <1>9
<1>11. PICK h \in j.segs : /\ h.start <= FirstOf(s.l) + ((k + 1) - 1)
                           /\ s.crc[k + 1] = h.first + (FirstOf(s.l) + ((k + 1) - 1) - h.start)
                           /\ \A u \in j.segs : u.start <= FirstOf(s.l) + ((k + 1) - 1) => u.start <= h.start
  BY <1>4, <1>10 DEF JournalValues
<1>12. h.start <= p /\ s.crc[k + 1] = h.first + (p - h.start) /\ g.start <= h.start
  <2>1. PICK c, d, m : c = FirstOf(s.l) /\ d = h.start /\ m = (k + 1) - 1
    OBVIOUS
  <2>2. c \in Nat /\ d \in Nat /\ m \in Nat /\ c + m = p
    BY <1>3, <1>4, <1>9, <2>1
  <2>3. c + (m - d) = p - d
    BY <2>2
  <2>4. g.start <= c + m => g.start <= d
    BY <1>11, <2>1
  <2> QED BY <1>10, <1>11, <2>1, <2>2, <2>3, <2>4
<1>13. ~(h.start > g.start)
  BY <1>4, <1>6, <1>7, <1>8, <1>9, <1>12
<1>14. h = g
  BY <1>9, <1>12, <1>13 DEF JournalType
<1> QED BY <1>2, <1>4, <1>5, <1>12, <1>14 DEF IndexAt

-----------------------------------------------------------------------------
(* The index that recovery gives *)

LEMMA RecoveredNone ==
  ASSUME NEW j, NEW r, Kept(j, r) = {}
  PROVE  Recovered(j, r) = [slots |-> <<>>, segments |-> <<>>, floor |-> j.floor, end |-> 0]
BY DEF Recovered

InLine(S, low, high) == [i \in 1..(high - low + 1) |-> CHOOSE s \in S : s.l = low + i - 1]

LEMMA RecoveredIs ==
  ASSUME NEW j, NEW r, Kept(j, r) # {}, NEW low, NEW high, Spans(Kept(j, r), low, high),
         NEW ss, ss = InLine(Kept(j, r), low, high),
         NEW e, e = FirstOf(high) + ss[Len(ss)].sealed,
         NEW f, f = Min({Max({j.floor, FirstOf(low)}), e})
  PROVE  Recovered(j, r) = [slots |-> ss, segments |-> InLogOrder(Between(j, f, e)), floor |-> f, end |-> e]
<1> DEFINE lo == Min({s.l : s \in Kept(j, r)})
           hi == Max({s.l : s \in Kept(j, r)})
           sq == InLine(Kept(j, r), lo, hi)
           ee == FirstOf(hi) + sq[Len(sq)].sealed
           ff == Min({Max({j.floor, FirstOf(lo)}), ee})
<1>1. Recovered(j, r) = [slots |-> sq, segments |-> InLogOrder(Between(j, ff, ee)), floor |-> ff, end |-> ee]
  BY DEF Recovered, Between, Stop, Above, InLine
<1>2. lo = low /\ hi = high
  BY DEF Spans
<1> HIDE DEF lo, hi
<1>3. sq = ss
  BY <1>2
<1> HIDE DEF sq
<1>4. ee = e
  BY <1>2, <1>3
<1> HIDE DEF ee
<1>5. ff = f
  BY <1>2, <1>4
<1> HIDE DEF ff
<1> QED BY <1>1, <1>3, <1>4, <1>5

(* What a recovered index rec of journal j and ring file rg is. *)
Rebuilt(rec, j, rg) ==
  /\ rec.floor \in Nat /\ rec.end \in Nat
  /\ SlotsOk(rec.slots, rec.floor, rec.end)
  /\ SegsOk(rec.segments, rec.floor, rec.end)
  /\ ValuesOk(rec.slots, rec.segments, rg)
  /\ \A x \in 1..Len(rec.slots) : rec.slots[x] \in Live(j)
  /\ \A i \in 1..Len(rec.segments) : rec.segments[i].persisted /\ rec.segments[i].n > 0
                                      /\ rec.segments[i].start < rec.end
  /\ rec.floor <= rec.end \/ (Kept(j, rg) = {} /\ rec.floor = j.floor /\ rec.slots = <<>>)

(* No live slot of the journal and no start of a segment is made up, and none is   *)
(* lost above the journal's floor.                                                 *)
Recalled(rec, j, rg) ==
  /\ \A i \in 1..Len(rec.segments) : Segment(rec.segments[i]) \in j.segs
  /\ Kept(j, rg) = Live(j) => \A s \in Live(j) : \E x \in 1..Len(rec.slots) : s = rec.slots[x]
  /\ \A s \in Live(j) : \A p \in Nat : j.floor <= p /\ FirstOf(s.l) <= p => rec.floor <= p

LEMMA RecoveredOk ==
  ASSUME NEW j, JournalOk(j), NEW rg,
         \/ \A s \in j.slots : \A k \in 1..s.sealed : rg[<<s.pos, k - 1>>] = s.crc[k]
         \/ rg = [c \in Cells |-> None],
         NEW rec, rec = Recovered(j, rg)
  PROVE  Rebuilt(rec, j, rg) /\ Recalled(rec, j, rg)
<1>1. JournalType(j) /\ JournalSlots(j) /\ JournalValues(j) /\ j.floor \in Nat
  BY DEF JournalOk, JournalType
<1>2. CASE Kept(j, rg) = {}
  <2>1. rec.slots = <<>> /\ rec.segments = <<>> /\ rec.floor = j.floor /\ rec.end = 0
    BY <1>2, RecoveredNone
  <2>2. PICK ss : ss = rec.slots
    OBVIOUS
  <2>3. ss = <<>> /\ ss \in Seq(SlotRec) /\ Len(ss) = 0 /\ 1..Len(ss) = {}
    BY <2>1, <2>2
  <2>4. PICK segs : segs = rec.segments
    OBVIOUS
  <2>5. segs = <<>> /\ segs \in Seq(SegRec) /\ Len(segs) = 0 /\ 1..Len(segs) = {}
    BY <2>1, <2>4
  <2>6. SlotsOk(ss, j.floor, 0)
    BY <2>3 DEF SlotsOk
  <2>7. SegsOk(segs, j.floor, 0)
    BY <1>1, <2>5 DEF SegsOk, Chained
  <2>8. ValuesOk(ss, segs, rg)
    BY <2>3 DEF ValuesOk
  <2>9. Rebuilt(rec, j, rg)
    BY <1>1, <1>2, <2>1, <2>2, <2>3, <2>4, <2>5, <2>6, <2>7, <2>8 DEF Rebuilt
  <2> QED BY <1>2, <2>1, <2>4, <2>5, <2>9 DEF Recalled
<1>3. CASE Kept(j, rg) # {}
  <2>1. \A s \in j.slots : \A k \in 1..s.sealed : rg[<<s.pos, k - 1>>] = s.crc[k]
    BY <1>1, <1>3, KeptLost
  <2>2. Kept(j, rg) = Live(j)
    BY <1>1, <2>1, KeptIs
  <2>3. PICK low, high : Spans(Live(j), low, high)
    BY <1>1, <1>3, <2>2, LiveSpans
  <2>4. PICK ss : ss = InLine(Live(j), low, high)
    OBVIOUS
  <2>5. Lined(Live(j), ss, low, high)
    BY <2>3, <2>4, LinedUp DEF InLine
  <2>6. PICK e : e = FirstOf(high) + ss[Len(ss)].sealed
    OBVIOUS
  <2>7. PICK f : f = Min({Max({j.floor, FirstOf(low)}), e})
    OBVIOUS
  <2>8. low \in Nat /\ FirstOf(low) \in Nat
    BY <2>3, FirstOfIs DEF Spans
  <2>9. e \in Nat /\ FirstOf(low) < e
    BY <1>1, <2>3, <2>5, <2>6, <2>8, LinedSlotsOk
  <2>10. /\ f \in Nat /\ FirstOf(low) <= f /\ f <= e /\ (f < e => j.floor <= f)
         /\ f <= j.floor \/ f <= FirstOf(low)
    <3>1. PICK m : m = Max({j.floor, FirstOf(low)})
      OBVIOUS
    <3>2. PICK a : a = FirstOf(low)
      OBVIOUS
    <3>3. m = (IF j.floor >= a THEN j.floor ELSE a) /\ a \in Nat /\ a < e
      BY <1>1, <2>8, <2>9, <3>1, <3>2, MaxOfTwo
    <3>4. m \in Nat /\ a <= m /\ j.floor <= m
      BY <1>1, <3>3
    <3>5. f = IF m <= e THEN m ELSE e
      BY <2>7, <2>9, <3>1, <3>4, MinOfTwo
    <3> QED BY <1>1, <2>9, <3>2, <3>3, <3>4, <3>5
  <2>11. SlotsOk(ss, f, e)
    BY <1>1, <2>3, <2>5, <2>6, <2>10, LinedSlotsOk
  <2>12. \A x \in 1..Len(ss) : ss[x] \in Live(j) /\ ss[x] \in j.slots /\ ss[x].n = ss[x].sealed
    BY <1>1, <2>5 DEF Lined, Live, JournalType
  <2>13. f < e => \E g \in j.segs : g.start <= f
    <3> SUFFICES ASSUME f < e PROVE \E g \in j.segs : g.start <= f
      OBVIOUS
    <3>1. PICK x \in 1..Len(ss), k \in Nat : Places(ss, f, x, k)
      <4>1. f \in Nat /\ e \in Nat /\ f <= f /\ SlotsOk(ss, f, e)
        BY <2>9, <2>10, <2>11
      <4> QED BY <4>1, SlotAt
    <3>2. k \in 0..(ss[x].n - 1) /\ f = FirstOf(ss[x].l) + k
      BY <3>1 DEF Places
    <3>3. ss[x] \in j.slots /\ ss[x].n = ss[x].sealed /\ ss[x].sealed \in Nat /\ FirstOf(ss[x].l) \in Nat
      BY <2>9, <2>10, <2>11, <2>12, SlotOf
    <3>4. PICK c : c = FirstOf(ss[x].l)
      OBVIOUS
    <3>5. k + 1 \in 1..ss[x].sealed /\ c + ((k + 1) - 1) = f
      BY <3>2, <3>3, <3>4
    <3>6. \E g \in j.segs : g.start <= FirstOf(ss[x].l) + ((k + 1) - 1)
      BY <1>1, <2>10, <3>3, <3>4, <3>5 DEF JournalValues
    <3> QED BY <3>4, <3>5, <3>6
  <2>14. PICK segs : segs = InLogOrder(Between(j, f, e))
    OBVIOUS
  <2>15. SegsOk(segs, f, e) /\ FromStarts(segs, j, f, e)
    BY <1>1, <2>9, <2>10, <2>13, <2>14, RecoveredSegs
  <2>16. Recovered(j, rg) = [slots |-> ss, segments |-> segs, floor |-> f, end |-> e]
    BY <1>3, <2>2, <2>3, <2>4, <2>6, <2>7, <2>14, RecoveredIs
  <2>17. rec.slots = ss /\ rec.segments = segs /\ rec.floor = f /\ rec.end = e
    BY <2>16
  <2>18. ValuesOk(ss, segs, rg)
    <3> SUFFICES ASSUME NEW x \in 1..Len(ss), NEW i \in 1..Len(segs), NEW k \in 0..(ss[x].n - 1),
                        segs[i].log <= FirstOf(ss[x].l) + k, FirstOf(ss[x].l) + k < LogEnd(segs[i])
                 PROVE  rg[<<ss[x].pos, k>>] = IndexAt(segs[i], FirstOf(ss[x].l) + k)
      BY DEF ValuesOk
    <3>1. PICK s : s = ss[x]
      OBVIOUS
    <3>2. s \in j.slots /\ s.n = s.sealed /\ s.sealed \in Nat /\ k \in 0..(s.sealed - 1)
      BY <1>1, <2>12, <3>1, SlotRecIs DEF JournalType
    <3>3. s.crc[k + 1] = IndexAt(segs[i], FirstOf(s.l) + k)
      <4>1. f < e => j.floor <= f
        BY <2>10
      <4>2. f \in Nat /\ e \in Nat /\ JournalType(j) /\ JournalValues(j) /\ FromStarts(segs, j, f, e)
        BY <1>1, <2>9, <2>10, <2>15
      <4>3. segs[i].log <= FirstOf(s.l) + k /\ FirstOf(s.l) + k < LogEnd(segs[i])
        BY <3>1
      <4> QED BY SMTT(40), <3>2, <4>1, <4>2, <4>3, RecoveredValues
    <3>4. k + 1 \in 1..s.sealed /\ (k + 1) - 1 = k
      BY <3>2
    <3>5. rg[<<s.pos, k>>] = s.crc[k + 1]
      BY <2>1, <3>2, <3>4
    <3> QED BY <3>1, <3>3, <3>5
  <2>19. ASSUME NEW i \in 1..Len(segs) PROVE segs[i].persisted /\ segs[i].n > 0 /\ segs[i].start < e
    <3>1. PICK g \in j.segs : GivenBy(segs[i], j, f, e, g)
      BY <2>15 DEF FromStarts
    <3>2. Stop(j, e, g) <= e /\ Stop(j, e, g) \in Nat
      BY <1>1, <2>9, StopIs
    <3>3. /\ segs[i].start = g.start /\ segs[i].persisted = TRUE /\ segs[i].n > 0
          /\ segs[i].log \in Nat /\ g.start <= segs[i].log /\ segs[i].log < Stop(j, e, g)
      BY <3>1 DEF GivenBy
    <3>4. g.start \in Nat
      BY <1>1 DEF JournalType, Start
    <3>5. PICK a, b : a = segs[i].log /\ b = Stop(j, e, g)
      OBVIOUS
    <3>6. g.start < e
      BY <2>9, <3>2, <3>3, <3>4, <3>5
    <3> QED BY <3>3, <3>6
  <2>20. Rebuilt(rec, j, rg)
    BY <2>9, <2>10, <2>11, <2>12, <2>15, <2>17, <2>18, <2>19 DEF Rebuilt
  <2>21. ASSUME NEW i \in 1..Len(segs) PROVE Segment(segs[i]) \in j.segs
    <3>1. PICK g \in j.segs : GivenBy(segs[i], j, f, e, g)
      BY <2>15 DEF FromStarts
    <3>2. segs[i].start = g.start /\ segs[i].first = g.first
      BY <3>1 DEF GivenBy
    <3> QED BY <1>1, <3>2 DEF Segment, JournalType, Start
  <2>22. ASSUME NEW s \in Live(j), NEW p \in Nat, j.floor <= p, FirstOf(s.l) <= p PROVE f <= p
    <3>1. s.l \in Nat /\ low <= s.l
      BY <2>3 DEF Spans
    <3>2. FirstOf(low) <= FirstOf(s.l) /\ FirstOf(s.l) \in Nat
      <4>1. CASE low = s.l
        BY <2>8, <4>1
      <4>2. CASE low < s.l
        <5>1. FirstOf(low) + SlotSamples <= FirstOf(s.l) /\ FirstOf(s.l) \in Nat
          BY <2>8, <3>1, <4>2, FirstOfIs
        <5> QED BY <2>8, <5>1, Sizes
      <4> QED BY <2>8, <3>1, <4>1, <4>2
    <3>3. PICK a, b : a = FirstOf(low) /\ b = FirstOf(s.l)
      OBVIOUS
    <3> QED BY <1>1, <2>8, <2>10, <2>22, <3>2, <3>3
  <2> QED BY <2>5, <2>17, <2>20, <2>21, <2>22 DEF Recalled, Lined
<1> QED BY <1>2, <1>3

-----------------------------------------------------------------------------
(* A crash, and the next open *)

(* What a crash may leave of the journal. *)
Survives(j) ==
  /\ JournalOk(j) /\ Durable(j.slots, ring, disk, dirty)
  /\ "lost" \notin Faults /\ Live(j) = {} => j.floor = 0

LEMMA SealedEndIsZero ==
  ASSUME Inv, Whole, \A x \in 1..Settled : slots[x].sealed = 0
  PROVE  SealedEnd = 0
<1>1. /\ SlotsOk(slots, floor, end) /\ floor \in Nat /\ end \in Nat /\ Settled \in Nat /\ Len(slots) \in Nat /\ Settled <= Len(slots)
      /\ Settled = 0 => SealedEnd = 0
      /\ Settled > 0 => SealedEnd = FirstOf(slots[Settled].l) + slots[Settled].sealed
      /\ (slots = <<>> <=> Len(slots) = 0)
  BY SettledIs DEF Inv, SlotInv, TypeInv
<1>2. CASE Settled = 0
  BY <1>1, <1>2
<1>3. CASE Settled # 0
  <2>1. 1 \in 1..Settled /\ 1 \in 1..Len(slots) /\ slots # <<>>
    BY <1>1, <1>3
  <2>2. slots[1].sealed = 0
    BY <2>1
  <2>3. Settled = 1
    BY <1>1, <1>3, <2>1, <2>2, Sizes, SlotOf
  <2>4. slots[1].l = 0
    BY <2>1, <2>2 DEF Whole, SealedFirst
  <2>5. SealedEnd = FirstOf(slots[1].l) + slots[1].sealed
    BY <1>1, <2>3
  <2> QED BY <2>2, <2>4, <2>5, FirstOfIs
<1> QED BY <1>2, <1>3

LEMMA TornIs ==
  ASSUME Inv, NEW recs \in Torn(pending)
  PROVE  \/ \E S : /\ S \subseteq {Segment(segments[i]) : i \in Unpersisted}
                   /\ recs = [segs |-> S, rec |-> NoRec]
         \/ recs = pending /\ pc = <<"open">>
         \/ recs = pending /\ pc \in Sealing
<1>1. PICK P, R : /\ pending = [segs |-> P, rec |-> R] /\ P \subseteq {Segment(segments[i]) : i \in Unpersisted}
                  /\ pc # <<"open">> /\ pc \notin Sealing => R = NoRec
  BY DEF Inv, StepInv, NoRecords
<1>2. \/ \E h \in P : recs = [segs |-> {g \in P : g.start < h.start}, rec |-> NoRec]
      \/ recs = [segs |-> P, rec |-> NoRec]
      \/ recs = pending
  BY <1>1 DEF Torn
<1>3. ASSUME NEW h \in P, recs = [segs |-> {g \in P : g.start < h.start}, rec |-> NoRec]
      PROVE  \E S : S \subseteq {Segment(segments[i]) : i \in Unpersisted} /\ recs = [segs |-> S, rec |-> NoRec]
  BY <1>1, <1>3
<1> QED BY <1>1, <1>2, <1>3

LEMMA TornOk ==
  ASSUME Inv, Whole, NEW recs \in Torn(pending), NEW j, j = Replay(journal, recs)
  PROVE  Survives(j)
<1>1. TypeInv /\ SlotInv /\ StepInv /\ JournalInv /\ LinkInv /\ FloorInv
  BY DEF Inv
<1>2. ASSUME NEW S, S \subseteq {Segment(segments[i]) : i \in Unpersisted}, recs = [segs |-> S, rec |-> NoRec]
      PROVE  Survives(j)
  <2>1. JournalOk(j) /\ j.slots = journal.slots /\ j.floor = journal.floor
    BY <1>2, StartsReplayed
  <2>2. ASSUME "lost" \notin Faults, Live(j) = {} PROVE j.floor = 0
    <3>1. ASSUME NEW x \in 1..Settled PROVE slots[x].sealed = 0
      <4>1. slots[x] \in SlotRec
        BY <1>1, SettledIs, SlotOf DEF TypeInv, SlotInv
      <4>2. Record(slots[x]).sealed = slots[x].sealed /\ slots[x].sealed \in Nat
        BY <4>1, RecordIs, SlotRecIs
      <4>3. ~(Record(slots[x]).sealed > 0)
        BY <1>1, <2>1, <2>2 DEF Live, LinkInv, Record
      <4> QED BY <4>2, <4>3
    <3>2. SealedEnd = 0
      BY <3>1, SealedEndIsZero
    <3>3. journal.floor <= 0 /\ journal.floor \in Nat
      BY <1>1, <2>2, <3>2 DEF FloorInv, JournalInv, JournalOk, JournalType
    <3> QED BY <2>1, <3>3
  <2> QED BY <1>1, <2>1, <2>2 DEF Survives, JournalInv
<1>3. CASE recs = pending /\ pc = <<"open">>
  <2>1. /\ JournalOk(j) /\ Durable(j.slots, ring, disk, dirty) /\ j.floor = journal.floor
        /\ \A x \in 1..Settled : Record(slots[x]) \in j.slots
    BY <1>3, OpenReplayed
  <2>2. ASSUME "lost" \notin Faults, Live(j) = {} PROVE j.floor = 0
    <3>1. ASSUME NEW x \in 1..Settled PROVE slots[x].sealed = 0
      <4>1. slots[x] \in SlotRec
        BY <1>1, SettledIs, SlotOf DEF TypeInv, SlotInv
      <4>2. Record(slots[x]).sealed = slots[x].sealed /\ slots[x].sealed \in Nat
        BY <4>1, RecordIs, SlotRecIs
      <4>3. ~(Record(slots[x]).sealed > 0)
        BY <2>1, <2>2 DEF Live
      <4> QED BY <4>2, <4>3
    <3>2. SealedEnd = 0
      BY <3>1, SealedEndIsZero
    <3>3. journal.floor <= 0 /\ journal.floor \in Nat
      BY <1>1, <2>2, <3>2 DEF FloorInv, JournalInv, JournalOk, JournalType
    <3> QED BY <2>1, <3>3
  <2> QED BY <2>1, <2>2 DEF Survives
<1>4. CASE recs = pending /\ pc \in Sealing
  <2>1. /\ JournalOk(j) /\ Durable(j.slots, ring, disk, dirty)
        /\ j.floor = (IF journal.floor >= floor THEN journal.floor ELSE floor)
        /\ \A x \in 1..Len(slots) : Record(SealedSlots[x]) \in j.slots
    BY <1>4, SealReplayed
  <2>2. ASSUME "lost" \notin Faults, Live(j) = {} PROVE j.floor = 0
    <3>1. /\ SlotsOk(slots, floor, end) /\ floor \in Nat /\ end \in Nat /\ Len(slots) \in Nat /\ Len(slots) \in 1..Len(slots)
          /\ SealedSlots \in Seq(SlotRec) /\ Len(SealedSlots) = Len(slots)
          /\ Len(cur.crc) = slots[Len(slots)].n
          /\ SealedSlots[Len(slots)].sealed = Len(cur.crc)
          /\ \A x \in 1..Len(slots) : x < Len(slots) => SealedSlots[x] = slots[x]
      BY <1>4, SealedSlotsAre
    <3>2. ASSUME NEW x \in 1..Len(slots) PROVE SealedSlots[x].sealed = 0
      <4>1. Record(SealedSlots[x]).sealed = SealedSlots[x].sealed /\ SealedSlots[x].sealed \in Nat
        BY <3>1, RecordIs, SlotRecIs
      <4>2. ~(Record(SealedSlots[x]).sealed > 0)
        BY <2>1, <2>2 DEF Live
      <4> QED BY <4>1, <4>2
    <3>3. 1 \in 1..Len(slots) /\ slots # <<>>
      BY <3>1
    <3>4. ~(1 < Len(slots))
      BY <3>1, <3>2, <3>3, SlotOf, Sizes
    <3>5. Len(slots) = 1
      BY <3>1, <3>3, <3>4
    <3>6. slots[1].n = 0 /\ slots[1].sealed = 0
      BY <3>1, <3>2, <3>3, <3>5, SlotOf
    <3>7. slots[1].l = 0
      BY <3>3, <3>6 DEF Whole, SealedFirst
    <3>8. end = 0
      BY <3>1, <3>3, <3>5, <3>6, <3>7, FirstOfIs DEF SlotsOk
    <3>9. floor <= end /\ journal.floor <= floor /\ journal.floor \in Nat
      BY <1>1, <2>2 DEF FloorInv, JournalInv, JournalOk, JournalType
    <3> QED BY <2>1, <3>1, <3>8, <3>9
  <2> QED BY <2>1, <2>2 DEF Survives
<1> QED BY <1>2, <1>3, <1>4, TornIs

(* What the ring file keeps of the sealed samples. *)
LEMMA CrashKeeps ==
  ASSUME NEW S, S \subseteq SlotRec, Durable(S, ring, disk, dirty), NEW f \in AfterCrash
  PROVE  \/ Durable(S, f.ring, f.disk, f.dirty)
         \/ "lost" \in Faults /\ f.ring = [c \in Cells |-> None]
<1>1. CASE f = [ring |-> ring, disk |-> disk, dirty |-> dirty]
  BY <1>1
<1>2. ASSUME NEW reached \in SUBSET dirty, NEW left, left = [c \in Cells |-> IF c \in reached THEN ring[c] ELSE disk[c]],
             f = [ring |-> left, disk |-> left, dirty |-> {}]
      PROVE  Durable(S, f.ring, f.disk, f.dirty)
  <2>1. ASSUME NEW s \in S, NEW k \in 1..s.sealed PROVE left[<<s.pos, k - 1>>] = s.crc[k]
    BY <1>2, <2>1, SlotRecIs, Sizes DEF Durable, Cells
  <2>2. Durable(S, left, left, {})
    BY <2>1 DEF Durable
  <2> QED BY <1>2, <2>2
<1>3. ASSUME "lost" \in Faults, NEW new, new = [c \in Cells |-> None], f = [ring |-> new, disk |-> new, dirty |-> {}]
      PROVE  f.ring = [c \in Cells |-> None]
  BY <1>3
<1> QED BY <1>1, <1>2, <1>3 DEF AfterCrash

(* The state after the next open: index rec of journal j and of the ring file rg. *)
Reopening(rec, j) ==
  /\ Rebuilt(rec, j, ring')
  /\ \A x \in 1..Len(rec.slots) : Durable({rec.slots[x]}, ring', disk', dirty')
  /\ slots' = rec.slots /\ segments' = rec.segments /\ floor' = rec.floor /\ end' = rec.end
  /\ free' = Positions \ {rec.slots[i].pos : i \in DOMAIN rec.slots}
  /\ cur' = IF rec.slots = <<>> \/ Last(rec.slots).sealed = SlotSamples THEN None
            ELSE [l |-> Last(rec.slots).l, pos |-> Last(rec.slots).pos,
                  crc |-> Last(rec.slots).crc, sealed |-> Last(rec.slots).sealed]
  /\ journal' = Snapshot(rec.slots, rec.segments, rec.floor)
  /\ pending' = NoRecords /\ open' = FALSE /\ pc' = <<"idle">> /\ rest' = 0 /\ stream' = stream + rest

LEMMA RestartIs ==
  ASSUME Inv, Whole, Restart
  PROVE  \E j, rec : /\ Survives(j) /\ Reopening(rec, j) /\ Recalled(rec, j, ring')
                     /\ "lost" \notin Faults => Kept(j, ring') = Live(j)
                     /\ \E recs \in Torn(pending) : j = Replay(journal, recs)
<1>1. PICK f \in AfterCrash, recs \in Torn(pending) :
        /\ ring' = f.ring /\ disk' = f.disk /\ dirty' = f.dirty
        /\ \E rec \in {Recovered(Replay(journal, recs), f.ring)} :
            /\ slots' = rec.slots /\ segments' = rec.segments
            /\ floor' = rec.floor /\ end' = rec.end
            /\ free' = Positions \ {rec.slots[i].pos : i \in DOMAIN rec.slots}
            /\ cur' = IF rec.slots = <<>> \/ Last(rec.slots).sealed = SlotSamples THEN None
                      ELSE [l |-> Last(rec.slots).l, pos |-> Last(rec.slots).pos,
                            crc |-> Last(rec.slots).crc, sealed |-> Last(rec.slots).sealed]
            /\ journal' = Snapshot(rec.slots, rec.segments, rec.floor)
  BY DEF Restart
<1>2. PICK j : j = Replay(journal, recs)
  OBVIOUS
<1>3. PICK rec : rec = Recovered(j, ring')
  OBVIOUS
<1>4. /\ slots' = rec.slots /\ segments' = rec.segments /\ floor' = rec.floor /\ end' = rec.end
      /\ free' = Positions \ {rec.slots[i].pos : i \in DOMAIN rec.slots}
      /\ cur' = IF rec.slots = <<>> \/ Last(rec.slots).sealed = SlotSamples THEN None
                ELSE [l |-> Last(rec.slots).l, pos |-> Last(rec.slots).pos,
                      crc |-> Last(rec.slots).crc, sealed |-> Last(rec.slots).sealed]
      /\ journal' = Snapshot(rec.slots, rec.segments, rec.floor)
  BY <1>1, <1>2, <1>3
<1>5. Survives(j)
  BY <1>2, TornOk
<1>6. JournalOk(j) /\ Durable(j.slots, ring, disk, dirty) /\ JournalType(j) /\ JournalSlots(j) /\ j.slots \subseteq SlotRec
  BY <1>5 DEF Survives, JournalOk, JournalType
<1>7. \/ Durable(j.slots, ring', disk', dirty')
      \/ "lost" \in Faults /\ ring' = [c \in Cells |-> None]
  BY <1>1, <1>6, CrashKeeps
<1>8. Durable(j.slots, ring', disk', dirty') => \A s \in j.slots : \A k \in 1..s.sealed : ring'[<<s.pos, k - 1>>] = s.crc[k]
  BY DEF Durable
<1>9. Rebuilt(rec, j, ring') /\ Recalled(rec, j, ring')
  BY <1>3, <1>6, <1>7, <1>8, RecoveredOk
<1>10. \A x \in 1..Len(rec.slots) : Durable({rec.slots[x]}, ring', disk', dirty')
  <2>1. CASE Durable(j.slots, ring', disk', dirty')
    BY <1>9, <2>1 DEF Rebuilt, Live, Durable
  <2>2. CASE ring' = [c \in Cells |-> None]
    BY <1>3, <1>6, <2>2, KeptLost, RecoveredNone
  <2> QED BY <1>7, <2>1, <2>2
<1>11. Reopening(rec, j)
  BY <1>4, <1>9, <1>10 DEF Reopening, Restart
<1>12. "lost" \notin Faults => Kept(j, ring') = Live(j)
  BY <1>6, <1>7, <1>8, KeptIs
<1> QED BY <1>2, <1>5, <1>9, <1>11, <1>12

LEMMA RestartStep ==
  ASSUME Inv, Whole, Restart
  PROVE  Inv' /\ Whole'
<1>1. PICK j, rec : /\ Survives(j) /\ Reopening(rec, j)
                    /\ "lost" \notin Faults => Kept(j, ring') = Live(j)
  BY RestartIs
<1>2. /\ Rebuilt(rec, j, ring') /\ \A x \in 1..Len(rec.slots) : Durable({rec.slots[x]}, ring', disk', dirty')
      /\ slots' = rec.slots /\ segments' = rec.segments /\ floor' = rec.floor /\ end' = rec.end
      /\ free' = Positions \ {rec.slots[i].pos : i \in DOMAIN rec.slots}
      /\ cur' = IF rec.slots = <<>> \/ Last(rec.slots).sealed = SlotSamples THEN None
                ELSE [l |-> Last(rec.slots).l, pos |-> Last(rec.slots).pos,
                      crc |-> Last(rec.slots).crc, sealed |-> Last(rec.slots).sealed]
      /\ journal' = Snapshot(rec.slots, rec.segments, rec.floor)
      /\ pending' = NoRecords /\ open' = FALSE /\ pc' = <<"idle">> /\ rest' = 0 /\ stream' = stream + rest
  BY <1>1 DEF Reopening
<1>3. /\ floor' \in Nat /\ end' \in Nat
      /\ SlotsOk(slots', floor', end') /\ SegsOk(segments', floor', end') /\ ValuesOk(slots', segments', ring')
      /\ \A x \in 1..Len(slots') : slots'[x] \in Live(j)
      /\ \A i \in 1..Len(segments') : segments'[i].persisted /\ segments'[i].n > 0 /\ segments'[i].start < end'
      /\ floor' <= end' \/ (Kept(j, ring') = {} /\ floor' = j.floor /\ slots' = <<>>)
      /\ \A x \in 1..Len(slots') : Durable({slots'[x]}, ring', disk', dirty')
  BY <1>2 DEF Rebuilt
<1>4. slots' \in Seq(SlotRec) /\ Len(slots') \in Nat /\ DOMAIN slots' = 1..Len(slots') /\ (slots' = <<>> <=> Len(slots') = 0)
  BY <1>3 DEF SlotsOk
<1>5. \A x \in 1..Len(slots') : slots'[x] \in SlotRec /\ slots'[x].sealed > 0 /\ slots'[x].n = slots'[x].sealed
                                /\ Len(slots'[x].crc) = slots'[x].sealed
  BY <1>1, <1>3 DEF Survives, JournalOk, JournalType, Live
<1>6. Described(journal', slots', segments', floor', ring', disk', dirty')
  BY <1>2, <1>3, SnapshotOk
<1>7. /\ JournalOk(journal') /\ Durable(journal'.slots, ring', disk', dirty')
      /\ journal'.floor = floor' \/ (journal'.floor = 0 /\ \A x \in 1..Len(slots') : slots'[x].sealed = 0)
      /\ \A x \in 1..Len(slots') : Record(slots'[x]) \in journal'.slots
      /\ \A s \in journal'.slots : \E x \in 1..Len(slots') : s = Record(slots'[x])
      /\ \A i \in 1..Len(segments') : segments'[i].n > 0 => Segment(segments'[i]) \in journal'.segs
      /\ \A g \in journal'.segs : \E i \in 1..Len(segments') : g.start = segments'[i].start
      /\ \A g \in journal'.segs, i \in 1..Len(segments') : ~(segments'[i].start < g.start /\ g.start < LogEnd(segments'[i]))
  BY <1>6 DEF Described
<1>8. Settled' = Len(slots')
  BY <1>2, StepsDiffer DEF Settled
<1>9. SealedEnd' = end'
  BY <1>3, <1>4, <1>5, <1>8 DEF SealedEnd, SlotsOk
<1>10. slots' # <<>> => Last(slots') = slots'[Len(slots')] /\ Len(slots') \in 1..Len(slots')
  BY <1>4 DEF Last
<1>11. TypeInv'
  <2>1. stream' \in Nat /\ rest' \in Nat /\ open' \in BOOLEAN
    <3>1. stream' = stream + rest /\ rest' = 0
      BY <1>2
    <3>2. stream' \in Nat /\ rest' \in Nat
      BY <3>1 DEF Inv, TypeInv
    <3> QED BY <1>2, <3>2
  <2>2. cur' = None \/ cur' \in Cursor
    BY <1>2, <1>5, <1>10, SlotRecIs DEF Positions, Cursor
  <2> QED BY <1>2, <1>3, <2>1, <2>2, StepsAre DEF TypeInv
<1>12. SlotInv'
  BY <1>2, <1>3, <1>4 DEF SlotInv
<1>13. CurInv'
  <2>1. CASE slots' = <<>>
    BY <1>2, <1>4, <1>8, <2>1, StepsDiffer DEF CurInv
  <2>2. CASE slots' # <<>> /\ Last(slots').sealed = SlotSamples
    BY <1>2, <1>8, <1>10, <2>2, StepsDiffer DEF CurInv
  <2>3. CASE slots' # <<>> /\ Last(slots').sealed # SlotSamples
    <3>1. cur' = [l |-> Last(slots').l, pos |-> Last(slots').pos, crc |-> Last(slots').crc, sealed |-> Last(slots').sealed]
      BY <1>2, <2>3
    <3>2. PICK s : s = Last(slots')
      OBVIOUS
    <3>3. s = slots'[Settled'] /\ Settled' \in 1..Len(slots') /\ Settled' > 0
      BY <1>4, <1>8, <1>10, <2>3, <3>2
    <3>4. /\ s \in SlotRec /\ s.n = s.sealed /\ Len(s.crc) = s.sealed
      BY <1>5, <3>3
    <3>5. cur'.l = s.l /\ cur'.pos = s.pos /\ cur'.crc = s.crc /\ cur'.sealed = s.sealed
      BY <3>1, <3>2
    <3>6. cur' # None
      BY <1>11, <3>1, <3>2, <3>4, SlotRecIs, NoneAssumption DEF Cursor, Positions
    <3>7. /\ cur'.l = slots'[Settled'].l /\ cur'.pos = slots'[Settled'].pos
          /\ cur'.sealed = slots'[Settled'].sealed /\ Len(cur'.crc) = slots'[Settled'].n
          /\ \A k \in 1..cur'.sealed : cur'.crc[k] = slots'[Settled'].crc[k]
      BY <3>3, <3>4, <3>5
    <3>8. \A k \in 1..Len(cur'.crc) :
             /\ ring'[<<cur'.pos, k - 1>>] = cur'.crc[k]
             /\ <<cur'.pos, k - 1>> \in dirty' \/ disk'[<<cur'.pos, k - 1>>] = cur'.crc[k]
      BY <1>3, <3>3, <3>4, <3>5 DEF Durable
    <3> QED BY <1>2, <3>3, <3>6, <3>7, <3>8, StepsDiffer DEF CurInv
  <2> QED BY <2>1, <2>2, <2>3
<1>14. StepInv'
  BY <1>2, NothingUnderWay
<1>15. SegInv'
  BY <1>2, <1>3 DEF SegInv
<1>16. PersistInv'
  BY <1>3, <1>7, <1>9 DEF PersistInv
<1>17. ValueInv' /\ JournalInv'
  BY <1>3, <1>7 DEF ValueInv, JournalInv
<1>18. LinkInv'
  <2>1. ASSUME NEW s \in journal'.slots
        PROVE  /\ Settled' > 0 /\ s.l <= slots'[Settled'].l
               /\ s.l < slots'[1].l => FirstOf(s.l + 1) <= floor' /\ s.l + 1 = slots'[1].l
    <3>1. PICK x \in 1..Len(slots') : s = Record(slots'[x])
      BY <1>7
    <3>2. 1 \in 1..Len(slots') /\ Len(slots') \in 1..Len(slots') /\ Len(slots') > 0
      BY <1>4, <3>1
    <3>3. /\ slots'[x].l = slots'[1].l + (x - 1) /\ slots'[Len(slots')].l = slots'[1].l + (Len(slots') - 1)
          /\ slots'[1].l \in Nat
      BY <1>3, <3>2, SlotOf
    <3>4. PICK a, n : a = slots'[1].l /\ n = Len(slots')
      OBVIOUS
    <3>5. a \in Nat /\ n \in Nat /\ x \in 1..n /\ s.l = a + (x - 1) /\ slots'[n].l = a + (n - 1)
      BY <1>4, <1>5, <3>1, <3>3, <3>4, RecordIs
    <3> QED BY <1>8, <3>2, <3>4, <3>5
  <2>2. \A g \in journal'.segs : g.start < SealedEnd'
    BY <1>3, <1>7, <1>9
  <2> QED BY <1>7, <1>8, <2>1, <2>2 DEF LinkInv, Record
<1>19. FloorInv'
  BY <1>1, <1>3, <1>7, <1>9 DEF FloorInv, Survives
<1>20. Whole'
  BY <1>3, <1>4, <1>5 DEF SealedFirst, Whole, PersistedHave
<1> QED BY <1>11, <1>12, <1>13, <1>14, <1>15, <1>16, <1>17, <1>18, <1>19, <1>20 DEF Inv

-----------------------------------------------------------------------------
(* The theorems of the index *)

LEMMA InitOk ==
  ASSUME Init
  PROVE  Inv /\ Whole
<1>1. PICK ss : ss = slots
  OBVIOUS
<1>2. ss = <<>> /\ ss \in Seq(SlotRec) /\ Len(ss) = 0 /\ 1..Len(ss) = {}
  BY <1>1 DEF Init
<1>3. PICK segs : segs = segments
  OBVIOUS
<1>4. segs = <<>> /\ segs \in Seq(SegRec) /\ Len(segs) = 0 /\ 1..Len(segs) = {}
  BY <1>3 DEF Init
<1>5. pc = <<"idle">> /\ floor = 0 /\ end = 0 /\ open = FALSE /\ cur = None /\ rest = 0 /\ stream = 0 /\ pending = NoRecords
      /\ free = Positions
  BY DEF Init
<1>6. Settled = 0 /\ SealedEnd = 0
  BY <1>1, <1>2, <1>5, StepsDiffer DEF Settled, SealedEnd
<1>7. TypeInv
  BY <1>5, StepsAre DEF TypeInv
<1>8. SlotInv
  BY <1>1, <1>2, <1>5 DEF SlotInv, SlotsOk
<1>9. CurInv
  BY <1>5, <1>6, StepsDiffer DEF CurInv
<1>10. StepInv
  BY <1>5, StepsDiffer DEF StepInv
<1>11. SegsOk(segs, floor, end)
  BY <1>4, <1>5 DEF SegsOk, Chained
<1>12. SegInv
  BY <1>3, <1>5, <1>11 DEF SegInv
<1>13. PersistInv /\ PersistedHave
  BY <1>3, <1>4 DEF PersistInv, PersistedHave
<1>14. ValueInv
  BY <1>1, <1>2 DEF ValueInv, ValuesOk
<1>15. journal.slots = {} /\ journal.floor = 0 /\ journal.segs = {} /\ journal = [slots |-> {}, floor |-> 0, segs |-> {}]
  BY DEF Init, EmptyJournal
<1>16. JournalInv
  BY <1>15, FS_EmptySet DEF JournalType, JournalSlots, JournalValues, Durable, JournalInv, JournalOk
<1>17. LinkInv
  BY <1>6, <1>15 DEF LinkInv
<1>18. FloorInv
  BY <1>5, <1>6, <1>15 DEF FloorInv
<1>19. SealedFirst
  BY <1>1, <1>2 DEF SealedFirst
<1> QED BY <1>7, <1>8, <1>9, <1>10, <1>12, <1>13, <1>14, <1>16, <1>17, <1>18, <1>19 DEF Inv, Whole

LEMMA CheckpointStep ==
  ASSUME Inv, Whole, NEW k \in Reason, Checkpoint(k)
  PROVE  Inv' /\ Whole'
<1>1. CASE CheckpointSkips(k)
  BY <1>1, SkipsStep, WholeStays DEF CheckpointSkips, indexVars
<1>2. CASE Sync(k)
  BY <1>2, SyncStep, WholeStays DEF Sync, indexVars
<1>3. CASE SyncFails(k)
  BY <1>3, SyncFailsStep, SyncFailsWhole
<1>4. CASE SealDone(k)
  BY <1>4, SealDoneStep
<1>5. CASE CompactionFails(k)
  BY <1>5, CompactionFailsStep
<1>6. CASE SealFails(k)
  BY <1>6, SealFailsStep, WholeStays DEF SealFails, logVars
<1> QED BY <1>1, <1>2, <1>3, <1>4, <1>5, <1>6 DEF Checkpoint

LEMMA NextStep ==
  ASSUME Inv, Whole, [Next]_vars
  PROVE  Inv' /\ Whole'
<1>1. ASSUME NEW k \in 1..MaxAppend, NEW gap \in 0..MaxGap, Feed(k, gap) PROVE Inv' /\ Whole'
  BY <1>1, FeedStep, FeedWhole
<1>2. CASE Pause
  BY <1>2, PauseStep, WholeStays DEF Pause, logVars
<1>3. CASE Write
  BY <1>3, WriteStep, WholeStays DEF Write, indexVars
<1>4. CASE WriteFails
  BY <1>4, WriteFailsStep, WholeStays DEF WriteFails, logVars
<1>5. CASE Count
  BY <1>5, CountStep
<1>6. CASE Advance
  BY <1>6, AdvanceStep, AdvanceWhole
<1>7. CASE Opened
  BY <1>7, OpenedStep, WholeStays DEF Opened, indexVars
<1>8. CASE OpenFails
  BY <1>8, OpenFailsStep, OpenFailsWhole
<1>9. CASE SealFull
  BY <1>9, SealFullStep, WholeStays DEF SealFull, indexVars
<1>10. CASE EndSegment
  BY <1>10, EndSegmentStep, WholeStays DEF EndSegment, logVars
<1>11. ASSUME NEW k \in {"advance", "append", "end"}, Checkpoint(k) PROVE Inv' /\ Whole'
  BY <1>11, CheckpointStep DEF Reason
<1>12. CASE Clip
  <2>1. UNCHANGED <<ring, disk, dirty, journal, pending, slots, free, segments, floor, end, open,
                    cur, pc, rest, stream>>
    BY <1>12 DEF Clip, PlanClip, ReadBlock, CheckBlock, ClipDone, indexVars, fileVars, writerVars, inputVars
  <2> QED BY <2>1, ClipStep, WholeStays
<1>13. CASE Restart
  BY <1>13, RestartStep
<1>14. CASE UNCHANGED vars
  BY <1>14, ClipStep, WholeStays DEF vars
<1> QED BY <1>1, <1>2, <1>3, <1>4, <1>5, <1>6, <1>7, <1>8, <1>9, <1>10, <1>11, <1>12, <1>13, <1>14 DEF Next, Writer

(* In every state the index, the ring file and the journal agree: slots and        *)
(* segments describe the same stretch of the log, the ring holds what they say,    *)
(* and what the journal has sealed is on disk.                                     *)
THEOREM AlwaysInv == Spec => [](Inv /\ Whole)
<1>1. Init => Inv /\ Whole
  BY InitOk
<1>2. Inv /\ Whole /\ [Next]_vars => Inv' /\ Whole'
  BY NextStep
<1> QED BY <1>1, <1>2, PTL DEF Spec

(* The slot that holds a retained sample holds that very sample, after any number  *)
(* of overwrites in place, rollbacks, torn appends, crashes and recoveries.        *)
THEOREM AlwaysIndexIsExact == Spec => []IndexIsExact
<1>1. Inv => IndexIsExact
  BY IndexIsExactFollows DEF Inv
<1> QED BY <1>1, AlwaysInv, PTL

(* No position of the ring is ever lost or given twice. *)
THEOREM AlwaysPositionsArePartitioned == Spec => []PositionsArePartitioned
<1>1. Inv => PositionsArePartitioned
  BY PositionsFollow DEF Inv
<1> QED BY <1>1, AlwaysInv, PTL

(* Unless the ring file is lost while its journal stays, the floor is within the   *)
(* log.                                                                            *)
THEOREM AlwaysFloorWithinLog == ASSUME "lost" \notin Faults PROVE Spec => []FloorWithinLog
<1>1. Inv => FloorWithinLog
  BY FloorFollows DEF Inv
<1> QED BY <1>1, AlwaysInv, PTL

-----------------------------------------------------------------------------
(* Clips *)

(* Span s is in slot x, and the ring still has its samples there.                  *)
SpanPlaced(s, x, ss, rg) ==
  /\ x \in 1..Len(ss) /\ ss[x].pos = s.pos
  /\ s.log = FirstOf(ss[x].l) + s.off /\ s.off + s.len <= ss[x].n
  /\ \A i \in 1..s.len : rg[<<s.pos, s.off + i - 1>>] = s.index + i - 1

(* A span planned is where it was, unless the floor has passed its start.          *)
SpanOk(s, ss, rg, f) ==
  /\ s.log \in Nat /\ s.off \in Nat /\ s.len \in Nat /\ s.len > 0
  /\ s.log < f \/ \E x \in 1..Len(ss) : SpanPlaced(s, x, ss, rg)

(* So is the block read for the next span.                                         *)
BlockOk(plan, block, f) ==
  block # <<>> =>
    /\ plan # {}
    /\ \/ NextSpan(plan).log < f
       \/ \A i \in 1..NextSpan(plan).len : block[i] = NextSpan(plan).index + i - 1

ClipInv ==
  clip # None =>
    /\ clip = [plan |-> clip.plan, block |-> clip.block, out |-> clip.out, rolled |-> clip.rolled]
    /\ clip.rolled \in BOOLEAN
    /\ clip.rolled = FALSE =>
         /\ \A s \in clip.plan : SpanOk(s, slots, ring, floor)
         /\ BlockOk(clip.plan, clip.block, floor)
         /\ \A i \in DOMAIN clip.out : clip.out[i].got = clip.out[i].want

(* Slot x keeps its place and its samples, or the floor passes all of it.          *)
Carried(x, ss, rg, ss2, rg2, f2) ==
  \/ ss[x].n = 0
  \/ FirstOf(ss[x].l + 1) <= f2
  \/ \E y \in 1..Len(ss2) :
       /\ ss2[y].l = ss[x].l /\ ss2[y].pos = ss[x].pos /\ ss[x].n <= ss2[y].n
       /\ \A k \in 0..(ss[x].n - 1) : rg2[<<ss[x].pos, k>>] = rg[<<ss[x].pos, k>>]

Carries ==
  /\ floor <= floor'
  /\ \A x \in 1..Len(slots) : Carried(x, slots, ring, slots', ring', floor')

LEMMA SpanKept ==
  ASSUME Inv, Inv', Carries, NEW s, SpanOk(s, slots, ring, floor)
  PROVE  SpanOk(s, slots', ring', floor')
<1>1. s.log \in Nat /\ s.off \in Nat /\ s.len \in Nat /\ s.len > 0
  BY DEF SpanOk
<1>2. floor \in Nat /\ floor' \in Nat /\ end \in Nat /\ end' \in Nat
  BY DEF Inv, TypeInv
<1>3. SlotsOk(slots, floor, end) /\ SlotsOk(slots', floor', end')
  BY DEF Inv, SlotInv
<1>4. CASE s.log < floor
  BY <1>1, <1>2, <1>4 DEF Carries, SpanOk
<1>5. ASSUME NEW x \in 1..Len(slots), SpanPlaced(s, x, slots, ring)
      PROVE  SpanOk(s, slots', ring', floor')
  <2>1. PICK l, n : l = slots[x].l /\ n = slots[x].n
    OBVIOUS
  <2>2. l \in Nat /\ n \in Nat /\ n <= SlotSamples /\ FirstOf(l) \in Nat /\ FirstOf(l + 1) = FirstOf(l) + SlotSamples
    BY <1>2, <1>3, <2>1, SlotOf, FirstOfIs
  <2>3. /\ slots[x].pos = s.pos /\ s.log = FirstOf(l) + s.off /\ s.off + s.len <= n
        /\ \A i \in 1..s.len : ring[<<s.pos, s.off + i - 1>>] = s.index + i - 1
    BY <1>5, <2>1 DEF SpanPlaced
  <2>4. n # 0
    BY <1>1, <2>2, <2>3
  <2>5. CASE FirstOf(l + 1) <= floor'
    <3>1. PICK u, v : u = FirstOf(l) /\ v = FirstOf(l + 1)
      OBVIOUS
    <3>2. s.log < floor'
      BY SMTT(40), <1>1, <1>2, <2>2, <2>3, <2>5, <3>1, Sizes
    <3> QED BY <1>1, <3>2 DEF SpanOk
  <2>6. CASE ~(FirstOf(l + 1) <= floor')
    <3>1. PICK y \in 1..Len(slots') :
             /\ slots'[y].l = l /\ slots'[y].pos = slots[x].pos /\ n <= slots'[y].n
             /\ \A k \in 0..(n - 1) : ring'[<<slots[x].pos, k>>] = ring[<<slots[x].pos, k>>]
      BY <2>1, <2>4, <2>6 DEF Carried, Carries
    <3>2. slots'[y].n \in Nat
      BY <1>2, <1>3, SlotOf
    <3>3. s.off + s.len <= slots'[y].n
      BY SMTT(40), <1>1, <2>2, <2>3, <3>1, <3>2
    <3>4. \A i \in 1..s.len : ring'[<<s.pos, s.off + i - 1>>] = s.index + i - 1
      <4> TAKE i \in 1..s.len
      <4>1. PICK o, m : o = s.off /\ m = s.len
        OBVIOUS
      <4>2. o \in Nat /\ m \in Nat /\ i \in 1..m /\ o + m <= n
        BY <1>1, <2>3, <4>1
      <4>3. s.off + i - 1 \in 0..(n - 1)
        BY SMTT(40), <2>2, <4>1, <4>2
      <4> QED BY <2>3, <3>1, <4>3
    <3> QED BY <1>1, <2>3, <3>1, <3>3, <3>4 DEF SpanOk, SpanPlaced
  <2> QED BY <2>5, <2>6
<1> QED BY <1>4, <1>5 DEF SpanOk

(* The span that is read next. *)
LEMMA NextSpanIs ==
  ASSUME NEW plan, plan # {}, \A s \in plan : s.log \in Nat
  PROVE  NextSpan(plan) \in plan /\ \A t \in plan : NextSpan(plan).log <= t.log
<1> DEFINE T == {s.log : s \in plan}
<1>1. PICK m \in T : \A n \in T : m <= n
  BY Least
<1>2. PICK s \in plan : m = s.log
  OBVIOUS
<1> QED BY <1>1, <1>2 DEF NextSpan

LEMMA ClipKept ==
  ASSUME Inv, Inv', ClipInv, Carries, UNCHANGED clip
  PROVE  ClipInv'
<1> SUFFICES ASSUME clip # None, clip.rolled = FALSE
             PROVE  /\ \A s \in clip.plan : SpanOk(s, slots', ring', floor')
                    /\ BlockOk(clip.plan, clip.block, floor')
  BY DEF ClipInv
<1>1. (\A s \in clip.plan : SpanOk(s, slots, ring, floor)) /\ BlockOk(clip.plan, clip.block, floor)
  BY DEF ClipInv
<1>2. ASSUME clip.block # <<>>, NextSpan(clip.plan).log < floor PROVE NextSpan(clip.plan).log < floor'
  BY <1>1, <1>2, NextSpanIs DEF SpanOk, BlockOk, Inv, TypeInv, Carries
<1>3. BlockOk(clip.plan, clip.block, floor')
  BY <1>1, <1>2 DEF BlockOk
<1> QED BY <1>1, <1>3, SpanKept

LEMMA CarriesStays ==
  ASSUME Inv, UNCHANGED <<slots, ring, floor>>
  PROVE  Carries
<1>1. floor \in Nat /\ end \in Nat /\ SlotsOk(slots, floor, end)
  BY DEF Inv, TypeInv, SlotInv
<1>2. ASSUME NEW x \in 1..Len(slots) PROVE Carried(x, slots, ring, slots', ring', floor')
  BY <1>1, SlotOf DEF Carried
<1> QED BY <1>1, <1>2 DEF Carries

LEMMA WriteCarries ==
  ASSUME Inv, cur # None, ~Full, pc # <<"open">>, NEW n \in Nat, n <= SlotSamples - Len(cur.crc),
         ring' = WriteCells(n), dirty' = dirty \cup {<<cur.pos, Len(cur.crc) + i - 1>> : i \in 1..n},
         UNCHANGED <<slots, floor>>
  PROVE  Carries
<1>1. \A pos \in Positions, k \in 0..(SlotSamples - 1) : pos # cur.pos \/ k < Len(cur.crc) =>
        ring'[<<pos, k>>] = ring[<<pos, k>>]
  BY WriteCellsIs
<1>2. /\ Settled \in 1..Len(slots) /\ cur.pos = slots[Settled].pos /\ Len(cur.crc) = slots[Settled].n
  BY CursorIs
<1>3. floor \in Nat /\ end \in Nat /\ SlotsOk(slots, floor, end)
  BY DEF Inv, TypeInv, SlotInv
<1>4. ASSUME NEW x \in 1..Len(slots) PROVE Carried(x, slots, ring, slots', ring', floor')
  <2>1. slots[x].n \in Nat /\ slots[x].n <= SlotSamples /\ slots[x].pos \in Positions
    BY <1>3, SlotOf
  <2>2. ASSUME NEW k \in 0..(slots[x].n - 1) PROVE ring'[<<slots[x].pos, k>>] = ring[<<slots[x].pos, k>>]
    <3>1. k \in 0..(SlotSamples - 1) /\ k < slots[x].n
      BY <2>1, Sizes
    <3>2. slots[x].pos = cur.pos => x = Settled
      BY <1>2, <1>3, SlotNumbers
    <3> QED BY <1>1, <1>2, <2>1, <3>1, <3>2
  <2> QED BY <2>1, <2>2 DEF Carried
<1> QED BY <1>3, <1>4 DEF Carries

LEMMA WriteClip ==
  ASSUME Inv, Inv', ClipInv, Write
  PROVE  ClipInv'
<1>1. /\ pc = <<"write">> /\ cur # None /\ ~Full
      /\ ring' = WriteCells(Room) /\ dirty' = dirty \cup {<<cur.pos, Len(cur.crc) + i - 1>> : i \in 1..Room}
      /\ UNCHANGED <<slots, floor, clip>>
  BY DEF Write, indexVars, clipVars
<1>2. pc # <<"open">>
  BY <1>1, StepsDiffer
<1>3. Carries
  BY <1>1, <1>2, RoomIs, WriteCarries
<1> QED BY <1>1, <1>3, ClipKept

LEMMA WriteFailsClip ==
  ASSUME Inv, Inv', ClipInv, WriteFails
  PROVE  ClipInv'
<1>1. PICK n \in 0..(Room - 1) : /\ ring' = WriteCells(n)
                                 /\ dirty' = dirty \cup {<<cur.pos, Len(cur.crc) + i - 1>> : i \in 1..n}
  BY DEF WriteFails
<1>2. pc = <<"write">> /\ cur # None /\ ~Full /\ UNCHANGED <<slots, floor, clip>>
  BY DEF WriteFails, logVars, clipVars
<1>3. n \in Nat /\ n <= SlotSamples - Len(cur.crc)
  BY <1>2, RoomIs, CursorIs, Sizes
<1>4. pc # <<"open">>
  BY <1>2, StepsDiffer
<1>5. Carries
  BY <1>1, <1>2, <1>3, <1>4, WriteCarries
<1> QED BY <1>2, <1>5, ClipKept

LEMMA CountClip ==
  ASSUME Inv, Inv', ClipInv, Count
  PROVE  ClipInv'
<1>1. UNCHANGED <<ring, clip>>
  BY DEF Count, fileVars, clipVars
<1>2. Carries
  BY <1>1, CountStep DEF Carries, Carried, Counted
<1> QED BY <1>1, <1>2, ClipKept

(* The slot evicted for the next one is below the floor. *)
LEMMA AdvanceClip ==
  ASSUME Inv, Inv', ClipInv, Advance
  PROVE  ClipInv'
<1> DEFINE at == Len(slots)
<1>1. PICK d, new : Advanced(d, new)
  BY AdvanceIs
<1>2. /\ d \in {0, 1} /\ Len(slots') = at - d + 1
      /\ \A i \in 1..(at - d) : slots'[i] = slots[i + d]
  BY <1>1 DEF Advanced
<1>3. /\ d = 0 => floor' = floor
      /\ d = 1 => FirstOf(slots[1].l + 1) <= floor' /\ floor <= floor'
  BY <1>1 DEF Advanced
<1>4. UNCHANGED <<ring, clip>>
  BY DEF Advance, ringVars, clipVars
<1>5. /\ SlotsOk(slots, floor, end) /\ floor \in Nat /\ end \in Nat /\ slots \in Seq(SlotRec) /\ at \in Nat
  BY SettledIs DEF Inv, SlotInv, TypeInv
<1>6. ASSUME NEW x \in 1..at PROVE Carried(x, slots, ring, slots', ring', floor')
  <2>1. CASE d = 1 /\ x = 1
    BY <1>3, <2>1 DEF Carried
  <2>2. CASE ~(d = 1 /\ x = 1)
    <3>1. PICK y : y = x - d
      OBVIOUS
    <3>2. y \in 1..(at - d) /\ y + d = x /\ y \in 1..Len(slots')
      BY <1>2, <1>5, <2>2, <3>1
    <3>3. slots'[y] = slots[x]
      BY <1>2, <3>2
    <3>4. slots[x].n \in Nat
      BY <1>5, SlotOf
    <3> QED BY <1>4, <3>2, <3>3, <3>4 DEF Carried
  <2> QED BY <2>1, <2>2
<1>7. Carries
  BY <1>2, <1>3, <1>5, <1>6 DEF Carries
<1> QED BY <1>4, <1>7, ClipKept

(* The slot given back had no samples. *)
LEMMA OpenFailsClip ==
  ASSUME Inv, Inv', ClipInv, OpenFails
  PROVE  ClipInv'
<1> DEFINE at == Len(slots)
<1>1. pc = <<"open">> /\ slots' = Front(slots) /\ UNCHANGED <<ring, floor, clip>>
  BY DEF OpenFails, ringVars, logVars, clipVars
<1>2. slots # <<>> /\ slots[at].n = 0
  BY <1>1 DEF Inv, StepInv
<1>3. /\ SlotsOk(slots, floor, end) /\ floor \in Nat /\ end \in Nat /\ slots \in Seq(SlotRec) /\ at \in Nat
  BY SettledIs DEF Inv, SlotInv, TypeInv
<1>4. Len(slots') = at - 1 /\ \A x \in 1..(at - 1) : slots'[x] = slots[x]
  BY <1>1, <1>2, <1>3 DEF Front
<1>5. ASSUME NEW x \in 1..at PROVE Carried(x, slots, ring, slots', ring', floor')
  <2>1. CASE x = at
    BY <1>2, <2>1 DEF Carried
  <2>2. CASE x # at
    <3>1. x \in 1..(at - 1) /\ x \in 1..Len(slots')
      BY <1>3, <1>4, <2>2
    <3>2. slots[x].n \in Nat /\ slots'[x] = slots[x]
      BY <1>3, <1>4, <3>1, SlotOf
    <3> QED BY <1>1, <3>1, <3>2 DEF Carried
  <2> QED BY <2>1, <2>2
<1> QED BY <1>1, <1>3, <1>5, ClipKept DEF Carries

LEMMA SealClip ==
  ASSUME Inv, Inv', ClipInv, pc \in Sealing, Seal
  PROVE  ClipInv'
<1>1. UNCHANGED <<ring, floor, clip>>
  BY DEF Seal, ringVars, clipVars
<1>2. slots' = SealedSlots
  BY DEF Seal, SealedSlots
<1>3. /\ Len(SealedSlots) = Len(slots) /\ SlotsOk(slots, floor, end) /\ floor \in Nat /\ end \in Nat
      /\ \A x \in 1..Len(slots) : /\ SealedSlots[x].l = slots[x].l /\ SealedSlots[x].pos = slots[x].pos
                                  /\ SealedSlots[x].n = slots[x].n
  BY SealedSlotsAre
<1>4. ASSUME NEW x \in 1..Len(slots) PROVE Carried(x, slots, ring, slots', ring', floor')
  <2>1. slots[x].n \in Nat
    BY <1>3, SlotOf
  <2> QED BY <1>1, <1>2, <1>3, <2>1 DEF Carried
<1> QED BY <1>1, <1>3, <1>4, ClipKept DEF Carries

(* A rollback marks the clip. *)
LEMMA SyncFailsClip ==
  ASSUME Inv, Inv', ClipInv, NEW k \in Reason, SyncFails(k)
  PROVE  ClipInv'
<1>1. Poison /\ UNCHANGED ring
  BY DEF SyncFails
<1>2. CASE Len(cur.crc) = cur.sealed
  BY <1>1, <1>2, CarriesStays, ClipKept DEF Poison, logVars, clipVars
<1>3. CASE Len(cur.crc) # cur.sealed
  BY <1>1, <1>3 DEF Poison, ClipInv
<1> QED BY <1>2, <1>3

(* Where a span begins and how far it reaches. *)
LEMMA SpanIs ==
  ASSUME NEW g \in SegRec, NEW t \in SlotRec, NEW a \in Int, NEW b \in Int, NEW s, s = Span(g, t, a, b), s.len > 0
  PROVE  /\ s.log \in Nat /\ s.off \in Nat /\ s.len \in Nat /\ s.pos = t.pos
         /\ g.log <= s.log /\ s.log + s.len <= LogEnd(g)
         /\ s.log = FirstOf(t.l) + s.off /\ s.off + s.len <= SlotSamples
         /\ s.index = IndexAt(g, s.log)
<1>1. /\ g.start \in Nat /\ g.log \in Nat /\ g.n \in Nat /\ g.first \in Nat /\ LogEnd(g) = g.log + g.n
      /\ IndexAt(g, g.log) = g.first + (g.log - g.start)
  BY SegmentIs
<1>2. t.l \in Nat /\ FirstOf(t.l) \in Nat /\ FirstOf(t.l + 1) = FirstOf(t.l) + SlotSamples
  BY SlotRecIs, FirstOfIs
<1>3. PICK at : at = IndexAt(g, g.log)
  OBVIOUS
<1>4. PICK f : f = FirstOf(t.l)
  OBVIOUS
<1>5. at \in Int /\ f \in Nat
  BY <1>1, <1>2, <1>3, <1>4
<1>6. PICK u : u = Max({0, a - at})
  OBVIOUS
<1>7. PICK v : v = Max({0, b - at})
  OBVIOUS
<1>8. u \in Nat /\ v \in Nat
  BY <1>5, <1>6, <1>7, MaxOfTwo
<1>9. PICK w : w = Min({g.n, v})
  OBVIOUS
<1>10. w \in Nat /\ w <= g.n
  BY <1>1, <1>8, <1>9, MinOfTwo
<1>11. PICK lo : lo = Max({g.log + u, f})
  OBVIOUS
<1>12. PICK hi : hi = Min({g.log + w, FirstOf(t.l + 1)})
  OBVIOUS
<1>13. lo \in Nat /\ g.log <= lo /\ f <= lo
  BY <1>1, <1>5, <1>8, <1>11, MaxOfTwo
<1>14. hi \in Nat /\ hi <= LogEnd(g) /\ hi <= f + SlotSamples
  <2>1. FirstOf(t.l + 1) \in Nat /\ FirstOf(t.l + 1) = f + SlotSamples
    BY <1>2, <1>4, FirstOfIs
  <2>2. PICK z : z = FirstOf(t.l + 1)
    OBVIOUS
  <2> QED BY <1>1, <1>10, <1>12, <2>1, <2>2, MinOfTwo
<1>15. s = [log |-> lo, index |-> IndexAt(g, lo), len |-> hi - lo, pos |-> t.pos, off |-> lo - f]
  BY <1>3, <1>4, <1>6, <1>7, <1>9, <1>11, <1>12 DEF Span
<1>16. s.log = lo /\ s.index = IndexAt(g, lo) /\ s.len = hi - lo /\ s.pos = t.pos /\ s.off = lo - f
  BY <1>15
<1> QED BY <1>1, <1>4, <1>5, <1>13, <1>14, <1>16, Sizes

(* A span planned is in its slot, with the samples it is to have. *)
LEMMA SpanPlanned ==
  ASSUME Inv, NEW i \in 1..Len(segments), NEW x \in 1..Len(slots), NEW a \in Int, NEW b \in Int,
         NEW s, s = Span(segments[i], slots[x], a, b), s.len > 0
  PROVE  SpanOk(s, slots, ring, floor)
<1>1. /\ SlotsOk(slots, floor, end) /\ SegsOk(segments, floor, end) /\ floor \in Nat /\ end \in Nat
      /\ segments \in Seq(SegRec) /\ segments[i] \in SegRec /\ slots[x] \in SlotRec
  <2>1. SlotsOk(slots, floor, end) /\ SegsOk(segments, floor, end) /\ floor \in Nat /\ end \in Nat
        /\ segments \in Seq(SegRec)
    BY DEF Inv, SlotInv, SegInv, TypeInv, SegsOk, Chained
  <2> QED BY <2>1, SlotOf
<1>2. PICK g : g = segments[i]
  OBVIOUS
<1>3. /\ s.log \in Nat /\ s.off \in Nat /\ s.len \in Nat /\ s.pos = slots[x].pos
       /\ segments[i].log <= s.log /\ s.log + s.len <= LogEnd(segments[i])
       /\ s.log = FirstOf(slots[x].l) + s.off /\ s.off + s.len <= SlotSamples
       /\ s.index = IndexAt(segments[i], s.log)
  BY SMTT(40), <1>1, SpanIs
<1>4. /\ s.log \in Nat /\ s.off \in Nat /\ s.len \in Nat /\ s.pos = slots[x].pos
      /\ g.log <= s.log /\ s.log + s.len <= LogEnd(g)
      /\ s.log = FirstOf(slots[x].l) + s.off /\ s.off + s.len <= SlotSamples
      /\ s.index = IndexAt(g, s.log)
  BY <1>2, <1>3
<1>5. PICK lo, off, len : lo = s.log /\ off = s.off /\ len = s.len
  OBVIOUS
<1>6. PICK l, n : l = slots[x].l /\ n = slots[x].n
  OBVIOUS
<1>7. PICK c, z : c = g.log /\ z = LogEnd(g)
  OBVIOUS
<1>8. /\ lo \in Nat /\ off \in Nat /\ len \in Nat /\ len > 0 /\ l \in Nat /\ n \in Nat /\ n <= SlotSamples /\ c \in Nat /\ z \in Nat
      /\ c <= lo /\ lo + len <= z /\ lo = FirstOf(l) + off /\ off + len <= SlotSamples /\ FirstOf(l) \in Nat
  BY <1>1, <1>2, <1>4, <1>5, <1>6, <1>7, SlotOf, SegmentIs
<1>9. ASSUME NEW k \in Nat, off <= k, k < off + len
      PROVE  k \in 0..(n - 1) /\ c <= FirstOf(l) + k /\ FirstOf(l) + k < z
  <2>1. PICK u, w : u = FirstOf(l) /\ w = SlotSamples
    OBVIOUS
  <2>2. PICK p : p = u + k
    OBVIOUS
  <2>3. u \in Nat /\ w \in Nat /\ lo = u + off /\ off + len <= w /\ lo + len <= z /\ c <= lo
    BY <1>8, <2>1, Sizes
  <2>4. lo \in Nat /\ off \in Nat /\ len \in Nat /\ c \in Nat /\ z \in Nat
    BY <1>8
  <2>5. p \in Nat /\ c <= p /\ p < z
    BY <1>9, <2>2, <2>3, <2>4
  <2>6. p \in Nat /\ c <= p /\ p < z /\ k \in 0..(SlotSamples - 1)
    BY <1>8, <1>9, <2>1, <2>3, <2>5
  <2>7. PICK y \in 1..Len(slots), m \in Nat : Places(slots, p, y, m)
    BY <1>1, <1>2, <1>7, <2>6, Retained, SlotAt
  <2>8. p \div SlotSamples = l /\ p % SlotSamples = k
    BY <1>8, <2>1, <2>2, <2>6, PlaceOf
  <2> QED BY <1>6, <2>1, <2>2, <2>6, <2>7, <2>8 DEF Places
<1>10. off + len <= n
  BY <1>8, <1>9
<1>11. ASSUME NEW j \in 1..len PROVE ring[<<s.pos, s.off + j - 1>>] = s.index + j - 1
  <2>1. PICK k : k = off + j - 1
    OBVIOUS
  <2>2. k \in Nat /\ off <= k /\ k < off + len
    BY <1>8, <2>1
  <2>3. k \in 0..(n - 1) /\ c <= FirstOf(l) + k /\ FirstOf(l) + k < z
    BY <1>9, <2>2
  <2>4. ring[<<slots[x].pos, k>>] = IndexAt(g, FirstOf(l) + k)
    BY <1>2, <1>6, <1>7, <2>3 DEF Inv, ValueInv, ValuesOk
  <2>5. IndexAt(g, FirstOf(l) + k) = s.index + j - 1
    <3>1. PICK w, q : w = g.first /\ q = g.start
      OBVIOUS
    <3>2. w \in Nat /\ q \in Nat
      BY <1>1, <1>2, <3>1, SegmentIs
    <3>3. FirstOf(l) + k = lo + (j - 1)
      <4>1. PICK u : u = FirstOf(l)
        OBVIOUS
      <4>2. u \in Nat /\ lo = u + off /\ off \in Nat /\ k = off + j - 1 /\ j \in Nat
        BY <1>8, <2>1, <4>1
      <4> QED BY <4>1, <4>2
    <3>4. w + ((lo + (j - 1)) - q) = w + (lo - q) + j - 1
      <4>1. lo \in Nat /\ j \in Nat
        BY <1>8
      <4> QED BY <3>2, <4>1
    <3> QED BY <1>4, <1>5, <3>1, <3>3, <3>4 DEF IndexAt
  <2> QED BY <1>4, <1>5, <2>1, <2>4, <2>5
<1>12. SpanPlaced(s, x, slots, ring)
  BY <1>4, <1>5, <1>6, <1>10, <1>11 DEF SpanPlaced
<1> QED BY <1>4, <1>5, <1>8, <1>12 DEF SpanOk

LEMMA PlanClipStep ==
  ASSUME Inv, ClipInv, PlanClip
  PROVE  ClipInv'
<1>1. PICK a \in Selectable(segments), b \in Selectable(segments) :
        clip' = [plan |-> Plan(a, b + 1), block |-> <<>>, out |-> <<>>, rolled |-> FALSE]
  BY DEF PlanClip
<1>2. segments \in Seq(SegRec) /\ slots \in Seq(SlotRec)
  BY DEF Inv, SegInv, SlotInv, SegsOk, SlotsOk, Chained
<1>3. \A v \in Selectable(segments) : v \in Int
  <2> TAKE v \in Selectable(segments)
  <2>1. PICK i \in DOMAIN segments : v \in {IndexAt(segments[i], p) : p \in segments[i].log .. (LogEnd(segments[i]) - 1)}
    BY Zenon DEF Selectable
  <2>2. PICK p \in Int : v = IndexAt(segments[i], p)
    BY <2>1
  <2>3. segments[i].first \in Nat /\ segments[i].start \in Nat
    BY <1>2, SegmentOf
  <2> QED BY <2>2, <2>3 DEF IndexAt
<1>4. a \in Int /\ b + 1 \in Int
  BY <1>3
<1>5. \A s \in Plan(a, b + 1) : SpanOk(s, slots, ring, floor)
  BY <1>2, <1>4, SpanPlanned DEF Plan
<1> QED BY <1>1, <1>5 DEF ClipInv, BlockOk, PlanClip, indexVars, fileVars

LEMMA ReadBlockStep ==
  ASSUME Inv, ClipInv, ReadBlock
  PROVE  ClipInv'
<1>1. UNCHANGED <<slots, ring, floor>>
  BY DEF ReadBlock, indexVars, fileVars
<1>2. PICK s : s = NextSpan(clip.plan)
  OBVIOUS
<1>3. PICK c : c = clip
  OBVIOUS
<1>4. c = [plan |-> c.plan, block |-> c.block, out |-> c.out, rolled |-> c.rolled] /\ c.rolled \in BOOLEAN /\ c.plan # {}
  BY <1>3 DEF ClipInv, ReadBlock
<1>5. PICK block : block = [i \in 1..s.len |-> ring[<<s.pos, s.off + i - 1>>]]
  OBVIOUS
<1>6. clip' = [plan |-> c.plan, block |-> block, out |-> c.out, rolled |-> c.rolled]
  BY <1>2, <1>3, <1>4, <1>5 DEF ReadBlock
<1>7. ASSUME c.rolled = FALSE PROVE BlockOk(c.plan, block, floor) /\ \A t \in c.plan : SpanOk(t, slots, ring, floor)
  <2>1. \A t \in c.plan : SpanOk(t, slots, ring, floor)
    BY <1>3, <1>7 DEF ClipInv, ReadBlock
  <2>2. s.log < floor \/ \A i \in 1..s.len : ring[<<s.pos, s.off + i - 1>>] = s.index + i - 1
    BY <1>2, <1>3, <1>4, <2>1, NextSpanIs DEF SpanOk, SpanPlaced
  <2> QED BY <1>2, <1>3, <1>4, <1>5, <2>1, <2>2 DEF BlockOk
<1>8. \A i \in DOMAIN c.out : c.rolled = FALSE => c.out[i].got = c.out[i].want
  BY <1>3 DEF ClipInv, ReadBlock
<1> QED BY <1>1, <1>4, <1>6, <1>7, <1>8 DEF ClipInv

(* What is served is what was read, and the floor had not passed it. *)
LEMMA CheckBlockStep ==
  ASSUME Inv, ClipInv, CheckBlock
  PROVE  ClipInv'
<1>1. UNCHANGED <<slots, ring, floor>>
  BY DEF CheckBlock, indexVars, fileVars
<1>2. PICK s : s = NextSpan(clip.plan)
  OBVIOUS
<1>3. PICK c : c = clip
  OBVIOUS
<1>4. c = [plan |-> c.plan, block |-> c.block, out |-> c.out, rolled |-> c.rolled] /\ c.rolled \in BOOLEAN /\ c.block # <<>>
  BY <1>3 DEF ClipInv, CheckBlock
<1>5. CASE floor > s.log
  BY <1>2, <1>5 DEF CheckBlock, ClipInv
<1>6. CASE ~(floor > s.log)
  <2>1. PICK out : out = [i \in 1..s.len |-> [want |-> s.index + i - 1, got |-> c.block[i]]]
    OBVIOUS
  <2>2. clip' = [plan |-> c.plan \ {s}, block |-> <<>>, out |-> out, rolled |-> c.rolled]
    BY <1>2, <1>3, <1>4, <1>6, <2>1 DEF CheckBlock
  <2>3. ASSUME c.rolled = FALSE
        PROVE  /\ \A t \in c.plan \ {s} : SpanOk(t, slots, ring, floor)
               /\ \A i \in DOMAIN out : out[i].got = out[i].want
    <3>1. (\A t \in c.plan : SpanOk(t, slots, ring, floor)) /\ BlockOk(c.plan, c.block, floor)
      BY <1>3, <2>3 DEF ClipInv, CheckBlock
    <3>2. c.plan # {} /\ (s.log < floor \/ \A i \in 1..s.len : c.block[i] = s.index + i - 1)
      BY <1>2, <1>3, <1>4, <3>1 DEF BlockOk
    <3>3. s \in c.plan /\ s.log \in Nat /\ floor \in Nat
      BY <1>2, <1>3, <3>1, <3>2, NextSpanIs DEF SpanOk, Inv, TypeInv
    <3>4. \A i \in DOMAIN out : out[i].got = out[i].want
      BY <1>6, <2>1, <3>2, <3>3
    <3> QED BY <3>1, <3>4
  <2> QED BY <1>1, <1>4, <2>2, <2>3 DEF ClipInv, BlockOk
<1> QED BY <1>5, <1>6

LEMMA ClipNext ==
  ASSUME Inv, Inv', ClipInv, [Next]_vars
  PROVE  ClipInv'
<1>1. ASSUME UNCHANGED <<slots, ring, floor, clip>> PROVE ClipInv'
  BY <1>1, CarriesStays, ClipKept
<1>2. ASSUME NEW k \in 1..MaxAppend, NEW gap \in 0..MaxGap, Feed(k, gap) PROVE ClipInv'
  BY <1>1, <1>2 DEF Feed, fileVars, clipVars
<1>3. CASE Pause
  BY <1>1, <1>3 DEF Pause, fileVars, logVars, clipVars
<1>4. CASE Write
  BY <1>4, WriteClip
<1>5. CASE WriteFails
  BY <1>5, WriteFailsClip
<1>6. CASE Count
  BY <1>6, CountClip
<1>7. CASE Advance
  BY <1>7, AdvanceClip
<1>8. CASE Opened
  BY <1>1, <1>8 DEF Opened, indexVars, ringVars, clipVars
<1>9. CASE OpenFails
  BY <1>9, OpenFailsClip
<1>10. CASE SealFull
  BY <1>1, <1>10 DEF SealFull, indexVars, fileVars, clipVars
<1>11. CASE EndSegment
  BY <1>1, <1>11 DEF EndSegment, fileVars, logVars, clipVars
<1>12. ASSUME NEW k \in Reason, Checkpoint(k) PROVE ClipInv'
  <2>1. CASE CheckpointSkips(k)
    BY <1>1, <2>1 DEF CheckpointSkips, indexVars, fileVars, clipVars
  <2>2. CASE Sync(k)
    BY <1>1, <2>2 DEF Sync, indexVars, clipVars
  <2>3. CASE SyncFails(k)
    BY <2>3, SyncFailsClip
  <2>4. CASE SealDone(k)
    BY <2>4, StepsDiffer, SealClip DEF SealDone
  <2>5. CASE CompactionFails(k)
    BY <2>5, StepsDiffer, SealClip DEF CompactionFails
  <2>6. CASE SealFails(k)
    BY <1>1, <2>6 DEF SealFails, ringVars, logVars, clipVars
  <2> QED BY <1>12, <2>1, <2>2, <2>3, <2>4, <2>5, <2>6 DEF Checkpoint
<1>13. CASE Clip
  BY <1>13, PlanClipStep, ReadBlockStep, CheckBlockStep DEF ClipDone, ClipInv, Clip
<1>14. CASE Restart
  BY <1>14 DEF Restart, clipVars, ClipInv
<1>15. CASE UNCHANGED vars
  BY <1>1, <1>15 DEF vars
<1> QED BY <1>2, <1>3, <1>4, <1>5, <1>6, <1>7, <1>8, <1>9, <1>10, <1>11, <1>12, <1>13, <1>14, <1>15 DEF Next, Writer, Reason

(* What a clip serves is what it planned, though slots are overwritten, sealed and *)
(* evicted between its reads, unless a failed fsync was rolled back meanwhile.     *)
THEOREM AlwaysClipExact == Spec => []ClipExactUnlessRolledBack
<1>1. Init => ClipInv
  BY DEF Init, ClipInv
<1>2. (Inv /\ Inv') /\ ClipInv /\ [Next]_vars => ClipInv'
  BY ClipNext
<1>3. Inv /\ Whole => Inv
  OBVIOUS
<1>4. Spec => []Inv
  BY AlwaysInv, <1>3, PTL
<1>5. ClipInv => ClipExactUnlessRolledBack
  BY DEF ClipInv, ClipExactUnlessRolledBack
<1> QED BY <1>1, <1>2, <1>4, <1>5, PTL DEF Spec

-----------------------------------------------------------------------------
(* What the log stores *)

\* The log stores sample v at place p.
Has(segs, p, v) ==
  \E i \in 1..Len(segs) : segs[i].log <= p /\ p < LogEnd(segs[i]) /\ v = IndexAt(segs[i], p)

(* The starts of segments, journalled or not.  Places and samples ascend       *)
(* together from one start to the next and to the end of the log, and what a   *)
(* seal covers is older than what is stored after it.                          *)
Starts == journal.segs \cup {Segment(segments[i]) : i \in 1..Len(segments)}

StartsAscend ==
  /\ \A g, h \in Starts : g.start < h.start => g.first + (h.start - g.start) <= h.first
  /\ \A g \in Starts : g.first + (end - g.start) <= stream

\* A sample under a seal, or in the slot the writer is at.
IsSealed(v)  == \E s \in journal.slots : \E k \in 1..s.sealed : v = s.crc[k]
IsWritten(v) == IsSealed(v) \/ (cur # None /\ \E k \in 1..Len(cur.crc) : v = cur.crc[k])

NothingPoisoned ==
  /\ \A v : IsWritten(v) => v \in Nat /\ v < stream /\ v \notin poisoned
  /\ \A v \in poisoned : v \in Nat /\ v < stream

SealsAreOlder == \A v, w : \A p \in Nat : IsSealed(v) /\ Has(segments, p, w) /\ SealedEnd <= p => v < w

OrderInv == StartsAscend /\ NothingPoisoned /\ SealsAreOlder

LEMMA StoredAt ==
  ASSUME NEW segs, NEW f \in Nat, NEW e \in Nat, SegsOk(segs, f, e), NEW p, NEW v, Has(segs, p, v), p \in Int
  PROVE  p \in Nat /\ v \in Nat /\ f <= p /\ p < e
<1>1. PICK i \in 1..Len(segs) : segs[i].log <= p /\ p < LogEnd(segs[i]) /\ v = IndexAt(segs[i], p)
  BY DEF Has
<1>2. p \in Nat /\ f <= p /\ p < e
  BY <1>1, Retained
<1>3. segs \in Seq(SegRec) /\ segs[i].start <= segs[i].log
  BY <1>1 DEF SegsOk, Chained
<1>4. segs[i].start \in Nat /\ segs[i].log \in Nat /\ segs[i].first \in Nat
      /\ IndexAt(segs[i], p) = segs[i].first + (p - segs[i].start)
  BY <1>1, <1>2, <1>3, SegmentOf
<1>5. v \in Nat
  <2>1. PICK s, l, a : s = segs[i].start /\ l = segs[i].log /\ a = segs[i].first
    OBVIOUS
  <2>2. a + (p - s) \in Nat
    <3>1. s \in Nat /\ l \in Nat /\ a \in Nat /\ s <= l /\ l <= p
      BY <1>1, <1>3, <1>4, <2>1
    <3> QED BY <1>2, <3>1
  <2> QED BY <1>1, <1>4, <2>1, <2>2
<1> QED BY <1>2, <1>5

LEMMA StoredOnce ==
  ASSUME NEW segs, Chained(segs), NEW p \in Nat, NEW v, NEW w, Has(segs, p, v), Has(segs, p, w)
  PROVE  v = w
<1>1. PICK i \in 1..Len(segs) : segs[i].log <= p /\ p < LogEnd(segs[i]) /\ v = IndexAt(segs[i], p)
  BY DEF Has
<1>2. PICK j \in 1..Len(segs) : segs[j].log <= p /\ p < LogEnd(segs[j]) /\ w = IndexAt(segs[j], p)
  BY DEF Has
<1> QED BY <1>1, <1>2, OneSegment

LEMMA StoredBetween ==
  ASSUME NEW segs, NEW f \in Nat, NEW e \in Nat, SegsOk(segs, f, e), NEW p \in Nat, f <= p, p < e
  PROVE  \E v \in Nat : Has(segs, p, v)
<1>1. PICK i \in 1..Len(segs) : segs[i].log <= p /\ p < LogEnd(segs[i])
  BY Covered DEF SegsOk
<1>2. Has(segs, p, IndexAt(segs[i], p))
  BY <1>1 DEF Has
<1> QED BY <1>2, StoredAt

\* Every segment of t is a part of one of segs.
Within(t, segs) ==
  \A i \in 1..Len(t) : \E h \in 1..Len(segs) :
    /\ t[i].start = segs[h].start /\ t[i].first = segs[h].first
    /\ segs[h].log <= t[i].log /\ LogEnd(t[i]) <= LogEnd(segs[h])

LEMMA WithinStores ==
  ASSUME NEW segs, Chained(segs), NEW t, NEW f \in Nat, NEW e \in Nat, SegsOk(t, f, e), Within(t, segs),
         NEW p \in Nat, NEW v
  PROVE  /\ Has(t, p, v) => Has(segs, p, v)
         /\ Has(segs, p, v) /\ f <= p /\ p < e => Has(t, p, v)
<1>1. ASSUME NEW w, Has(t, p, w) PROVE Has(segs, p, w)
  <2>1. PICK i \in 1..Len(t) : t[i].log <= p /\ p < LogEnd(t[i]) /\ w = IndexAt(t[i], p)
    BY <1>1 DEF Has
  <2>2. PICK h \in 1..Len(segs) :
          /\ t[i].start = segs[h].start /\ t[i].first = segs[h].first
          /\ segs[h].log <= t[i].log /\ LogEnd(t[i]) <= LogEnd(segs[h])
    BY <2>1 DEF Within
  <2>3. t[i].log \in Nat /\ LogEnd(t[i]) \in Nat /\ segs[h].log \in Nat /\ LogEnd(segs[h]) \in Nat
    BY SegmentOf DEF SegsOk, Chained
  <2>4. w = IndexAt(segs[h], p)
    BY <2>1, <2>2 DEF IndexAt
  <2>5. PICK a \in Nat, b \in Nat, c \in Nat, d \in Nat :
          a = segs[h].log /\ b = t[i].log /\ c = LogEnd(t[i]) /\ d = LogEnd(segs[h])
    BY <2>3
  <2>6. a <= b /\ b <= p /\ p < c /\ c <= d
    BY <2>1, <2>2, <2>5
  <2>7. a <= p /\ p < d
    BY <2>6
  <2>8. segs[h].log <= p /\ p < LogEnd(segs[h])
    BY <2>5, <2>7
  <2> QED BY <2>4, <2>8 DEF Has
<1>2. ASSUME Has(segs, p, v), f <= p, p < e PROVE Has(t, p, v)
  BY <1>1, <1>2, StoredBetween, StoredOnce
<1> QED BY <1>1, <1>2

(* Of two places the later one stores the later sample, and all are before the *)
(* end of the stream.                                                          *)
LEMMA StoredInOrder ==
  ASSUME Inv, StartsAscend, NEW p \in Nat, NEW v, Has(segments, p, v)
  PROVE  /\ v \in Nat /\ v < stream /\ floor <= p /\ p < end
         /\ \A q \in Nat : \A w : Has(segments, q, w) /\ p < q => v < w
<1>1. /\ SegsOk(segments, floor, end) /\ Chained(segments) /\ segments \in Seq(SegRec)
      /\ floor \in Nat /\ end \in Nat /\ stream \in Nat /\ Len(segments) \in Nat
  BY DEF Inv, SegInv, TypeInv, SegsOk, Chained
<1>2. PICK i \in 1..Len(segments) : segments[i].log <= p /\ p < LogEnd(segments[i]) /\ v = IndexAt(segments[i], p)
  BY DEF Has
<1>3. v \in Nat /\ floor <= p /\ p < end
  BY <1>1, StoredAt
<1>4. \A k \in 1..Len(segments) :
        /\ segments[k].start \in Nat /\ segments[k].log \in Nat /\ segments[k].first \in Nat
        /\ LogEnd(segments[k]) \in Nat /\ segments[k].start <= segments[k].log
        /\ \A q \in Int : IndexAt(segments[k], q) = segments[k].first + (q - segments[k].start)
  BY <1>1, SegmentOf DEF Chained
<1>5. \A k \in 1..Len(segments) : /\ Segment(segments[k]) \in Starts
                                  /\ Segment(segments[k]).start = segments[k].start
                                  /\ Segment(segments[k]).first = segments[k].first
  BY DEF Starts, Segment
<1>6. PICK s, l, n, a : /\ s = segments[i].start /\ l = segments[i].log /\ n = LogEnd(segments[i])
                         /\ a = segments[i].first
  OBVIOUS
<1>7. /\ s \in Nat /\ l \in Nat /\ n \in Nat /\ a \in Nat /\ s <= l /\ l <= p /\ p < n
      /\ v = a + (p - s)
  BY <1>2, <1>4, <1>6
<1>8. v < stream
  <2>1. a + (end - s) <= stream
    BY <1>5, <1>6 DEF StartsAscend
  <2> QED BY <1>1, <1>3, <1>7, <2>1
<1>9. ASSUME NEW q \in Nat, NEW w, Has(segments, q, w), p < q PROVE v < w
  <2>1. PICK j \in 1..Len(segments) : segments[j].log <= q /\ q < LogEnd(segments[j]) /\ w = IndexAt(segments[j], q)
    BY <1>9 DEF Has
  <2>2. PICK t, m, o, b : /\ t = segments[j].start /\ m = segments[j].log /\ o = LogEnd(segments[j])
                          /\ b = segments[j].first
    OBVIOUS
  <2>3. /\ t \in Nat /\ m \in Nat /\ o \in Nat /\ b \in Nat /\ t <= m /\ m <= q /\ q < o
        /\ w = b + (q - t)
    BY <1>4, <2>1, <2>2
  <2>4. CASE i = j
    <3>1. s = t /\ a = b
      BY <1>6, <2>2, <2>4
    <3> QED BY <1>7, <1>9, <2>3, <3>1
  <2>5. CASE i < j
    <3>1. n <= t
      BY <1>1, <1>6, <2>2, <2>5 DEF Chained
    <3>2. s < t
      BY <1>7, <2>3, <3>1
    <3>3. a + (t - s) <= b
      BY <1>5, <1>6, <2>2, <3>2 DEF StartsAscend
    <3> QED BY <1>7, <1>9, <2>3, <3>3
  <2>6. CASE j < i
    <3>1. o <= s
      BY <1>1, <1>6, <2>2, <2>6 DEF Chained
    <3> QED BY <1>7, <1>9, <2>3, <3>1
  <2> QED BY <2>4, <2>5, <2>6
<1> QED BY <1>3, <1>8, <1>9

(* What a seal covers lies below SealedEnd. *)
LEMMA SealedIs ==
  ASSUME Inv
  PROVE  \A v : v \in SealedIndices <=> \E p \in Nat : Has(segments, p, v) /\ p < SealedEnd
<1>1. /\ SlotsOk(slots, floor, end) /\ SegsOk(segments, floor, end) /\ floor \in Nat /\ end \in Nat
      /\ segments \in Seq(SegRec) /\ slots \in Seq(SlotRec) /\ Len(slots) \in Nat
      /\ DOMAIN segments = 1..Len(segments) /\ DOMAIN slots = 1..Len(slots)
      /\ Settled \in Nat /\ Settled <= Len(slots) /\ SealedEnd \in Nat
      /\ Settled = 0 => SealedEnd = 0
      /\ Settled > 0 => Settled \in 1..Len(slots) /\ SealedEnd = FirstOf(slots[Settled].l) + slots[Settled].sealed
  BY SettledIs DEF Inv, SegInv, SlotInv, TypeInv, SegsOk, Chained
<1>2. ASSUME NEW x \in 1..Len(slots), ~(x <= Settled)
      PROVE  slots[x].n = 0 /\ slots[x].sealed = 0
  <2>1. pc = <<"open">> /\ Settled = Len(slots) - 1
    BY <1>1, <1>2, SettledIs DEF Inv
  <2>2. x = Len(slots)
    <3>1. PICK n, m : n = Len(slots) /\ m = Settled
      OBVIOUS
    <3>2. n \in Nat /\ m = n - 1 /\ x \in 1..n /\ ~(x <= m)
      BY <1>1, <1>2, <2>1, <3>1
    <3> QED BY <3>1, <3>2
  <2>3. slots[x].n = 0 /\ slots[x].sealed = 0
    BY <2>1, <2>2, AtOpen DEF Inv
  <2> QED BY <2>3
<1>3. ASSUME NEW v, v \in SealedIndices
      PROVE  \E p \in Nat : Has(segments, p, v) /\ p < SealedEnd
  <2>1. PICK g \in {h \in Range(segments) : h.persisted} :
          v \in {IndexAt(g, p) : p \in {q \in g.log .. (LogEnd(g) - 1) :
                   \E i \in DOMAIN slots : slots[i].l = q \div SlotSamples
                                            /\ q < FirstOf(slots[i].l) + slots[i].sealed}}
    BY <1>3 DEF SealedIndices
  <2>2. PICK p \in g.log .. (LogEnd(g) - 1) :
          v = IndexAt(g, p) /\ \E i \in DOMAIN slots : slots[i].l = p \div SlotSamples
                                                        /\ p < FirstOf(slots[i].l) + slots[i].sealed
    BY <2>1
  <2>3. PICK x \in 1..Len(slots) : slots[x].l = p \div SlotSamples /\ p < FirstOf(slots[x].l) + slots[x].sealed
    BY <1>1, <2>2
  <2>4. PICK i \in 1..Len(segments) : g = segments[i]
    BY <1>1, <2>1 DEF Range
  <2>5. g.log \in Nat /\ LogEnd(g) \in Nat /\ g.log <= p /\ p < LogEnd(g) /\ p \in Nat
    BY <1>1, <2>2, <2>4, SegmentOf
  <2>6. FirstOf(slots[x].l) <= p
    <3>1. p = FirstOf(p \div SlotSamples) + (p % SlotSamples) /\ p % SlotSamples \in Nat
          /\ FirstOf(p \div SlotSamples) \in Nat
      <4>1. p \div SlotSamples \in Nat /\ p % SlotSamples \in 0..(SlotSamples - 1)
            /\ p = FirstOf(p \div SlotSamples) + (p % SlotSamples)
        BY <2>5, PlaceOf
      <4>2. FirstOf(p \div SlotSamples) \in Nat
        BY <4>1, FirstOfIs
      <4> QED BY <4>1, <4>2, Sizes
    <3> QED BY <2>3, <3>1
  <2>7. slots[x].sealed \in Nat /\ slots[x].sealed <= SlotSamples /\ FirstOf(slots[x].l) \in Nat
    BY <1>1, SlotOf, SlotRecIs
  <2>8. x <= Settled
    BY <1>2, <2>3, <2>5, <2>6, <2>7
  <2>9. p < SealedEnd
    <3>1. CASE x = Settled
      BY <1>1, <2>3, <2>8, <3>1
    <3>2. CASE x < Settled
      <4>1. Settled \in 1..Len(slots) /\ SealedEnd = FirstOf(slots[Settled].l) + slots[Settled].sealed
        BY <1>1, <3>2
      <4>2. FirstOf(slots[x].l) + SlotSamples <= FirstOf(slots[Settled].l)
        BY <1>1, <3>2, <4>1, SlotNumbers
      <4>3. PICK a, b, s, t : /\ a = FirstOf(slots[x].l) /\ b = FirstOf(slots[Settled].l)
                              /\ s = slots[x].sealed /\ t = slots[Settled].sealed
        OBVIOUS
      <4>4. /\ a \in Nat /\ b \in Nat /\ s \in Nat /\ t \in Nat /\ s <= SlotSamples
            /\ p < a + s /\ a + SlotSamples <= b /\ SealedEnd = b + t
        BY <1>1, <2>3, <2>7, <4>1, <4>2, <4>3, SlotOf
      <4> QED BY <2>5, <4>4, Sizes
    <3> QED BY <1>1, <2>8, <3>1, <3>2
  <2> QED BY <2>2, <2>4, <2>5, <2>9 DEF Has
<1>4. ASSUME NEW v, NEW p \in Nat, Has(segments, p, v), p < SealedEnd
      PROVE  v \in SealedIndices
  <2>1. PICK i \in 1..Len(segments) : segments[i].log <= p /\ p < LogEnd(segments[i]) /\ v = IndexAt(segments[i], p)
    BY <1>4 DEF Has
  <2>2. floor <= p /\ p < end
    BY <1>1, <1>4, StoredAt
  <2>3. segments[i].persisted
    BY <1>1, <1>4, <2>1, SegmentOf, SegmentIs DEF Inv, PersistInv
  <2>4. PICK x \in 1..Len(slots), k \in Nat : Places(slots, p, x, k)
    BY <1>1, <2>2, SlotAt
  <2>5. k \in 0..(slots[x].n - 1) /\ p = FirstOf(slots[x].l) + k /\ slots[x].l = p \div SlotSamples
    BY <2>4 DEF Places
  <2>6. /\ slots[x].n \in Nat /\ slots[x].sealed \in Nat /\ slots[x].n <= SlotSamples /\ FirstOf(slots[x].l) \in Nat
        /\ x < Len(slots) => slots[x].sealed = SlotSamples
    BY <1>1, SlotOf
  <2>7. x <= Settled
    BY <1>2, <2>5, <2>6
  <2>8. p < FirstOf(slots[x].l) + slots[x].sealed
    <3>1. CASE x = Settled
      BY <1>1, <1>4, <2>7, <3>1
    <3>2. CASE x < Settled
      <4>1. slots[x].sealed = SlotSamples
        BY <1>1, <2>6, <3>2
      <4>2. PICK a, n, z : a = FirstOf(slots[x].l) /\ n = slots[x].n /\ z = slots[x].sealed
        OBVIOUS
      <4>3. a \in Nat /\ n \in Nat /\ z \in Nat /\ n <= z /\ k < n /\ p = a + k
        BY <2>5, <2>6, <4>1, <4>2
      <4>4. p < a + z
        BY <4>3
      <4> QED BY <4>2, <4>4
    <3> QED BY <1>1, <2>7, <3>1, <3>2
  <2>9. p \in segments[i].log .. (LogEnd(segments[i]) - 1)
    BY <1>1, <2>1, SegmentOf
  <2>10. p \in {q \in segments[i].log .. (LogEnd(segments[i]) - 1) :
                 \E y \in DOMAIN slots : slots[y].l = q \div SlotSamples /\ q < FirstOf(slots[y].l) + slots[y].sealed}
    BY <1>1, <2>5, <2>8, <2>9
  <2> QED BY <1>1, <2>1, <2>3, <2>10 DEF SealedIndices, Range
<1> QED BY <1>3, <1>4

LEMMA SelectableIs ==
  ASSUME NEW segs \in Seq(SegRec)
  PROVE  \A v : v \in Selectable(segs) <=> \E p \in Nat : Has(segs, p, v)
<1>1. DOMAIN segs = 1..Len(segs)
  OBVIOUS
<1>2. \A i \in 1..Len(segs) : segs[i].log \in Nat /\ LogEnd(segs[i]) \in Nat
  BY SegmentOf
<1>3. ASSUME NEW v, v \in Selectable(segs) PROVE \E p \in Nat : Has(segs, p, v)
  BY <1>1, <1>2, <1>3 DEF Selectable, Has
<1>4. ASSUME NEW v, NEW p \in Nat, Has(segs, p, v) PROVE v \in Selectable(segs)
  BY <1>1, <1>2, <1>4 DEF Has, Selectable
<1> QED BY <1>3, <1>4

-----------------------------------------------------------------------------
(* What a step does to the log, as CaptureLog puts it *)

StoreIs ==
  /\ \A v : v \in Selectable(segments) <=> \E p \in Nat : Has(segments, p, v)
  /\ \A v : v \in SealedIndices <=> \E p \in Nat : Has(segments, p, v) /\ p < SealedEnd

LEMMA StoreFollows == Inv => StoreIs
<1> SUFFICES ASSUME Inv PROVE StoreIs
  OBVIOUS
<1> QED BY SealedIs, SelectableIs DEF StoreIs, Inv, SegInv, SegsOk, Chained

LEMMA StoredBoth ==
  ASSUME Inv, Inv'
  PROVE  /\ \A v : v \in Selectable(segments) <=> \E p \in Nat : Has(segments, p, v)
         /\ \A v : v \in SealedIndices <=> \E p \in Nat : Has(segments, p, v) /\ p < SealedEnd
         /\ \A v : v \in Selectable(segments') <=> \E p \in Nat : Has(segments', p, v)
         /\ \A v : v \in SealedIndices' <=> \E p \in Nat : Has(segments', p, v) /\ p < SealedEnd'
         /\ \A p \in Nat : \A v : Has(segments', p, v) => v \in Nat /\ floor' <= p /\ p < end'
         /\ SealedEnd \in Nat /\ stream \in Nat /\ floor' \in Nat /\ end \in Nat /\ SealedEnd <= end
<1>1. StoreIs'
  BY StoreFollows, PTL
<1>2. \A v : v \in Selectable(segments') <=> \E p \in Nat : Has(segments', p, v)
  BY <1>1 DEF StoreIs
<1>3. \A v : v \in SealedIndices' <=> \E p \in Nat : Has(segments', p, v) /\ p < SealedEnd'
  BY <1>1 DEF StoreIs
<1>4. SegsOk(segments', floor', end') /\ floor' \in Nat /\ end' \in Nat
  BY DEF Inv, SegInv, TypeInv
<1>5. \A p \in Nat : \A v : Has(segments', p, v) => v \in Nat /\ floor' <= p /\ p < end'
  BY <1>4, StoredAt
<1>6. SealedEnd \in Nat /\ SealedEnd <= end /\ stream \in Nat /\ end \in Nat
  BY SettledIs DEF Inv, TypeInv
<1> QED BY <1>2, <1>3, <1>4, <1>5, <1>6, StoreFollows DEF StoreIs

\* Places keep their samples unless the floor passes them; new samples are newer.
Extends ==
  /\ \A p \in Nat : \A v : Has(segments', p, v) => Has(segments, p, v) \/ (end <= p /\ stream <= v)
  /\ \A p \in Nat : \A v : Has(segments, p, v) /\ floor' <= p => Has(segments', p, v)

LEMMA LogAppends ==
  ASSUME Inv, Inv', OrderInv, Extends, UNCHANGED <<poisoned, run>>, SealedEnd' = SealedEnd
  PROVE  Log!Append
<1>1. /\ \A v : v \in Selectable(segments) <=> \E p \in Nat : Has(segments, p, v)
      /\ \A v : v \in SealedIndices <=> \E p \in Nat : Has(segments, p, v) /\ p < SealedEnd
      /\ \A v : v \in Selectable(segments') <=> \E p \in Nat : Has(segments', p, v)
      /\ \A v : v \in SealedIndices' <=> \E p \in Nat : Has(segments', p, v) /\ p < SealedEnd
      /\ \A p \in Nat : \A v : Has(segments', p, v) => v \in Nat /\ floor' <= p
      /\ SealedEnd \in Nat /\ stream \in Nat /\ floor' \in Nat /\ end \in Nat /\ SealedEnd <= end
  BY StoredBoth
<1>2. \A p \in Nat : \A v : Has(segments, p, v) =>
        v \in Nat /\ v < stream /\ \A q \in Nat : \A w : Has(segments, q, w) /\ p < q => v < w
  BY StoredInOrder DEF OrderInv
<1>3. ASSUME NEW i \in Selectable(segments) \ Selectable(segments'), NEW j \in Selectable(segments')
      PROVE  i < j
  BY <1>1, <1>2, <1>3 DEF Extends
<1>4. ASSUME NEW i \in Selectable(segments) \cup poisoned, NEW j \in Selectable(segments') \ Selectable(segments)
      PROVE  i < j
  BY <1>1, <1>2, <1>4 DEF Extends, OrderInv, NothingPoisoned
<1>5. ASSUME NEW v PROVE v \in SealedIndices' <=> v \in SealedIndices /\ v \in Selectable(segments')
  BY <1>1, <1>2 DEF Extends
<1>6. Log!Before(Selectable(segments) \cup poisoned, Selectable(segments') \ Selectable(segments))
  BY <1>4 DEF Log!Before
<1>7. SealedIndices' = SealedIndices \cap Selectable(segments')
  BY <1>5
<1> QED BY <1>3, <1>6, <1>7 DEF Log!Append, Log!Before

LEMMA LogSeals ==
  ASSUME Inv, Inv', \A p \in Nat : \A v : Has(segments', p, v) <=> Has(segments, p, v),
         SealedEnd' = end', UNCHANGED <<poisoned, run>>
  PROVE  Log!Seal
<1>1. /\ \A v : v \in Selectable(segments) <=> \E p \in Nat : Has(segments, p, v)
      /\ \A v : v \in Selectable(segments') <=> \E p \in Nat : Has(segments', p, v)
      /\ \A v : v \in SealedIndices' <=> \E p \in Nat : Has(segments', p, v) /\ p < end'
      /\ \A p \in Nat : \A v : Has(segments', p, v) => p < end'
  BY StoredBoth
<1>2. Selectable(segments') = Selectable(segments)
  BY <1>1
<1>3. SealedIndices' = Selectable(segments')
  BY <1>1
<1> QED BY <1>2, <1>3 DEF Log!Seal

LEMMA LogDiscards ==
  ASSUME Inv, Inv', OrderInv, SealedEnd' = SealedEnd, UNCHANGED run,
         \A p \in Nat : \A v : Has(segments', p, v) <=> Has(segments, p, v) /\ p < SealedEnd,
         poisoned' = poisoned \cup (Selectable(segments) \ Selectable(segments'))
  PROVE  Log!Discard
<1>1. /\ \A v : v \in Selectable(segments) <=> \E p \in Nat : Has(segments, p, v)
      /\ \A v : v \in SealedIndices <=> \E p \in Nat : Has(segments, p, v) /\ p < SealedEnd
      /\ \A v : v \in Selectable(segments') <=> \E p \in Nat : Has(segments', p, v)
      /\ \A v : v \in SealedIndices' <=> \E p \in Nat : Has(segments', p, v) /\ p < SealedEnd
      /\ SealedEnd \in Nat
  BY StoredBoth
<1>2. \A v : v \in SealedIndices' <=> v \in SealedIndices
  BY <1>1
<1>3. ASSUME NEW i \in SealedIndices, NEW j \in Selectable(segments) \ SealedIndices PROVE i < j
  BY <1>1, <1>3, StoredInOrder DEF OrderInv
<1>4. Selectable(segments') = SealedIndices /\ SealedIndices' = SealedIndices
  BY <1>1, <1>2
<1>5. poisoned' = poisoned \cup (Selectable(segments) \ SealedIndices)
  BY <1>4
<1> QED BY <1>3, <1>4, <1>5 DEF Log!Discard, Log!Before

LEMMA LogCrashes ==
  ASSUME Inv, Inv', SealedEnd' = end', run' = run + 1, UNCHANGED poisoned,
         \A p \in Nat : \A v : Has(segments, p, v) /\ p < SealedEnd => Has(segments', p, v),
         \A p \in Nat : \A v : Has(segments', p, v) => v \notin poisoned
  PROVE  Log!Crash
<1>1. /\ \A v : v \in SealedIndices <=> \E p \in Nat : Has(segments, p, v) /\ p < SealedEnd
      /\ \A v : v \in Selectable(segments') <=> \E p \in Nat : Has(segments', p, v)
      /\ \A v : v \in SealedIndices' <=> \E p \in Nat : Has(segments', p, v) /\ p < end'
      /\ \A p \in Nat : \A v : Has(segments', p, v) => p < end'
  BY StoredBoth
<1>2. SealedIndices' = Selectable(segments')
  BY <1>1
<1>3. Selectable(segments') \cap poisoned = {}
  BY <1>1
<1> QED BY <1>1, <1>2, <1>3 DEF Log!Crash

LEMMA StartsAre ==
  ASSUME Inv
  PROVE  /\ \A g \in Starts : g.start \in Nat /\ g.first \in Nat /\ g.start <= end
         /\ end \in Nat /\ stream \in Nat /\ Len(segments) \in Nat
         /\ \A i \in 1..Len(segments) : Segment(segments[i]) \in Starts
<1>1. /\ SegsOk(segments, floor, end) /\ Chained(segments) /\ segments \in Seq(SegRec)
      /\ end \in Nat /\ stream \in Nat /\ Len(segments) \in Nat /\ SealedEnd \in Nat /\ SealedEnd <= end
  BY SettledIs DEF Inv, SegInv, TypeInv, SegsOk, Chained
<1>2. ASSUME NEW g \in journal.segs PROVE g.start \in Nat /\ g.first \in Nat /\ g.start <= end
  BY <1>1 DEF Inv, JournalInv, JournalOk, JournalType, Start, LinkInv
<1>3. ASSUME NEW i \in 1..Len(segments)
      PROVE  /\ Segment(segments[i]).start \in Nat /\ Segment(segments[i]).first \in Nat
             /\ Segment(segments[i]).start <= end
  <2>1. segments[i].start \in Nat /\ segments[i].first \in Nat /\ segments[i].log \in Nat
        /\ LogEnd(segments[i]) \in Nat /\ segments[i].log <= LogEnd(segments[i])
    BY <1>1, SegmentOf
  <2>2. Len(segments) \in 1..Len(segments)
    BY <1>1
  <2>3. /\ segments[Len(segments)].start \in Nat /\ segments[Len(segments)].log \in Nat
        /\ LogEnd(segments[Len(segments)]) \in Nat
        /\ segments[Len(segments)].log <= LogEnd(segments[Len(segments)])
    BY <1>1, <2>2, SegmentOf
  <2>4. /\ segments[i].start <= segments[i].log
        /\ segments[Len(segments)].start <= segments[Len(segments)].log
        /\ i < Len(segments) => LogEnd(segments[i]) <= segments[Len(segments)].start
    BY <1>1, <2>2 DEF Chained
  <2>5. LogEnd(segments[Len(segments)]) = end
    BY <1>1, <2>2 DEF SegsOk
  <2>6. segments[i].start <= end
    BY <1>1, <2>1, <2>3, <2>4, <2>5
  <2> QED BY <2>1, <2>6 DEF Segment
<1>4. \A i \in 1..Len(segments) : Segment(segments[i]) \in Starts
  BY DEF Starts
<1> QED BY <1>1, <1>2, <1>3, <1>4 DEF Starts

LEMMA AscendKept ==
  ASSUME Inv, StartsAscend, \A g \in Starts' : g \in Starts, end' \in Nat, stream' \in Nat,
         end' - end <= stream' - stream
  PROVE  StartsAscend'
<1>1. /\ \A g \in Starts : g.start \in Nat /\ g.first \in Nat
      /\ end \in Nat /\ stream \in Nat
  BY StartsAre
<1>2. ASSUME NEW g \in Starts' PROVE g.first + (end' - g.start) <= stream'
  <2>1. PICK a, s, e, t : a = g.first /\ s = g.start /\ e = end' /\ t = stream'
    OBVIOUS
  <2>2. /\ a \in Nat /\ s \in Nat /\ e \in Nat /\ t \in Nat /\ a + (end - s) <= stream
        /\ e - end <= t - stream
    BY <1>1, <2>1 DEF StartsAscend
  <2>3. a + (e - s) <= t
    BY <1>1, <2>2
  <2> QED BY <2>1, <2>3
<1> QED BY <1>2 DEF StartsAscend

\* Only what was written before, and new samples of the stream.
WritesOn ==
  \A v : IsWritten(v)' => IsWritten(v) \/ (v \in Nat /\ stream <= v /\ v < stream')

LEMMA PoisonKept ==
  ASSUME Inv, Inv', NothingPoisoned, WritesOn, stream <= stream', UNCHANGED poisoned
  PROVE  NothingPoisoned'
<1>1. stream \in Nat /\ stream' \in Nat
  BY DEF Inv, TypeInv
<1>2. ASSUME NEW v, IsWritten(v)' PROVE v \in Nat /\ v < stream' /\ v \notin poisoned'
  BY <1>1, <1>2 DEF NothingPoisoned, WritesOn
<1>3. \A v : IsWritten(v)' => v \in Nat /\ v < stream' /\ v \notin poisoned'
  BY <1>2
<1> QED BY <1>1, <1>3 DEF NothingPoisoned

\* When a seal covers all, nothing is stored after it.
LEMMA NothingUnsealed ==
  ASSUME Inv', SealedEnd' = end'
  PROVE  SealsAreOlder'
<1>1. ASSUME NEW p \in Nat, NEW w, Has(segments', p, w), SealedEnd' <= p PROVE FALSE
  BY <1>1, StoredAt DEF Inv, SegInv, TypeInv
<1> QED BY <1>1 DEF SealsAreOlder

Obeys        == OrderInv' /\ [Log!Next]_(Log!vars)
SealsNothing == \A v : IsSealed(v)' => IsSealed(v)

LEMMA Appending ==
  ASSUME Inv, Inv', OrderInv, Extends, StartsAscend', WritesOn, SealsNothing, stream <= stream',
         SealedEnd' = SealedEnd, UNCHANGED <<poisoned, run>>
  PROVE  Obeys
<1>1. SealsAreOlder'
  BY StoredBoth DEF SealsNothing, OrderInv, SealsAreOlder, NothingPoisoned, IsWritten, Extends
<1>2. OrderInv'
  BY <1>1, PoisonKept DEF OrderInv
<1> QED BY <1>2, LogAppends DEF Obeys, Log!Next

(* A step that leaves the index, the journal and the cursor's samples alone. *)
LEMMA Idling ==
  ASSUME Inv, Inv', OrderInv, UNCHANGED <<journal, segments, end, cur, poisoned, run>>, stream <= stream',
         SealedEnd' = SealedEnd
  PROVE  Obeys
<1>1. StartsAscend'
  <2>1. end' \in Nat /\ stream' \in Nat /\ end \in Nat /\ stream \in Nat
    BY DEF Inv, TypeInv
  <2>2. end' - end <= stream' - stream
    <3>1. PICK t : t = stream'
      OBVIOUS
    <3>2. t \in Nat /\ stream <= t
      BY <2>1, <3>1
    <3>3. end - end <= t - stream
      BY <2>1, <3>2
    <3> QED BY <3>1, <3>3
  <2> QED BY <2>1, <2>2, AscendKept DEF OrderInv, Starts
<1>2. \A v : (IsSealed(v)' <=> IsSealed(v)) /\ (IsWritten(v)' <=> IsWritten(v))
  BY DEF IsWritten, IsSealed
<1> QED BY <1>1, <1>2, Appending DEF WritesOn, SealsNothing, Extends

LEMMA QuietObeys ==
  ASSUME Inv, Inv', OrderInv, UNCHANGED <<journal, slots, segments, end, cur, poisoned, run>>,
         stream' = stream \/ stream' = stream + rest, pc # <<"open">>, pc' # <<"open">>
  PROVE  Obeys
<1>1. stream <= stream'
  BY DEF Inv, TypeInv
<1> QED BY <1>1, Idling, SettledStays

LEMMA PauseObeys ==
  ASSUME Inv, Inv', OrderInv, Pause
  PROVE  Obeys
<1>1. pc # <<"open">> /\ pc' # <<"open">>
  BY StepsDiffer DEF Pause
<1> QED BY <1>1, QuietObeys DEF Pause, fileVars, logVars, clipVars

LEMMA WritesObey ==
  ASSUME Inv, Inv', OrderInv, Write \/ WriteFails
  PROVE  Obeys
<1>1. CASE Write
  BY <1>1, StepsDiffer, QuietObeys DEF Write, indexVars, inputVars, clipVars
<1>2. CASE WriteFails
  BY <1>2, StepsDiffer, QuietObeys DEF WriteFails, Fail, logVars, clipVars
<1> QED BY <1>1, <1>2

LEMMA CheckpointsBeginObeying ==
  ASSUME Inv, Inv', OrderInv, NEW k \in Reason,
         SealFull \/ EndSegment \/ CheckpointSkips(k) \/ Sync(k)
  PROVE  Obeys
<1>1. UNCHANGED <<journal, slots, segments, end, cur, poisoned, run, stream>>
  BY DEF SealFull, EndSegment, CheckpointSkips, Sync, fileVars, indexVars, logVars, inputVars, clipVars
<1>2. pc # <<"open">> /\ pc' # <<"open">>
  BY StepsDiffer, StepsAre DEF SealFull, Syncing, EndSegment, CheckpointSkips, Sync
<1> QED BY <1>1, <1>2, QuietObeys

LEMMA SealFailsObeys ==
  ASSUME Inv, Inv', OrderInv, NEW k \in Reason, SealFails(k)
  PROVE  Obeys
<1>1. UNCHANGED <<journal, slots, segments, end, cur, poisoned, run>> /\ pc = <<"seal", k>>
  BY DEF SealFails, logVars, clipVars
<1>2. (stream' = stream \/ stream' = stream + rest) /\ pc' = <<"idle">>
  BY DEF SealFails, FailUnlessEnd, Fail
<1> QED BY <1>1, <1>2, QuietObeys, StepsAre, StepsDiffer

LEMMA ClipObeys ==
  ASSUME Inv, Inv', OrderInv, Clip \/ UNCHANGED vars
  PROVE  Obeys
<1>1. UNCHANGED <<journal, slots, segments, end, cur, pc, poisoned, run, stream>>
  <2>1. CASE Clip
    BY <2>1 DEF Clip, PlanClip, ReadBlock, CheckBlock, ClipDone, indexVars, fileVars, writerVars, inputVars
  <2>2. CASE UNCHANGED vars
    BY <2>2 DEF vars
  <2> QED BY <2>1, <2>2
<1>2. stream <= stream'
  BY <1>1 DEF Inv, TypeInv
<1> QED BY <1>1, <1>2, Idling, SettledStays

-----------------------------------------------------------------------------
(* The steps that take samples in *)

(* A new segment starts at the end of the log, with a sample past the stream. *)
LEMMA FeedObeys ==
  ASSUME Inv, Inv', OrderInv, NEW k \in 1..MaxAppend, NEW gap \in 0..MaxGap, Feed(k, gap)
  PROVE  Obeys
<1>1. PICK begins \in {TRUE, ~open \/ gap > 0}, waiting \in {FALSE, backoff} :
       /\ segments' = IF begins THEN BeginSegment(stream + gap) ELSE segments
       /\ pc' = IF waiting THEN <<"idle">> ELSE <<"write">>
  BY DEF Feed
<1>2. UNCHANGED <<slots, end, floor, cur, journal, poisoned, run>> /\ pc = <<"idle">>
  BY DEF Feed, fileVars, clipVars
<1>3. k \in Nat /\ k > 0 /\ gap \in Nat /\ stream \in Nat /\ end \in Nat /\ floor \in Nat
  BY Sizes DEF Inv, TypeInv
<1>4. stream <= stream' /\ stream + gap <= stream' /\ stream' \in Nat
  BY <1>3 DEF Feed
<1>5. SealedEnd' = SealedEnd
  BY <1>1, <1>2, StepsDiffer, SettledStays
<1>6. CASE segments' = segments
  BY <1>2, <1>4, <1>5, <1>6, Idling
<1>7. CASE segments' = BeginSegment(stream + gap)
  <2> DEFINE first == stream + gap
  <2>1. SegsOk(segments, floor, end) /\ TypeInv /\ Chained(segments) /\ segments \in Seq(SegRec) /\ Len(segments) \in Nat
    BY DEF Inv, SegInv, SegsOk, Chained
  <2>2. first \in Nat
    BY <1>3
  <2> HIDE DEF first
  <2>3. PICK m \in 0..Len(segments) : BegunAt(segments', first, m)
    BY <1>7, <2>1, <2>2, BeginSegmentIs DEF first
  <2>4. /\ Len(segments') = m + 1 /\ segments'[m + 1] = NewSegment(first) /\ m \in Nat
        /\ \A i \in 1..m : segments'[i] = segments[i] /\ i \in 1..Len(segments)
        /\ m > 0 => LogEnd(segments[m]) = end
        /\ m = 0 => end <= floor
    BY <2>3 DEF BegunAt
  <2>5. /\ NewSegment(first).log = end /\ LogEnd(NewSegment(first)) = end
        /\ Segment(NewSegment(first)) = [start |-> end, first |-> first]
    BY <1>3 DEF NewSegment, LogEnd, Segment
  <2>6. \A i \in 1..Len(segments') : i \in 1..m \/ i = m + 1
    BY <2>4
  <2>7. ASSUME NEW p \in Nat, NEW v, Has(segments', p, v) PROVE Has(segments, p, v)
    BY <1>3, <2>4, <2>5, <2>6, <2>7 DEF Has
  <2>8. ASSUME NEW p \in Nat, NEW v, Has(segments, p, v) PROVE Has(segments', p, v)
    <3>1. PICK i \in 1..Len(segments) : segments[i].log <= p /\ p < LogEnd(segments[i]) /\ v = IndexAt(segments[i], p)
      BY <2>8 DEF Has
    <3>2. floor <= p /\ p < end
      BY <1>3, <2>1, <2>8, StoredAt
    <3>3. m > 0
      BY <1>3, <2>4, <3>2
    <3>4. ~(m < i)
      <4>1. CASE m < i
        <5>1. LogEnd(segments[m]) <= segments[i].start /\ segments[i].start <= segments[i].log
          BY <2>1, <2>4, <3>3, <4>1 DEF Chained
        <5>2. segments[i].start \in Nat /\ segments[i].log \in Nat
          BY <2>1, SegmentOf
        <5>3. end <= segments[i].start
          BY <2>4, <3>3, <5>1
        <5> QED BY <1>3, <3>1, <3>2, <5>1, <5>2, <5>3
      <4> QED BY <4>1
    <3>5. i \in 1..m /\ i \in 1..Len(segments')
      BY <2>4, <3>4
    <3> QED BY <2>4, <3>1, <3>5 DEF Has
  <2>9. Extends
    BY <2>7, <2>8 DEF Extends
  <2>10. ASSUME NEW g \in Starts' PROVE g \in Starts \/ (g.start = end /\ g.first = first)
    BY <1>2, <2>4, <2>5, <2>6, <2>10, StartsAre DEF Starts
  <2>11. /\ \A g \in Starts : g.start \in Nat /\ g.first \in Nat /\ g.start <= end /\ g.first + (end - g.start) <= stream
         /\ \A g, h \in Starts : g.start < h.start => g.first + (h.start - g.start) <= h.first
    BY StartsAre DEF OrderInv, StartsAscend
  <2>12. stream <= first /\ first <= stream'
    BY <1>3, <1>4 DEF first
  <2>13. ASSUME NEW g \in Starts', NEW h \in Starts', g.start < h.start PROVE g.first + (h.start - g.start) <= h.first
    <3>1. CASE g \in Starts /\ h \in Starts
      BY <2>11, <2>13, <3>1
    <3>2. CASE g \in Starts /\ h.start = end /\ h.first = first
      BY <1>3, <2>2, <2>11, <2>12, <3>2
    <3>3. CASE g.start = end
      BY <1>3, <2>10, <2>11, <2>13, <3>3
    <3> QED BY <2>10, <3>1, <3>2, <3>3
  <2>14. ASSUME NEW g \in Starts' PROVE g.first + (end' - g.start) <= stream'
    BY <1>2, <1>3, <1>4, <2>2, <2>10, <2>11, <2>12
  <2>15. StartsAscend'
    BY <2>13, <2>14 DEF StartsAscend
  <2>16. \A v : (IsSealed(v)' <=> IsSealed(v)) /\ (IsWritten(v)' <=> IsWritten(v))
    BY <1>2 DEF IsWritten, IsSealed
  <2> QED BY <1>2, <1>4, <1>5, <2>9, <2>15, <2>16, Appending DEF WritesOn, SealsNothing
<1> QED BY <1>1, <1>6, <1>7

(* What the last segment grew by are the samples next in the stream. *)
LEMMA CountObeys ==
  ASSUME Inv, Inv', OrderInv, Count
  PROVE  Obeys
<1>1. Counted /\ UNCHANGED <<journal, poisoned, run>>
  BY CountStep DEF Count, fileVars, clipVars
<1>2. PICK n : GrewLast(n)
  BY <1>1 DEF Counted
<1>3. /\ n \in Nat /\ end' = end + n /\ stream' = stream + n
      /\ Len(segments) \in 1..Len(segments)
      /\ LogEnd(segments[Len(segments)]) = end /\ EndIndex(segments[Len(segments)]) = stream
      /\ \A i \in 1..Len(segments') : \E h \in 1..Len(segments) :
           /\ segments'[i].start = segments[h].start /\ segments'[i].first = segments[h].first
           /\ segments[h].log <= segments'[i].log
           /\ LogEnd(segments'[i]) = IF h = Len(segments) THEN end + n ELSE LogEnd(segments[h])
      /\ cur # None /\ cur'.crc = cur.crc \o [i \in 1..n |-> stream + i - 1]
  BY <1>2 DEF GrewLast
<1>4. /\ SegsOk(segments, floor, end) /\ Chained(segments) /\ segments \in Seq(SegRec) /\ Len(segments) \in Nat
      /\ SegsOk(segments', floor', end') /\ segments' \in Seq(SegRec)
      /\ floor \in Nat /\ end \in Nat /\ stream \in Nat /\ floor' \in Nat /\ end' \in Nat /\ stream' \in Nat
      /\ floor <= floor' /\ SealedEnd' = SealedEnd
  BY <1>1 DEF Inv, SegInv, SegsOk, Chained, TypeInv, Counted
<1>5. \A h \in 1..Len(segments) :
        /\ segments[h].start \in Nat /\ segments[h].log \in Nat /\ segments[h].first \in Nat
        /\ LogEnd(segments[h]) \in Nat /\ segments[h].start <= segments[h].log
        /\ \A p \in Int : IndexAt(segments[h], p) = segments[h].first + (p - segments[h].start)
  BY <1>4, SegmentOf DEF Chained
<1>6. ASSUME NEW p \in Nat, NEW v, Has(segments', p, v)
      PROVE  Has(segments, p, v) \/ (end <= p /\ stream <= v)
  <2>1. PICK i \in 1..Len(segments') : segments'[i].log <= p /\ p < LogEnd(segments'[i]) /\ v = IndexAt(segments'[i], p)
    BY <1>6 DEF Has
  <2>2. PICK h \in 1..Len(segments) :
           /\ segments'[i].start = segments[h].start /\ segments'[i].first = segments[h].first
           /\ segments[h].log <= segments'[i].log
           /\ LogEnd(segments'[i]) = IF h = Len(segments) THEN end + n ELSE LogEnd(segments[h])
    BY <1>3
  <2>3. segments'[i].log \in Nat
    BY <1>4, SegmentOf
  <2>4. v = IndexAt(segments[h], p)
    BY <2>1, <2>2 DEF IndexAt
  <2>5. segments[h].log <= p
    <3>1. PICK a, b : a = segments[h].log /\ b = segments'[i].log
      OBVIOUS
    <3>2. a \in Nat /\ b \in Nat /\ a <= b /\ b <= p
      BY <1>5, <2>1, <2>2, <2>3, <3>1
    <3> QED BY <3>1, <3>2
  <2>6. CASE p < LogEnd(segments[h])
    BY <2>4, <2>5, <2>6 DEF Has
  <2>7. CASE ~(p < LogEnd(segments[h]))
    <3>1. h = Len(segments)
      BY <2>1, <2>2, <2>7
    <3>2. end <= p
      BY <1>3, <1>4, <2>7, <3>1
    <3>3. PICK s, a : s = segments[h].start /\ a = segments[h].first
      OBVIOUS
    <3>4. s \in Nat /\ a \in Nat /\ v = a + (p - s)
      BY <1>5, <2>4, <3>3
    <3>5. stream = a + (end - s)
      BY <1>3, <1>4, <1>5, <3>1, <3>3 DEF EndIndex
    <3>6. stream <= v
      BY <1>4, <3>2, <3>4, <3>5
    <3> QED BY <3>2, <3>6
  <2> QED BY <2>6, <2>7
<1>7. ASSUME NEW p \in Nat, NEW v, Has(segments, p, v), floor' <= p PROVE Has(segments', p, v)
  BY <1>3, <1>4, <1>6, <1>7, StoredAt, StoredBetween, StoredOnce
<1>8. Extends
  BY <1>6, <1>7 DEF Extends
<1>9. StartsAscend'
  <2>1. ASSUME NEW g \in Starts' PROVE g \in Starts
    <3>1. CASE g \in journal.segs
      BY <3>1 DEF Starts
    <3>2. CASE \E i \in 1..Len(segments') : g = Segment(segments'[i])
      BY <1>3, <3>2, StartsAre DEF Segment
    <3> QED BY <1>1, <2>1, <3>1, <3>2 DEF Starts
  <2> QED BY <1>3, <1>4, <2>1, AscendKept DEF OrderInv
<1>10. \A v : IsSealed(v)' <=> IsSealed(v)
  BY <1>1 DEF IsSealed
<1>11. WritesOn
  <2>1. ASSUME NEW v, IsWritten(v)' PROVE IsWritten(v) \/ (v \in Nat /\ stream <= v /\ v < stream')
    <3>1. CASE IsSealed(v)'
      BY <1>10, <3>1 DEF IsWritten
    <3>2. CASE \E k \in 1..Len(cur'.crc) : v = cur'.crc[k]
      <4>1. PICK k \in 1..Len(cur'.crc) : v = cur'.crc[k]
        BY <3>2
      <4>2. cur.crc \in Seq(Nat) /\ Len(cur.crc) \in Nat
        BY <1>3, CursorIs
      <4>3. PICK q : q = [i \in 1..n |-> stream + i - 1]
        OBVIOUS
      <4>4. q \in Seq(Int) /\ Len(q) = n
        BY <1>3, <1>4, <4>3
      <4>5. Len(cur'.crc) = Len(cur.crc) + n
            /\ v = IF k <= Len(cur.crc) THEN cur.crc[k] ELSE q[k - Len(cur.crc)]
        BY <1>3, <4>1, <4>2, <4>3, <4>4
      <4>6. CASE k <= Len(cur.crc)
        BY <1>3, <4>1, <4>2, <4>5, <4>6 DEF IsWritten
      <4>7. CASE ~(k <= Len(cur.crc))
        <5>1. PICK i : i = k - Len(cur.crc)
          OBVIOUS
        <5>2. i \in 1..n /\ v = q[i]
          BY <1>3, <4>1, <4>2, <4>5, <4>7, <5>1
        <5>3. v = stream + i - 1
          BY <4>3, <5>2
        <5>4. v \in Nat /\ stream <= v /\ v < stream + n
          <6>1. n \in Nat /\ stream \in Nat /\ i \in Nat /\ 1 <= i /\ i <= n
            BY <1>3, <1>4, <5>2
          <6> QED BY <5>3, <6>1
        <5> QED BY <1>3, <5>4
      <4> QED BY <4>6, <4>7
    <3> QED BY <2>1, <3>1, <3>2 DEF IsWritten
  <2> QED BY <2>1 DEF WritesOn
<1>12. stream <= stream'
  BY <1>3, <1>4
<1> QED BY <1>1, <1>4, <1>8, <1>9, <1>10, <1>11, <1>12, Appending DEF SealsNothing

(* Evicting the oldest slot drops what is below the floor. *)
LEMMA AdvanceObeys ==
  ASSUME Inv, Inv', OrderInv, Advance
  PROVE  Obeys
<1> DEFINE at == Len(slots)
<1>1. PICK d, new : Advanced(d, new)
  BY AdvanceIs
<1>2. /\ d \in {0, 1} /\ Len(slots') = at - d + 1
      /\ \A i \in 1..(at - d) : slots'[i] = slots[i + d]
      /\ d = 0 => floor' = floor /\ segments' = segments
      /\ d = 1 => at > 1 /\ floor <= floor' /\ segments' = Trim(segments, floor', open)
      /\ end' = end
  BY <1>1 DEF Advanced
<1>3. /\ pc' = <<"open">> /\ UNCHANGED <<journal, cur, stream, run, poisoned>>
  BY DEF Advance, ringVars, inputVars, clipVars
<1>4. Settled = at /\ at \in Nat
  BY LastIsFull, SettledIs DEF Inv
<1>5. SealedEnd' = SealedEnd
  BY <1>2, <1>3, <1>4 DEF Settled, SealedEnd
<1>6. stream <= stream'
  BY <1>3 DEF Inv, TypeInv
<1>7. CASE d = 0
  BY <1>2, <1>3, <1>5, <1>6, <1>7, Idling
<1>8. CASE d = 1
  <2>1. /\ SegsOk(segments, floor, end) /\ Chained(segments) /\ floor \in Nat /\ end \in Nat
        /\ SegsOk(segments', floor', end) /\ floor' \in Nat /\ open \in BOOLEAN
    BY <1>2 DEF Inv, SegInv, SegsOk, TypeInv
  <2>2. Trimmed(segments, floor', open, segments')
    BY <1>2, <1>8, <2>1, TrimChained
  <2>3. Within(segments', segments)
    <3> SUFFICES ASSUME NEW i \in 1..Len(segments')
                 PROVE  \E h \in 1..Len(segments) :
                          /\ segments'[i].start = segments[h].start /\ segments'[i].first = segments[h].first
                          /\ segments[h].log <= segments'[i].log /\ LogEnd(segments'[i]) <= LogEnd(segments[h])
      BY DEF Within
    <3>1. PICK h \in 1..Len(segments) :
            /\ segments'[i].start = segments[h].start /\ segments'[i].first = segments[h].first
            /\ LogEnd(segments'[i]) = LogEnd(segments[h]) /\ segments[h].log <= segments'[i].log
      BY <2>2 DEF Trimmed
    <3>2. LogEnd(segments[h]) \in Nat
      BY <2>1, SegmentOf DEF Chained
    <3> QED BY <3>1, <3>2
  <2>4. Extends
    BY <2>1, <2>3, WithinStores, StoredAt DEF Extends
  <2>5. StartsAscend'
    <3>1. ASSUME NEW g \in Starts' PROVE g \in Starts
      <4>1. CASE g \in journal.segs
        BY <4>1 DEF Starts
      <4>2. CASE \E i \in 1..Len(segments') : g = Segment(segments'[i])
        <5>1. PICK i \in 1..Len(segments') : g = Segment(segments'[i])
          BY <4>2
        <5>2. PICK h \in 1..Len(segments) :
                 segments'[i].start = segments[h].start /\ segments'[i].first = segments[h].first
          BY <2>3 DEF Within
        <5>3. g = Segment(segments[h])
          BY <5>1, <5>2 DEF Segment
        <5> QED BY <1>2, <5>3, StartsAre
      <4> QED BY <1>3, <3>1, <4>1, <4>2 DEF Starts
    <3> QED BY <1>2, <1>3, <3>1, AscendKept DEF OrderInv, Inv, TypeInv
  <2>6. \A v : (IsSealed(v)' <=> IsSealed(v)) /\ (IsWritten(v)' <=> IsWritten(v))
    BY <1>3 DEF IsWritten, IsSealed
  <2> QED BY <1>3, <1>5, <1>6, <2>4, <2>5, <2>6, Appending DEF WritesOn, SealsNothing
<1> QED BY <1>2, <1>7, <1>8

LEMMA OpenedObeys ==
  ASSUME Inv, Inv', OrderInv, Opened
  PROVE  Obeys
<1> DEFINE at == Len(slots)
<1>1. /\ pc = <<"open">> /\ pc' = <<"write">> /\ journal' = Replay(journal, pending)
      /\ cur' = [l |-> Last(slots).l, pos |-> Last(slots).pos, crc |-> <<>>, sealed |-> 0]
      /\ UNCHANGED <<slots, segments, floor, end, stream, run, poisoned>>
  BY DEF Opened, indexVars, inputVars, clipVars
<1>2. /\ Settled = at - 1 /\ at \in 1..at /\ slots[at] \in SlotRec
      /\ slots[at] = [l |-> slots[at].l, pos |-> slots[at].pos, n |-> 0, sealed |-> 0, crc |-> <<>>]
      /\ SealedEnd = end /\ end = FirstOf(slots[at].l)
  BY <1>1, AtOpen DEF Inv
<1>3. /\ journal'.segs = journal.segs
      /\ \A s \in journal'.slots : s \in journal.slots \/ s = Record(slots[at])
  BY <1>1, OpenReplayed
<1>4. at \in Nat /\ at > 0 /\ end \in Nat /\ stream \in Nat
  BY <1>2, SettledIs DEF Inv, TypeInv
<1>5. SealedEnd' = SealedEnd
  BY <1>1, <1>2, <1>4, StepsDiffer DEF Settled, SealedEnd
<1>6. Extends
  BY <1>1 DEF Extends
<1>7. StartsAscend'
  BY <1>1, <1>3, <1>4, AscendKept DEF Starts, OrderInv
<1>8. ASSUME NEW v, IsSealed(v)' PROVE IsSealed(v)
  BY <1>2, <1>3, <1>8, RecordIs DEF IsSealed
<1>9. ASSUME NEW v, IsWritten(v)' PROVE IsWritten(v)
  BY <1>1, <1>8, <1>9 DEF IsWritten
<1>10. stream <= stream'
  BY <1>1, <1>4
<1> QED BY <1>1, <1>5, <1>6, <1>7, <1>8, <1>9, <1>10, Appending DEF WritesOn, SealsNothing

LEMMA OpenFailsObeys ==
  ASSUME Inv, Inv', OrderInv, OpenFails
  PROVE  Obeys
<1> DEFINE at == Len(slots)
<1>1. /\ pc = <<"open">> /\ pc' = <<"idle">> /\ slots' = Front(slots) /\ stream' = stream + rest
      /\ UNCHANGED <<journal, cur, segments, floor, end, run, poisoned>>
  BY DEF OpenFails, Fail, logVars, clipVars
<1>2. Settled = at - 1 /\ at \in Nat /\ at > 0 /\ slots \in Seq(SlotRec)
  BY <1>1, AtOpen, SettledIs DEF Inv
<1>3. SealedEnd' = SealedEnd
  BY <1>1, <1>2, StepsDiffer DEF Settled, SealedEnd, Front
<1> QED BY <1>1, <1>3, Idling DEF Inv, TypeInv

-----------------------------------------------------------------------------
(* The steps that seal, discard and recover *)

\* The log stays as it is, and all of it is now under a seal.
LEMMA SealObeys ==
  ASSUME Inv, Inv', OrderInv, pc \in Sealing, Seal, pc' # <<"open">>,
         journal' \in {Replay(journal, pending), Snapshot(slots', segments', floor)},
         stream' = stream \/ stream' = stream + rest
  PROVE  Obeys
<1> DEFINE at == Len(slots)
<1>1. /\ Settled = at /\ at \in 1..at /\ at \in Nat /\ cur # None
      /\ SealedSlots \in Seq(SlotRec) /\ Len(SealedSlots) = at
      /\ SealedSlots[at] = [l |-> cur.l, pos |-> cur.pos, n |-> Len(cur.crc), sealed |-> Len(cur.crc), crc |-> cur.crc]
      /\ \A x \in 1..at : x < at => SealedSlots[x] = slots[x]
  BY SealedSlotsAre
<1>2. /\ segments' = MarkPersisted(segments) /\ slots' = SealedSlots
      /\ cur' = [cur EXCEPT !.sealed = Len(cur.crc)]
      /\ UNCHANGED <<floor, end, poisoned, run>>
  BY DEF Seal, MarkPersisted, SealedSlots, clipVars
<1>3. cur' # None /\ cur'.crc = cur.crc
  <2>1. cur \in Cursor
    BY <1>1 DEF Inv, TypeInv
  <2>2. cur'.crc = cur.crc /\ cur' \in Cursor
    BY <1>2, <2>1 DEF Cursor
  <2> QED BY <2>2, NoneAssumption
<1>4. Persisted(segments', segments)
  BY <1>2, SealedSegsAre DEF Inv, SegInv, SegsOk
<1>5. /\ Len(segments') = Len(segments)
      /\ \A i \in 1..Len(segments) :
           /\ segments'[i].log = segments[i].log /\ LogEnd(segments'[i]) = LogEnd(segments[i])
           /\ Segment(segments'[i]) = Segment(segments[i])
           /\ \A p \in Int : IndexAt(segments'[i], p) = IndexAt(segments[i], p)
  BY <1>4 DEF Persisted
<1>6. SealedEnd' = end'
  BY <1>1, <1>2, StepsAre, AtSync DEF Settled, SealedEnd
<1>7. Log!Seal
  BY <1>2, <1>5, <1>6, LogSeals DEF Has
<1>8. stream \in Nat /\ stream <= stream' /\ end \in Nat
  BY DEF Inv, TypeInv
<1>9. ASSUME NEW s \in journal'.slots PROVE s \in journal.slots \/ s = Record(SealedSlots[at])
  <2>1. CASE journal' = Replay(journal, pending)
    BY <1>9, <2>1, SealReplayed
  <2>2. CASE journal' = Snapshot(slots', segments', floor)
    BY <1>1, <1>2, <1>9, <2>2 DEF Snapshot, Record, Inv, LinkInv
  <2> QED BY <2>1, <2>2
<1>10. WritesOn
  BY <1>1, <1>3, <1>9 DEF IsWritten, IsSealed, WritesOn, Record
<1>11. \A g \in Starts' : g \in Starts
  <2>1. ASSUME NEW g \in Starts' PROVE g \in Starts
    <3>1. CASE \E i \in 1..Len(segments') : g = Segment(segments'[i])
      BY <1>5, <3>1, StartsAre
    <3>2. CASE g \in journal'.segs
      <4>1. CASE journal' = Replay(journal, pending)
        BY <3>2, <4>1, SealReplayed DEF Inv, SegInv, SegsOk, Chained, Unpersisted, Starts
      <4>2. CASE journal' = Snapshot(slots', segments', floor)
        BY <1>4, <3>1, <3>2, <4>2 DEF Snapshot, Persisted
      <4> QED BY <4>1, <4>2
    <3> QED BY <2>1, <3>1, <3>2 DEF Starts
  <2> QED BY <2>1
<1>12. StartsAscend'
  BY <1>2, <1>8, <1>11, AscendKept DEF Inv, TypeInv, OrderInv
<1>13. NothingPoisoned'
  BY <1>2, <1>8, <1>10, PoisonKept DEF OrderInv
<1>14. SealsAreOlder'
  BY <1>6, NothingUnsealed
<1> QED BY <1>7, <1>12, <1>13, <1>14 DEF Obeys, OrderInv, Log!Next

LEMMA SealDoneObeys ==
  ASSUME Inv, Inv', OrderInv, NEW k \in Reason, SealDone(k)
  PROVE  Obeys
<1>1. pc = <<"seal", k>> /\ Seal /\ pc' = Resume(k) /\ stream' = stream
      /\ journal' \in {Replay(journal, pending), Snapshot(slots', segments', floor)}
  BY DEF SealDone
<1> QED BY <1>1, SealObeys, StepsAre, StepsDiffer

LEMMA CompactionFailsObeys ==
  ASSUME Inv, Inv', OrderInv, NEW k \in Reason, CompactionFails(k)
  PROVE  Obeys
<1>1. pc = <<"seal", k>> /\ Seal /\ pc' = <<"idle">> /\ (stream' = stream \/ stream' = stream + rest)
      /\ journal' = Replay(journal, pending)
  BY DEF CompactionFails, FailUnlessEnd, Fail
<1>2. journal' \in {Replay(journal, pending), Snapshot(slots', segments', floor)}
  BY <1>1
<1> QED BY <1>1, <1>2, SealObeys, StepsAre, StepsDiffer

\* What the rollback discards is what no seal covers.
LEMMA SyncFailsObeys ==
  ASSUME Inv, Inv', OrderInv, NEW k \in Reason, SyncFails(k)
  PROVE  Obeys
<1> DEFINE at == Len(slots)
<1>1. /\ pc = <<"sync", k>> /\ cur # None /\ pc' = <<"idle">> /\ Poison
      /\ (stream' = stream \/ stream' = stream + rest) /\ UNCHANGED <<journal, run>>
  BY DEF SyncFails, NothingToDo, FailUnlessEnd, Fail
<1>2. pc # <<"open">> /\ pc' # <<"open">>
  BY <1>1, StepsDiffer, StepsAre
<1>3. CASE Len(cur.crc) = cur.sealed
  BY <1>1, <1>2, <1>3, QuietObeys DEF Poison, logVars, clipVars
<1>4. CASE Len(cur.crc) # cur.sealed
  <2>1. /\ slots' = [slots EXCEPT ![at].n = cur.sealed]
        /\ cur' = [cur EXCEPT !.crc = SubSeq(@, 1, cur.sealed)]
        /\ end' = SealedEnd /\ floor' = (IF floor <= SealedEnd THEN floor ELSE SealedEnd)
        /\ CutOff(segments, SealedEnd, segments')
    BY <1>1, <1>2, <1>4, PoisonIs DEF RolledBack
  <2>2. poisoned' = poisoned \cup (Selectable(segments) \ Selectable(segments'))
    BY <1>1, <1>4 DEF Poison
  <2>3. /\ Settled = at /\ at \in Nat /\ at \in 1..at /\ slots \in Seq(SlotRec) /\ cur \in Cursor
        /\ cur.crc \in Seq(Nat) /\ cur.sealed \in Nat /\ Len(cur.crc) \in Nat /\ cur.sealed <= Len(cur.crc)
        /\ Record(slots[at]) \in journal.slots /\ Record(slots[at]).sealed = cur.sealed
        /\ \A i \in 1..cur.sealed : cur.crc[i] = slots[at].crc[i]
        /\ cur.sealed = slots[at].sealed
    BY <1>1, <1>2, AtSync
  <2>4. SealedEnd' = SealedEnd /\ SealedEnd' = end'
    BY <1>2, <2>1, <2>3 DEF SlotRec, Settled, SealedEnd
  <2>5. /\ SegsOk(segments, floor, end) /\ SegsOk(segments', floor', end') /\ Chained(segments)
        /\ floor \in Nat /\ end \in Nat /\ floor' \in Nat /\ end' \in Nat /\ stream \in Nat /\ stream' \in Nat
        /\ SealedEnd \in Nat /\ SealedEnd <= end
    BY SettledIs DEF Inv, SegInv, TypeInv, SegsOk
  <2>6. stream <= stream'
    BY <1>1, <2>5 DEF Inv, TypeInv
  <2>7. /\ Len(segments') <= Len(segments) /\ Len(segments') \in Nat /\ Len(segments) \in Nat
        /\ \A i \in 1..Len(segments') :
             /\ i \in 1..Len(segments)
             /\ segments'[i].start = segments[i].start /\ segments'[i].first = segments[i].first
             /\ segments'[i].log = segments[i].log /\ LogEnd(segments'[i]) <= LogEnd(segments[i])
    BY <2>1, <2>5 DEF CutOff, SegsOk, Chained
  <2>8. Within(segments', segments)
    <3>1. ASSUME NEW i \in 1..Len(segments')
          PROVE  segments[i].log <= segments'[i].log
      <4>1. segments[i].log \in Nat
        BY <2>5, <2>7, SegmentOf DEF Chained
      <4> QED BY <2>7, <4>1
    <3> QED BY <2>7, <3>1 DEF Within
  <2>9. ASSUME NEW p \in Nat, NEW v
         PROVE  Has(segments', p, v) <=> Has(segments, p, v) /\ p < SealedEnd
    BY <2>1, <2>5, <2>8, StoredAt, WithinStores
  <2>10. Log!Discard
    BY <1>1, <2>2, <2>4, <2>9, LogDiscards
  <2>11. StartsAscend'
    <3>1. ASSUME NEW g \in Starts' PROVE g \in Starts
      BY <1>1, <2>7, <3>1 DEF Starts, Segment
    <3> QED BY <2>1, <2>5, <2>6, <3>1, AscendKept DEF OrderInv
  <2>12. ASSUME NEW v, IsWritten(v)' PROVE IsSealed(v)
    <3>1. CASE IsSealed(v)'
      BY <1>1, <3>1 DEF IsSealed
    <3>2. CASE cur' # None /\ \E i \in 1..Len(cur'.crc) : v = cur'.crc[i]
      <4>1. Len(cur'.crc) = cur.sealed /\ \A i \in 1..cur.sealed : cur'.crc[i] = cur.crc[i]
        BY <2>1, <2>3 DEF Cursor
      <4>2. PICK i \in 1..cur.sealed : v = slots[at].crc[i]
        BY <2>3, <3>2, <4>1
      <4> QED BY <2>3, <4>2, RecordIs DEF IsSealed
    <3> QED BY <2>12, <3>1, <3>2 DEF IsWritten
  <2>13. /\ \A v : v \in Selectable(segments) <=> \E p \in Nat : Has(segments, p, v)
         /\ \A v : v \in Selectable(segments') <=> \E p \in Nat : Has(segments', p, v)
    BY StoredBoth
  <2>14. ASSUME NEW v, v \in Selectable(segments), v \notin Selectable(segments')
         PROVE  v \in Nat /\ v < stream /\ ~IsSealed(v)
    BY <2>5, <2>9, <2>13, <2>14, StoredInOrder DEF OrderInv, SealsAreOlder
  <2>15. NothingPoisoned'
    BY <2>2, <2>5, <2>6, <2>12, <2>14 DEF OrderInv, NothingPoisoned, IsWritten
  <2>16. SealsAreOlder'
    BY <2>4, NothingUnsealed
  <2> QED BY <2>10, <2>11, <2>15, <2>16 DEF Obeys, OrderInv, Log!Next
<1> QED BY <1>3, <1>4

\* What a crash leaves of the journal says no more than was written, and no less
\* than was sealed.
Left(j) ==
  /\ \A s \in j.slots : \A k \in 1..s.sealed : IsWritten(s.crc[k])
  /\ \A s \in j.slots : FirstOf(s.l) + s.sealed <= end
  /\ \A g \in j.segs : g \in Starts
  /\ \A x \in 1..Settled : \E s \in j.slots :
       s.l = slots[x].l /\ slots[x].sealed <= s.sealed /\ \A k \in 1..slots[x].sealed : s.crc[k] = slots[x].crc[k]
  /\ "lost" \notin Faults => j.floor <= floor

LEMMA TornLeaves ==
  ASSUME Inv, NEW recs \in Torn(pending), NEW j, j = Replay(journal, recs)
  PROVE  Left(j)
<1>1. /\ SlotsOk(slots, floor, end) /\ floor \in Nat /\ end \in Nat /\ slots \in Seq(SlotRec) /\ Len(slots) \in Nat
      /\ Settled \in Nat /\ Settled <= Len(slots) /\ SealedEnd \in Nat /\ SealedEnd <= end
  BY SettledIs DEF Inv, SlotInv, TypeInv
<1>2. ASSUME NEW s \in journal.slots
      PROVE  /\ \A k \in 1..s.sealed : IsWritten(s.crc[k])
             /\ FirstOf(s.l) + s.sealed <= end
  BY <1>1, JournalEnds DEF IsWritten, IsSealed
<1>3. ASSUME NEW x \in 1..Settled
      PROVE  /\ x \in 1..Len(slots) /\ slots[x] \in SlotRec /\ slots[x].sealed \in Nat
             /\ Record(slots[x]).l = slots[x].l /\ Record(slots[x]).sealed = slots[x].sealed
             /\ Record(slots[x]).crc = slots[x].crc
  BY <1>1, RecordIs, SlotRecIs
<1>4. \A x \in 1..Settled : Record(slots[x]) \in journal.slots
  BY DEF Inv, LinkInv, Record
<1>5. "lost" \notin Faults => journal.floor <= floor
  BY DEF Inv, FloorInv
<1>6. \A i \in Unpersisted : Segment(segments[i]) \in Starts
  BY DEF Inv, SegInv, SegsOk, Chained, Unpersisted, Starts
<1>7. \A g \in journal.segs : g \in Starts
  BY DEF Starts
<1>8. ASSUME \A x \in 1..Settled : Record(slots[x]) \in j.slots
      PROVE  \A x \in 1..Settled : \E s \in j.slots :
               s.l = slots[x].l /\ slots[x].sealed <= s.sealed /\ \A k \in 1..slots[x].sealed : s.crc[k] = slots[x].crc[k]
  BY <1>3, <1>8
<1>9. ASSUME NEW S, S \subseteq {Segment(segments[i]) : i \in Unpersisted}, recs = [segs |-> S, rec |-> NoRec]
      PROVE  Left(j)
  BY <1>2, <1>4, <1>5, <1>6, <1>7, <1>8, <1>9, StartsReplayed DEF Left
<1>10. CASE recs = pending /\ pc = <<"open">>
  <2> DEFINE at == Len(slots)
  <2>1. /\ j.floor = journal.floor /\ j.segs = journal.segs
        /\ \A x \in 1..Settled : Record(slots[x]) \in j.slots
        /\ \A s \in j.slots : s \in journal.slots \/ s = Record(slots[at])
    BY <1>10, OpenReplayed
  <2>2. /\ slots[at] \in SlotRec /\ end = FirstOf(slots[at].l)
        /\ slots[at] = [l |-> slots[at].l, pos |-> slots[at].pos, n |-> 0, sealed |-> 0, crc |-> <<>>]
    BY <1>10, AtOpen DEF Inv
  <2>3. ASSUME NEW s \in j.slots
        PROVE  (\A k \in 1..s.sealed : IsWritten(s.crc[k])) /\ FirstOf(s.l) + s.sealed <= end
    BY <1>1, <1>2, <2>1, <2>2, RecordIs
  <2> QED BY <1>5, <1>7, <1>8, <2>1, <2>3 DEF Left
<1>11. CASE recs = pending /\ pc \in Sealing
  <2> DEFINE at == Len(slots)
             new == Record(SealedSlots[at])
  <2>1. /\ j.floor = (IF journal.floor >= floor THEN journal.floor ELSE floor)
        /\ j.segs = journal.segs \cup {Segment(segments[i]) : i \in Unpersisted}
        /\ \A x \in 1..at : Record(SealedSlots[x]) \in j.slots
        /\ \A s \in j.slots : s = new \/ s \in journal.slots
    BY <1>11, SealReplayed
  <2>2. /\ Settled = at /\ at \in 1..at /\ cur # None /\ cur.l = slots[at].l /\ Len(cur.crc) = slots[at].n
        /\ SealedSlots[at] = [l |-> cur.l, pos |-> cur.pos, n |-> Len(cur.crc), sealed |-> Len(cur.crc), crc |-> cur.crc]
        /\ \A x \in 1..at : x < at => SealedSlots[x] = slots[x]
    BY <1>11, SealedSlotsAre
  <2>3. new.l = cur.l /\ new.sealed = Len(cur.crc) /\ new.crc = cur.crc
    BY <2>2 DEF Record
  <2>4. /\ end = FirstOf(cur.l) + Len(cur.crc) /\ cur.sealed = slots[at].sealed /\ cur.sealed <= Len(cur.crc)
        /\ \A k \in 1..cur.sealed : cur.crc[k] = slots[at].crc[k]
    BY <1>11, <2>2, AtSync, StepsAre
  <2>5. ASSUME NEW s \in j.slots
        PROVE  (\A k \in 1..s.sealed : IsWritten(s.crc[k])) /\ FirstOf(s.l) + s.sealed <= end
    BY <1>1, <1>2, <2>1, <2>2, <2>3, <2>4 DEF IsWritten
  <2>6. ASSUME NEW x \in 1..Settled
        PROVE  \E s \in j.slots :
                 s.l = slots[x].l /\ slots[x].sealed <= s.sealed /\ \A k \in 1..slots[x].sealed : s.crc[k] = slots[x].crc[k]
    <3>1. CASE x = at
      BY <2>1, <2>2, <2>3, <2>4, <3>1
    <3>2. CASE x < at
      BY <1>3, <2>1, <2>2, <3>2
    <3> QED BY <1>1, <2>2, <3>1, <3>2
  <2>7. "lost" \notin Faults => j.floor <= floor
    BY <1>1, <1>5, <2>1
  <2> QED BY <1>6, <1>7, <2>1, <2>5, <2>6, <2>7 DEF Left
<1> QED BY <1>9, <1>10, <1>11, TornIs

\* A stored sample below SealedEnd lies in a settled slot, under its seal.
LEMMA BelowSeal ==
  ASSUME Inv, NEW x \in 1..Len(slots), NEW k \in 0..(slots[x].n - 1), FirstOf(slots[x].l) + k < SealedEnd
  PROVE  x \in 1..Settled /\ k < slots[x].sealed
<1>1. /\ SlotsOk(slots, floor, end) /\ floor \in Nat /\ end \in Nat /\ Len(slots) \in Nat
      /\ Settled \in Nat /\ Settled <= Len(slots) /\ SealedEnd \in Nat
      /\ Settled > 0 => SealedEnd = FirstOf(slots[Settled].l) + slots[Settled].sealed
      /\ pc # <<"open">> => Settled = Len(slots)
      /\ pc = <<"open">> => Settled = Len(slots) - 1
  BY SettledIs DEF Inv, SlotInv, TypeInv
<1>2. /\ slots[x].n \in Nat /\ slots[x].sealed \in Nat /\ slots[x].n <= SlotSamples /\ FirstOf(slots[x].l) \in Nat
      /\ x < Len(slots) => slots[x].sealed = SlotSamples
  BY <1>1, SlotOf
<1>3. x <= Settled
  BY <1>1 DEF Inv, StepInv
<1>4. k < slots[x].sealed
  <2>1. CASE x = Settled
    BY <1>1, <1>2, <2>1
  <2>2. CASE x < Settled
    <3>1. slots[x].sealed = SlotSamples
      BY <1>1, <1>2, <2>2
    <3>2. PICK a : a = slots[x].n
      OBVIOUS
    <3>3. a \in Nat /\ a <= SlotSamples /\ k \in 0..(a - 1)
      BY <1>1, <1>2, <3>2
    <3> QED BY <3>1, <3>3, Sizes
  <2> QED BY <1>1, <1>3, <2>1, <2>2
<1> QED BY <1>1, <1>3, <1>4

\* What was sealed is recovered, and nothing that a failed fsync discarded.
LEMMA RestartObeys ==
  ASSUME "lost" \notin Faults, Inv, Whole, Inv', OrderInv, Restart
  PROVE  Obeys
<1>1. PICK j, rec : /\ Survives(j) /\ Reopening(rec, j) /\ Recalled(rec, j, ring')
                    /\ Kept(j, ring') = Live(j)
                    /\ \E recs \in Torn(pending) : j = Replay(journal, recs)
  BY RestartIs
<1>2. Left(j)
  BY <1>1, TornLeaves
<1>3. run' = run + 1 /\ UNCHANGED poisoned
  BY DEF Restart, clipVars
<1>4. /\ Rebuilt(rec, j, ring') /\ \A x \in 1..Len(rec.slots) : Durable({rec.slots[x]}, ring', disk', dirty')
      /\ slots' = rec.slots /\ segments' = rec.segments /\ floor' = rec.floor /\ end' = rec.end
      /\ cur' = IF rec.slots = <<>> \/ Last(rec.slots).sealed = SlotSamples THEN None
                ELSE [l |-> Last(rec.slots).l, pos |-> Last(rec.slots).pos,
                      crc |-> Last(rec.slots).crc, sealed |-> Last(rec.slots).sealed]
      /\ journal' = Snapshot(rec.slots, rec.segments, rec.floor)
      /\ pc' = <<"idle">> /\ stream' = stream + rest
  BY <1>1 DEF Reopening
<1>5. /\ floor' \in Nat /\ end' \in Nat /\ SlotsOk(slots', floor', end') /\ SegsOk(segments', floor', end')
      /\ ValuesOk(slots', segments', ring')
      /\ \A x \in 1..Len(slots') : slots'[x] \in Live(j)
      /\ \A x \in 1..Len(slots') : Durable({slots'[x]}, ring', disk', dirty')
  BY <1>4 DEF Rebuilt
<1>6. /\ \A i \in 1..Len(segments') : Segment(segments'[i]) \in j.segs
      /\ \A s \in Live(j) : \E x \in 1..Len(slots') : s = slots'[x]
      /\ \A s \in Live(j) : \A p \in Nat : j.floor <= p /\ FirstOf(s.l) <= p => floor' <= p
  BY <1>1, <1>4 DEF Recalled
<1>7. slots' \in Seq(SlotRec) /\ Len(slots') \in Nat /\ DOMAIN slots' = 1..Len(slots') /\ (slots' = <<>> <=> Len(slots') = 0)
  BY <1>5 DEF SlotsOk
<1>8. \A s \in Live(j) : /\ s \in j.slots /\ s \in SlotRec /\ s.n = s.sealed /\ Len(s.crc) = s.sealed
                         /\ s.sealed \in Nat /\ FirstOf(s.l) \in Nat
  BY <1>1, SlotRecIs DEF Survives, JournalOk, JournalType, Live
<1>9. SealedEnd' = end'
  BY <1>4, <1>5, <1>7, <1>8, StepsDiffer DEF Settled, SealedEnd, SlotsOk
<1>10. /\ SlotsOk(slots, floor, end) /\ SegsOk(segments, floor, end) /\ ValuesOk(slots, segments, ring)
       /\ floor \in Nat /\ end \in Nat /\ stream \in Nat /\ rest \in Nat /\ stream' \in Nat
       /\ SealedEnd \in Nat /\ SealedEnd <= end /\ Settled \in Nat /\ Settled <= Len(slots) /\ Len(slots) \in Nat
       /\ segments \in Seq(SegRec) /\ segments' \in Seq(SegRec)
  BY SettledIs DEF Inv, SlotInv, SegInv, ValueInv, TypeInv, SegsOk, Chained
<1>11. end' <= end
  <2>1. CASE slots' = <<>>
    BY <1>5, <1>10, <2>1 DEF SlotsOk
  <2>2. CASE slots' # <<>>
    BY <1>2, <1>5, <1>7, <1>8, <2>2 DEF SlotsOk, Left
  <2> QED BY <2>1, <2>2
<1>12. ASSUME NEW p \in Nat, NEW v, Has(segments', p, v)
       PROVE  IsWritten(v)
  <2>1. PICK x \in 1..Len(slots'), k \in Nat : Places(slots', p, x, k)
    BY <1>5, <1>12, SlotAt, StoredAt
  <2>2. k \in 0..(slots'[x].n - 1) /\ p = FirstOf(slots'[x].l) + k
    BY <2>1 DEF Places
  <2>3. PICK i \in 1..Len(segments') : segments'[i].log <= p /\ p < LogEnd(segments'[i]) /\ v = IndexAt(segments'[i], p)
    BY <1>12 DEF Has
  <2>4. PICK s : s = slots'[x]
    OBVIOUS
  <2>5. s \in j.slots /\ s.n = s.sealed /\ s.sealed \in Nat /\ k \in 0..(s.n - 1)
    BY <1>5, <1>8, <2>2, <2>4
  <2>6. k + 1 \in 1..s.sealed /\ (k + 1) - 1 = k
    BY <2>5
  <2>7. ring'[<<s.pos, (k + 1) - 1>>] = s.crc[k + 1]
    BY <1>5, <2>4, <2>6 DEF Durable
  <2>8. v = s.crc[k + 1]
    BY <1>5, <2>2, <2>3, <2>4, <2>6, <2>7 DEF ValuesOk
  <2> QED BY <1>2, <2>5, <2>6, <2>8 DEF Left
<1>13. ASSUME NEW p \in Nat, NEW v, Has(segments, p, v), p < SealedEnd
       PROVE  Has(segments', p, v)
  <2>1. floor <= p /\ p < end
    BY <1>10, <1>13, StoredAt
  <2>2. PICK x \in 1..Len(slots), k \in Nat : Places(slots, p, x, k)
    BY <1>10, <2>1, SlotAt
  <2>3. k \in 0..(slots[x].n - 1) /\ p = FirstOf(slots[x].l) + k /\ FirstOf(slots[x].l) \in Nat
        /\ slots[x].n \in Nat /\ slots[x].pos \in Positions
    BY <1>10, <2>2, SlotOf DEF Places
  <2>4. PICK i \in 1..Len(segments) : segments[i].log <= p /\ p < LogEnd(segments[i]) /\ v = IndexAt(segments[i], p)
    BY <1>13 DEF Has
  <2>5. x \in 1..Settled /\ k < slots[x].sealed
    BY <1>13, <2>3, BelowSeal
  <2>6. PICK r : r = Record(slots[x])
    OBVIOUS
  <2>7. r \in journal.slots /\ r.pos = slots[x].pos /\ r.sealed = slots[x].sealed /\ r.crc = slots[x].crc
        /\ r.sealed \in Nat
    BY <1>10, <2>5, <2>6, SlotOf, RecordIs, SlotRecIs DEF Inv, LinkInv, Record
  <2>8. k + 1 \in 1..r.sealed /\ (k + 1) - 1 = k
    BY <2>3, <2>5, <2>7
  <2>9. ring[<<r.pos, (k + 1) - 1>>] = r.crc[k + 1]
    BY <2>7, <2>8 DEF Inv, JournalInv, Durable
  <2>10. v = slots[x].crc[k + 1]
    BY <1>10, <2>3, <2>4, <2>7, <2>8, <2>9 DEF ValuesOk
  <2>11. PICK s \in j.slots : /\ s.l = slots[x].l /\ slots[x].sealed <= s.sealed
                              /\ \A h \in 1..slots[x].sealed : s.crc[h] = slots[x].crc[h]
    BY <1>2, <2>5 DEF Left
  <2>12. s \in SlotRec /\ s.sealed \in Nat
    BY <1>1, SlotRecIs DEF Survives, JournalOk, JournalType
  <2>13. s \in Live(j) /\ k + 1 \in 1..s.sealed /\ s.crc[k + 1] = v
    <3>1. k \in Nat /\ slots[x].sealed \in Nat
      BY <2>3, <2>7
    <3>2. k + 1 <= s.sealed /\ s.sealed > 0
      BY <2>5, <2>11, <2>12, <3>1
    <3>3. k + 1 \in 1..s.sealed /\ k + 1 \in 1..slots[x].sealed
      BY <2>5, <2>12, <3>1, <3>2
    <3> QED BY <2>10, <2>11, <3>2, <3>3 DEF Live
  <2>14. PICK y \in 1..Len(slots') : s = slots'[y]
    BY <1>6, <2>13
  <2>15. s.n = s.sealed /\ p = FirstOf(s.l) + k /\ FirstOf(s.l) \in Nat
    BY <1>8, <2>3, <2>11, <2>13
  <2>16. p < end'
    <3>1. PICK a, b : a = FirstOf(s.l) /\ b = s.sealed
      OBVIOUS
    <3>2. a \in Nat /\ b \in Nat /\ k + 1 \in 1..b /\ p = a + k /\ a + b <= end'
      BY <1>5, <2>12, <2>13, <2>14, <2>15, <3>1, SlotEnds
    <3> QED BY <1>5, <2>3, <3>2
  <2>17. floor' <= p
    <3>1. j.floor <= floor /\ j.floor \in Nat
      BY <1>1, <1>2 DEF Left, Survives, JournalOk, JournalType
    <3>2. j.floor <= p /\ FirstOf(s.l) <= p
      <4>1. PICK a, b : a = FirstOf(s.l) /\ b = j.floor
        OBVIOUS
      <4>2. a \in Nat /\ b \in Nat /\ p = a + k /\ b <= floor
        BY <2>15, <3>1, <4>1
      <4>3. a <= p /\ b <= p
        BY <1>10, <2>1, <4>2
      <4> QED BY <4>1, <4>3
    <3> QED BY <1>6, <2>13, <3>2
  <2>18. PICK w \in Nat : Has(segments', p, w)
    BY <1>5, <2>16, <2>17, StoredBetween
  <2>19. PICK h \in 1..Len(segments') : segments'[h].log <= p /\ p < LogEnd(segments'[h]) /\ w = IndexAt(segments'[h], p)
    BY <2>18 DEF Has
  <2>20. k \in 0..(slots'[y].n - 1)
    <3>1. PICK b : b = s.sealed
      OBVIOUS
    <3>2. b \in Nat /\ k + 1 \in 1..b /\ b = slots'[y].n
      BY <2>12, <2>13, <2>14, <2>15, <3>1
    <3> QED BY <3>2
  <2>21. ring'[<<s.pos, k>>] = w
    BY <1>5, <2>14, <2>15, <2>19, <2>20 DEF ValuesOk
  <2>22. ring'[<<s.pos, (k + 1) - 1>>] = s.crc[k + 1]
    BY <1>5, <2>13, <2>14 DEF Durable
  <2> QED BY <2>8, <2>13, <2>18, <2>21, <2>22
<1>14. Log!Crash
  BY <1>3, <1>9, <1>12, <1>13, LogCrashes DEF OrderInv, NothingPoisoned
<1>15. \A s \in journal'.slots : \E x \in 1..Len(slots') : s = Record(slots'[x])
  BY <1>4, <1>7 DEF Snapshot, Record
<1>16. ASSUME NEW x \in 1..Len(slots'), NEW k \in 1..slots'[x].sealed
       PROVE  IsWritten(slots'[x].crc[k])
  BY <1>2, <1>5, <1>8 DEF Left
<1>17. WritesOn
  <2>1. ASSUME NEW v, IsWritten(v)' PROVE IsWritten(v)
    <3>1. CASE IsSealed(v)'
      BY <1>7, <1>15, <1>16, <3>1, RecordIs DEF IsSealed
    <3>2. CASE cur' # None /\ \E k \in 1..Len(cur'.crc) : v = cur'.crc[k]
      BY <1>4, <1>5, <1>7, <1>8, <1>16, <3>2 DEF Last
    <3> QED BY <2>1, <3>1, <3>2 DEF IsWritten
  <2> QED BY <2>1 DEF WritesOn
<1>18. \A g \in Starts' : g \in Starts
  <2>1. ASSUME NEW g \in Starts' PROVE g \in Starts
    <3>1. \E i \in 1..Len(segments') : g = Segment(segments'[i])
      <4>1. CASE g \in journal'.segs
        <5>1. DOMAIN segments' = 1..Len(segments')
          BY <1>10
        <5> QED BY <1>4, <4>1, <5>1 DEF Snapshot
      <4> QED BY <2>1, <4>1 DEF Starts
    <3> QED BY <1>2, <1>6, <3>1 DEF Left
  <2> QED BY <2>1
<1>19. stream <= stream' /\ end' - end <= stream' - stream
  BY <1>4, <1>5, <1>10, <1>11
<1>20. StartsAscend'
  BY <1>5, <1>10, <1>18, <1>19, AscendKept DEF OrderInv
<1>21. NothingPoisoned'
  BY <1>3, <1>17, <1>19, PoisonKept DEF OrderInv
<1>22. SealsAreOlder'
  BY <1>9, NothingUnsealed
<1> QED BY <1>14, <1>20, <1>21, <1>22 DEF Obeys, OrderInv, Log!Next

LEMMA CheckpointObeys ==
  ASSUME Inv, Inv', OrderInv, NEW k \in Reason, Checkpoint(k)
  PROVE  Obeys
BY CheckpointsBeginObeying, SyncFailsObeys, SealDoneObeys, CompactionFailsObeys, SealFailsObeys DEF Checkpoint

LEMMA NextObeys ==
  ASSUME "lost" \notin Faults, Inv, Whole, Inv', OrderInv, [Next]_vars
  PROVE  Obeys
<1>1. CASE Writer
  <2>1. ASSUME NEW k \in 1..MaxAppend, NEW gap \in 0..MaxGap, Feed(k, gap) PROVE Obeys
    BY <2>1, FeedObeys
  <2>2. CASE Pause
    BY <2>2, PauseObeys
  <2>3. CASE Write \/ WriteFails
    BY <2>3, WritesObey
  <2>4. CASE Count
    BY <2>4, CountObeys
  <2>5. CASE Advance
    BY <2>5, AdvanceObeys
  <2>6. CASE Opened
    BY <2>6, OpenedObeys
  <2>7. CASE OpenFails
    BY <2>7, OpenFailsObeys
  <2>8. CASE SealFull \/ EndSegment
    BY <2>8, CheckpointsBeginObeying DEF Reason
  <2>9. ASSUME NEW k \in {"advance", "append", "end"}, Checkpoint(k) PROVE Obeys
    BY <2>9, CheckpointObeys DEF Reason
  <2> QED BY <1>1, <2>1, <2>2, <2>3, <2>4, <2>5, <2>6, <2>7, <2>8, <2>9 DEF Writer
<1>2. CASE Clip \/ UNCHANGED vars
  BY <1>2, ClipObeys
<1>3. CASE Restart
  BY <1>3, RestartObeys
<1> QED BY <1>1, <1>2, <1>3 DEF Next

LEMMA InitOrder ==
  ASSUME Init
  PROVE  OrderInv /\ Log!Init
<1>1. /\ journal = EmptyJournal /\ segments = <<>> /\ slots = <<>> /\ end = 0 /\ cur = None /\ stream = 0
      /\ poisoned = {} /\ run = 1
  BY DEF Init
<1>2. journal.slots = {} /\ journal.segs = {} /\ Len(segments) = 0 /\ 1..Len(segments) = {} /\ DOMAIN segments = {}
  BY <1>1 DEF EmptyJournal
<1>3. Starts = {}
  BY <1>2 DEF Starts
<1>4. OrderInv
  BY <1>1, <1>2, <1>3 DEF OrderInv, StartsAscend, NothingPoisoned, SealsAreOlder, IsWritten, IsSealed
<1>5. SealedIndices = {}
  BY <1>2 DEF Range, SealedIndices
<1> QED BY <1>1, <1>2, <1>4, <1>5 DEF Log!Init, Selectable

(* The ring keeps CaptureLog's promises, unless its file is lost and allocated     *)
(* again: samples leave oldest first, and those that come are newer than all there *)
(* were; once a checkpoint's seal is in the journal (checkpoint, IndexJournal's    *)
(* append) a sample survives every crash; and what a failed fsync rolled back      *)
(* (poison) is never sealed, nor brought back by recover.                          *)
THEOREM AlwaysImplementsCaptureLog ==
  ASSUME "lost" \notin Faults
  PROVE  Spec => ImplementsCaptureLog
<1>1. Init => OrderInv /\ Log!Init
  BY InitOrder
<1>2. Inv /\ Whole /\ Inv' /\ OrderInv /\ [Next]_vars => OrderInv' /\ [Log!Next]_(Log!vars)
  BY NextObeys DEF Obeys
<1>3. Spec => [](Inv /\ Whole)
  BY AlwaysInv
<1> QED BY <1>1, <1>2, <1>3, PTL DEF Spec, ImplementsCaptureLog, Log!Spec
=============================================================================
