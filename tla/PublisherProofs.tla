--------------------------- MODULE PublisherProofs ---------------------------
(***************************************************************************)
(* Proofs about Publisher for any number of would-be consumers, any queue  *)
(* size and any limit.                                                     *)
(***************************************************************************)
EXTENDS Publisher, FiniteSetTheorems, SequenceTheorems, TLAPS

\* The consumers that count against the limit.
OpenOnes == {c \in active : ~closed[c]}

\* What the limit needs: a closed consumer never counts again.
LimitInv ==
    /\ active \subseteq Consumers
    /\ closed \in [Consumers -> BOOLEAN]
    /\ OpenCount <= MaxConsumers

(* The consumers that count are finitely many. *)
LEMMA OpenOnesFinite ==
    ASSUME active \subseteq Consumers
    PROVE  IsFiniteSet(OpenOnes) /\ Cardinality(OpenOnes) \in Nat /\ OpenCount = Cardinality(OpenOnes)
<1>1. OpenOnes \subseteq Consumers
  BY DEF OpenOnes
<1>2. IsFiniteSet(OpenOnes)
  BY <1>1, FS_Subset, PublisherConfig
<1> QED BY <1>2, FS_CardinalityType DEF OpenCount, OpenOnes

(* A step that opens nobody keeps the limit. *)
LEMMA FewerOpen ==
    ASSUME LimitInv, active' \subseteq active, closed' \in [Consumers -> BOOLEAN],
           \A c \in Consumers : closed[c] => closed'[c]
    PROVE  LimitInv'
<1>1. {c \in active' : ~closed'[c]} \subseteq OpenOnes
  BY DEF LimitInv, OpenOnes
<1>2. /\ Cardinality({c \in active' : ~closed'[c]}) <= Cardinality(OpenOnes)
      /\ Cardinality({c \in active' : ~closed'[c]}) \in Nat
  BY <1>1, OpenOnesFinite, FS_Subset, FS_CardinalityType DEF LimitInv
<1> QED BY <1>2, OpenOnesFinite, PublisherConfig DEF LimitInv, OpenCount

(* Neither is counted a consumer that is closed already. *)
LEMMA SameListSameFlags ==
    ASSUME LimitInv, UNCHANGED <<active, closed>>
    PROVE  LimitInv'
  BY DEF LimitInv, OpenCount

(* An admission takes one place, and finds one free. *)
LEMMA AdmitTakesOne ==
    ASSUME LimitInv, NEW c \in Consumers, SubscribeAdmit(c)
    PROVE  LimitInv'
<1> USE DEF LimitInv
<1>1. active' = active \union {c} /\ closed' = closed /\ OpenCount < MaxConsumers
  BY DEF SubscribeAdmit, Admit, closeVars
<1>2. OpenCount' = Cardinality({d \in active \union {c} : ~closed[d]})
  BY <1>1 DEF OpenCount
<1>3. {d \in active \union {c} : ~closed[d]} \in {OpenOnes, OpenOnes \union {c}}
  BY DEF OpenOnes
<1>4. /\ Cardinality(OpenOnes \union {c}) \in Nat
      /\ Cardinality(OpenOnes \union {c}) <= Cardinality(OpenOnes) + 1
  <2>1. IsFiniteSet(OpenOnes) /\ Cardinality(OpenOnes) \in Nat
    BY OpenOnesFinite
  <2> DEFINE more == Cardinality(OpenOnes \union {c})
  <2>2. more = IF c \in OpenOnes THEN Cardinality(OpenOnes) ELSE Cardinality(OpenOnes) + 1
    BY <2>1, FS_AddElement
  <2> HIDE DEF more
  <2>3. more \in Nat /\ more <= Cardinality(OpenOnes) + 1
    BY <2>1, <2>2
  <2> QED BY <2>3 DEF more
<1>5. OpenCount' \in {Cardinality(OpenOnes), Cardinality(OpenOnes \union {c})}
  BY <1>2, <1>3
<1>6. OpenCount = Cardinality(OpenOnes) /\ Cardinality(OpenOnes) \in Nat
  BY OpenOnesFinite
<1>7. OpenCount' <= MaxConsumers
  BY <1>1, <1>4, <1>5, <1>6, PublisherConfig
<1> QED BY <1>1, <1>7

LEMMA LimitInit == Init => LimitInv
<1> SUFFICES ASSUME Init PROVE LimitInv
  OBVIOUS
<1>1. active = {} /\ closed = [c \in Consumers |-> FALSE]
  BY DEF Init
<1>2. {c \in active : ~closed[c]} = {}
  BY <1>1
<1>3. OpenCount = 0
  BY <1>2, FS_EmptySet DEF OpenCount
<1> QED BY <1>1, <1>3, PublisherConfig DEF LimitInv

(* A pruned list has lost members only. *)
LEMMA PruneKeepsLimit ==
    ASSUME LimitInv, PruneList, UNCHANGED closed
    PROVE  LimitInv'
  BY FewerOpen DEF PruneList, LimitInv

LEMMA LimitStep == LimitInv /\ [Next]_vars => LimitInv'
<1> SUFFICES ASSUME LimitInv, [Next]_vars PROVE LimitInv'
  OBVIOUS
<1> USE DEF consumerVars, closeVars, listVars
<1>1. CASE UNCHANGED vars
  BY <1>1, SameListSameFlags DEF vars
<1>2. CASE Withhold \/ Publish \/ DropPublisher
  BY <1>2, SameListSameFlags DEF Withhold, Publish, DropPublisher
<1>3. CASE Offer
  <2>1. CASE LoadGeneration \/ RefreshSnapshot
    BY <2>1, SameListSameFlags DEF LoadGeneration, RefreshSnapshot
  <2>2. CASE OfferEnds
    BY <2>2, PruneKeepsLimit, SameListSameFlags DEF OfferEnds
  <2>3. ASSUME NEW c \in Consumers, OfferSkips(c) \/ OfferEnqueues(c) \/ OfferDrops(c)
        PROVE  LimitInv'
    BY <2>3, SameListSameFlags DEF OfferSkips, OfferEnqueues, OfferDrops, Offering
  <2>4. ASSUME NEW c \in Consumers, OfferCloses(c) PROVE LimitInv'
    BY <2>4, SameListSameFlags DEF OfferCloses, Close
  <2> QED BY <1>3, <2>1, <2>2, <2>3, <2>4 DEF Offer
<1>4. CASE Finish
  BY <1>4, SameListSameFlags DEF Finish, FinishList, FinishEnds, FinishDrain
<1>5. CASE Watchdog
  <2>1. CASE WatchdogStops
    BY <2>1, SameListSameFlags DEF WatchdogStops
  <2>2. CASE WatchdogPrunes
    BY <2>2, PruneKeepsLimit DEF WatchdogPrunes
  <2>3. ASSUME NEW c \in Consumers, WatchdogCloses(c) PROVE LimitInv'
    BY <2>3, SameListSameFlags DEF WatchdogCloses, Close
  <2> QED BY <1>5, <2>1, <2>2, <2>3 DEF Watchdog
<1>6. CASE HandlePrunes
  BY <1>6, PruneKeepsLimit DEF HandlePrunes
<1>7. ASSUME NEW c \in Consumers, SubscribeCheck(c) \/ Subscriber(c) PROVE LimitInv'
  <2>1. CASE SubscribeAdmit(c)
    BY <2>1, AdmitTakesOne
  <2>2. CASE SubscribeCheck(c) \/ SubscribeRefuse(c)
    BY <2>2, SameListSameFlags DEF SubscribeCheck, SubscribeRefuse
  <2>3. CASE SubscribeClose(c)
    BY <2>3, SameListSameFlags DEF SubscribeClose, Close
  <2> QED BY <1>7, <2>1, <2>2, <2>3 DEF Subscriber
<1>8. ASSUME NEW c \in Consumers, Closer(c) PROVE LimitInv'
  <2>1. CASE CloseFlag(c)
    BY <2>1, FewerOpen DEF CloseFlag, LimitInv
  <2>2. CASE CloseRunCloser(c)
    BY <2>2, SameListSameFlags DEF CloseRunCloser
  <2> QED BY <1>8, <2>1, <2>2 DEF Closer
<1>9. ASSUME NEW c \in Consumers, HandleCloses(c) PROVE LimitInv'
  BY <1>9, SameListSameFlags DEF HandleCloses, Close
<1>10. ASSUME NEW c \in Consumers, WriterRuns(c) \/ WriteDone(c) \/ WriterCloses(c)
       PROVE  LimitInv'
  <2>1. CASE WriteDone(c) \/ WriterClosed(c) \/ WriterDropsTransport(c)
    BY <2>1, SameListSameFlags DEF WriteDone, WriterClosed, WriterDropsTransport
  <2>2. CASE WriterCloses(c)
    BY <2>2, SameListSameFlags DEF WriterCloses, Close
  <2>3. CASE WriterTurn(c)
    BY <2>3, SameListSameFlags DEF WriterTurn
  <2> QED BY <1>10, <2>1, <2>2, <2>3
          DEF WriterRuns, WriterReturns, WriterPops, WriterWaits, WriterLastMarker, WriterFlushes
<1> QED BY <1>1, <1>2, <1>3, <1>4, <1>5, <1>6, <1>7, <1>8, <1>9, <1>10 DEF Next

(* However many race for a place, max_consumers are never exceeded: the second *)
(* check of subscribe and the insertion are one critical section.              *)
THEOREM LimitKept == Spec => []AtMostMaxConsumers
<1>1. LimitInv => AtMostMaxConsumers
  BY DEF LimitInv, AtMostMaxConsumers
<1> QED BY LimitInit, LimitStep, <1>1, PTL DEF Spec

----------------------------------------------------------------------------
(* The streams: what the invariant says *)

\* A unit of a consumer's stream.
Unit == [kind : {"header", "marker", "head", "body", "tail"}, first : Nat, last : Int]

Run == [first : Nat, count : Nat]

\* A stream ends between records.
Complete(s) == s # <<>> /\ s[Len(s)].kind \notin {"head", "body"}

\* Who closes a consumer, and how far it is.
Threads == {"nobody", "subscriber", "publisher", "watchdog", "handle", "writer"}
Closing == [by : Threads, step : {"none", "flag", "closer", "done"}]

Live(c) == state[c] \in {"Open", "Draining"}

ProducerInv ==
    /\ pub \in {"idle", "load", "refresh", "offer", "finish", "drain", "over"}
    /\ nextSeq \in Nat \ {0} /\ withheld \in Run
    /\ withheld # None => pub = "idle" /\ withheld.first > 0 /\ withheld.count > 0
                          /\ withheld.first + withheld.count = nextSeq

\* The frame in hand: whole records and markers for the numbers from frame.first on.
FrameInv ==
    pub \in {"load", "refresh", "offer"} =>
        /\ frame.first \in Nat \ {0} /\ frame.count \in Nat \ {0}
        /\ frame.first + frame.count = nextSeq
        /\ frame.units \in Seq(Unit) /\ Complete(frame.units)
        /\ frame.units[1].kind \in {"head", "marker"} /\ frame.units[1].first = frame.first
        /\ frame.units[Len(frame.units)].last = nextSeq - 1
        /\ \A i \in 1..(Len(frame.units) - 1) : Follows(frame.units[i], frame.units[i + 1])

\* Who is listed, and who the producer has in its snapshot.
MembersInv ==
    /\ active \in SUBSET Consumers /\ snapshot \in SUBSET Consumers /\ todo \in SUBSET Consumers
    /\ stale \in SUBSET Consumers /\ draining \in SUBSET Consumers
    /\ newGeneration \in BOOLEAN
    /\ \A c \in active \union snapshot \union todo \union stale \union draining : sub[c] = "in"
    /\ \A c \in Consumers :
        /\ closed[c] \/ closing[c].step = "flag" => state[c] = "Closed"
        /\ state[c] = "Draining" => sub[c] = "in" /\ pub \in {"drain", "over"}
        /\ sub[c] = "in" /\ Live(c) =>
            c \in active /\ (pub \in {"idle", "load", "offer"} /\ ~newGeneration => c \in snapshot)

WriterInv ==
    \A c \in Consumers :
        /\ writer[c] # "write" => inFlight[c] = <<>>
        /\ writer[c] \in {"close", "return", "gone"} => state[c] = "Closed"
        /\ writer[c] # "none" => state[c] # "none"
        /\ sub[c] = "new" => /\ received[c] = <<>> /\ inFlight[c] = <<>> /\ pendingDrop[c] = None
                             /\ state[c] = "none" /\ writer[c] = "none"
        /\ Live(c) => sub[c] \in {"created", "refusing", "in"}

QueueType ==
    /\ sub \in [Consumers -> {"new", "created", "refusing", "refused", "in"}]
    /\ state \in [Consumers -> {"none", "Open", "Draining", "Closed"}]
    /\ writer \in [Consumers -> {"none", "check", "wait", "write", "flush", "close", "return", "gone"}]
    /\ received \in [Consumers -> Seq(Unit)] /\ inFlight \in [Consumers -> Seq(Unit)]
    /\ ring \in [Consumers -> Seq(Unit)] /\ pendingDrop \in [Consumers -> Run]
    /\ due \in [Consumers -> Nat]
    /\ closed \in [Consumers -> BOOLEAN]
    /\ closing \in [Consumers -> Closing]

\* What a live consumer's transport has had, is being given, and will be given.
Whole(c, s) ==
    /\ WellFormed(s) /\ Complete(s)
    /\ IF sub[c] # "in" THEN s = <<Header>>
       ELSE IF Len(s) = 1 THEN NextFor(c) <= due[c]
       ELSE s[2].first <= due[c] /\ s[Len(s)].last = NextFor(c) - 1

StreamOf(c) ==
    /\ WellFormed(received[c] \o inFlight[c])
    /\ Live(c) => Whole(c, Stream(c))

StreamsInv == \A c \in Consumers : StreamOf(c)

PublisherInv == QueueType /\ ProducerInv /\ FrameInv /\ MembersInv /\ WriterInv /\ StreamsInv

----------------------------------------------------------------------------
(* Sequences of units *)

(* A prefix of a well-formed stream is one. *)
LEMMA PrefixWellFormed ==
    ASSUME NEW s \in Seq(Unit), NEW t \in Seq(Unit), WellFormed(s \o t)
    PROVE  WellFormed(s)
<1>1. /\ s \o t \in Seq(Unit) /\ Len(s \o t) = Len(s) + Len(t)
      /\ \A i \in 1..(Len(s) + Len(t)) :
           (s \o t)[i] = IF i <= Len(s) THEN s[i] ELSE t[i - Len(s)]
      /\ Len(s) \in Nat /\ Len(t) \in Nat
  BY ConcatProperties
<1>2. \A i \in 1..Len(s) : (s \o t)[i] = s[i]
  BY <1>1
<1>3. s # <<>> => Head(s) = Header
  <2> SUFFICES ASSUME s # <<>> PROVE Head(s) = Header
    OBVIOUS
  <2>1. 1 \in 1..Len(s) /\ Head(s) = s[1]
    BY <1>1
  <2>2. s \o t # <<>> /\ Head(s \o t) = (s \o t)[1]
    BY <1>1, <2>1
  <2> QED BY <1>2, <2>1, <2>2 DEF WellFormed
<1>4. \A i \in 1..(Len(s) - 1) : Follows(s[i], s[i + 1])
  <2> TAKE i \in 1..(Len(s) - 1)
  <2>1. i \in 1..(Len(s \o t) - 1) /\ i \in 1..Len(s) /\ i + 1 \in 1..Len(s)
    BY <1>1
  <2>2. Follows((s \o t)[i], (s \o t)[i + 1])
    BY <2>1 DEF WellFormed
  <2> QED BY <1>2, <2>1, <2>2
<1> QED BY <1>3, <1>4 DEF WellFormed

(* Units that go on where a complete stream ends make a longer one. *)
LEMMA JoinWellFormed ==
    ASSUME NEW s \in Seq(Unit), NEW t \in Seq(Unit), WellFormed(s), Complete(s), t # <<>>,
           \A i \in 1..(Len(t) - 1) : Follows(t[i], t[i + 1]),
           t[1].kind \in {"head", "marker"},
           s[Len(s)].kind = "header" \/ t[1].first = s[Len(s)].last + 1
    PROVE  /\ s \o t \in Seq(Unit) /\ WellFormed(s \o t)
           /\ Len(s \o t) = Len(s) + Len(t) /\ Len(s) \in Nat \ {0} /\ Len(t) \in Nat \ {0}
           /\ (s \o t)[Len(s \o t)] = t[Len(t)]
           /\ \A i \in 1..Len(s) : (s \o t)[i] = s[i]
           /\ (s \o t)[Len(s) + 1] = t[1]
<1>1. /\ s \o t \in Seq(Unit) /\ Len(s \o t) = Len(s) + Len(t)
      /\ \A i \in 1..(Len(s) + Len(t)) :
           (s \o t)[i] = IF i <= Len(s) THEN s[i] ELSE t[i - Len(s)]
  BY ConcatProperties
<1>2. Len(s) \in Nat \ {0} /\ Len(t) \in Nat \ {0} /\ s # <<>>
  BY EmptySeq DEF Complete
<1>3. /\ \A i \in 1..Len(s) : (s \o t)[i] = s[i]
      /\ \A i \in 1..Len(t) : (s \o t)[Len(s) + i] = t[i]
  BY <1>1, <1>2
<1>4. (s \o t)[Len(s \o t)] = t[Len(t)] /\ (s \o t)[Len(s) + 1] = t[1]
  BY <1>1, <1>2, <1>3
<1>5. Head(s \o t) = Header
  <2>1. Head(s) = s[1] /\ Head(s \o t) = (s \o t)[1]
    BY <1>1, <1>2
  <2> QED BY <1>2, <1>3, <2>1 DEF WellFormed
<1>6. \A i \in 1..(Len(s \o t) - 1) : Follows((s \o t)[i], (s \o t)[i + 1])
  <2> TAKE i \in 1..(Len(s \o t) - 1)
  <2>1. CASE i < Len(s)
    <3>1. i \in 1..(Len(s) - 1) /\ i \in 1..Len(s) /\ i + 1 \in 1..Len(s)
      BY <1>1, <1>2, <2>1
    <3> QED BY <1>3, <3>1 DEF WellFormed
  <2>2. CASE i = Len(s)
    <3>1. (s \o t)[i] = s[Len(s)] /\ (s \o t)[i + 1] = t[1]
      BY <1>2, <1>3, <2>2
    <3> QED BY <3>1 DEF Follows, Complete
  <2>3. CASE i > Len(s)
    <3> DEFINE j == i - Len(s)
    <3>1. /\ j \in 1..(Len(t) - 1) /\ j \in 1..Len(t) /\ j + 1 \in 1..Len(t)
          /\ Len(s) + j = i /\ Len(s) + (j + 1) = i + 1
      BY <1>1, <1>2, <2>3
    <3>2. (s \o t)[i] = t[j] /\ (s \o t)[i + 1] = t[j + 1]
      BY <1>3, <3>1
    <3>3. Follows(t[j], t[j + 1])
      BY <3>1
    <3> QED BY <3>2, <3>3
  <2>4. i < Len(s) \/ i = Len(s) \/ i > Len(s)
    BY <1>1, <1>2
  <2> QED BY <2>1, <2>2, <2>3, <2>4
<1> QED BY <1>1, <1>2, <1>3, <1>4, <1>5, <1>6 DEF WellFormed

LEMMA MarkerIsUnit ==
    ASSUME NEW m \in Run
    PROVE  Marker(m) \in Unit /\ <<Marker(m)>> \in Seq(Unit)
  BY DEF Run, Marker, Unit

(* A drop marker that grows keeps its place. *)
LEMMA MarkerGrows ==
    ASSUME NEW s \in Seq(Unit), NEW m \in Run, NEW n \in Run, n.first = m.first,
           WellFormed(s \o <<Marker(m)>>)
    PROVE  /\ WellFormed(s \o <<Marker(n)>>) /\ Complete(s \o <<Marker(n)>>)
           /\ Len(s \o <<Marker(n)>>) = Len(s \o <<Marker(m)>>) /\ Len(s \o <<Marker(n)>>) > 1
           /\ (s \o <<Marker(n)>>)[2].first = (s \o <<Marker(m)>>)[2].first
           /\ (s \o <<Marker(n)>>)[Len(s \o <<Marker(n)>>)] = Marker(n)
           /\ (s \o <<Marker(m)>>)[Len(s \o <<Marker(m)>>)] = Marker(m)
<1> DEFINE a == <<Marker(m)>>
           b == <<Marker(n)>>
<1>1. a \in Seq(Unit) /\ b \in Seq(Unit) /\ Len(a) = 1 /\ Len(b) = 1 /\ Len(s) \in Nat
      /\ a[1] = Marker(m) /\ b[1] = Marker(n)
  BY MarkerIsUnit
<1>w. WellFormed(s \o a)
  OBVIOUS
<1>h. Marker(m).kind = "marker" /\ Marker(n).kind = "marker" /\ Marker(n).first = Marker(m).first
      /\ Marker(m) # Header
  BY DEF Marker, Header
<1> HIDE DEF a, b
<1>2. /\ s \o a \in Seq(Unit) /\ Len(s \o a) = Len(s) + 1
      /\ s \o b \in Seq(Unit) /\ Len(s \o b) = Len(s) + 1
      /\ \A i \in 1..(Len(s) + 1) :
           /\ (s \o a)[i] = IF i <= Len(s) THEN s[i] ELSE a[i - Len(s)]
           /\ (s \o b)[i] = IF i <= Len(s) THEN s[i] ELSE b[i - Len(s)]
  <2>1. /\ s \o a \in Seq(Unit) /\ Len(s \o a) = Len(s) + 1
        /\ \A i \in 1..(Len(s) + 1) : (s \o a)[i] = IF i <= Len(s) THEN s[i] ELSE a[i - Len(s)]
    <3>1. /\ s \o a \in Seq(Unit) /\ Len(s \o a) = Len(s) + Len(a)
          /\ \A i \in 1..(Len(s) + Len(a)) : (s \o a)[i] = IF i <= Len(s) THEN s[i] ELSE a[i - Len(s)]
      BY <1>1, ConcatProperties, ZenonT(30)
    <3> QED BY <1>1, <3>1
  <2>2. /\ s \o b \in Seq(Unit) /\ Len(s \o b) = Len(s) + 1
        /\ \A i \in 1..(Len(s) + 1) : (s \o b)[i] = IF i <= Len(s) THEN s[i] ELSE b[i - Len(s)]
    <3>1. /\ s \o b \in Seq(Unit) /\ Len(s \o b) = Len(s) + Len(b)
          /\ \A i \in 1..(Len(s) + Len(b)) : (s \o b)[i] = IF i <= Len(s) THEN s[i] ELSE b[i - Len(s)]
      BY <1>1, ConcatProperties, ZenonT(30)
    <3> QED BY <1>1, <3>1
  <2> QED BY <2>1, <2>2
<1>3. /\ (s \o a)[Len(s) + 1] = Marker(m) /\ (s \o b)[Len(s) + 1] = Marker(n)
      /\ \A i \in 1..Len(s) : (s \o a)[i] = s[i] /\ (s \o b)[i] = s[i]
  <2>1. (s \o a)[Len(s) + 1] = a[(Len(s) + 1) - Len(s)] /\ (s \o b)[Len(s) + 1] = b[(Len(s) + 1) - Len(s)]
    BY <1>1, <1>2
  <2>2. (Len(s) + 1) - Len(s) = 1
    BY <1>1
  <2> QED BY <1>1, <1>2, <2>1, <2>2
<1>4. Len(s) > 0 /\ Head(s \o b) = Header
  <2>1. /\ Head(s \o a) = (s \o a)[1] /\ Head(s \o a) = Header
        /\ Head(s \o b) = (s \o b)[1]
    <3>1. s \o a # <<>>
      BY <1>1, <1>2
    <3>2. s \o b # <<>>
      BY <1>1, <1>2
    <3>3. Head(s \o a) = Header
      BY <1>w, <3>1 DEF WellFormed
    <3> QED BY <1>2, <3>1, <3>2, <3>3
  <2>2. Len(s) # 0
    BY <1>1, <1>3, <1>h, <2>1
  <2> QED BY <1>1, <1>3, <2>1, <2>2
<1>5. \A i \in 1..(Len(s \o b) - 1) : Follows((s \o b)[i], (s \o b)[i + 1])
  <2> TAKE i \in 1..(Len(s \o b) - 1)
  <2>1. i \in 1..Len(s) /\ i \in 1..(Len(s \o a) - 1)
    BY <1>1, <1>2
  <2>2. Follows((s \o a)[i], (s \o a)[i + 1])
    BY <1>w, <2>1 DEF WellFormed
  <2>3. CASE i + 1 \in 1..Len(s)
    BY <1>3, <2>1, <2>2, <2>3
  <2>4. CASE i = Len(s)
    <3>1. Follows(s[i], Marker(m))
      BY <1>3, <2>1, <2>2, <2>4
    <3>2. Follows(s[i], Marker(n))
      BY <1>h, <3>1 DEF Follows
    <3> QED BY <1>3, <2>1, <2>4, <3>2
  <2> QED BY <1>1, <2>1, <2>3, <2>4
<1>6. WellFormed(s \o b) /\ Complete(s \o b)
  <2>1. s \o b # <<>>
    BY <1>1, <1>2
  <2> QED BY <1>1, <1>2, <1>3, <1>4, <1>5, <1>h, <2>1 DEF WellFormed, Complete
<1>7. (s \o b)[2].first = (s \o a)[2].first
  <2>1. CASE Len(s) = 1
    <3>1. Len(s) + 1 = 2
      BY <2>1
    <3> QED BY <1>3, <1>h, <3>1
  <2>2. CASE Len(s) # 1
    <3>1. 2 \in 1..Len(s)
      BY <1>1, <1>4, <2>2
    <3> QED BY <1>3, <3>1
  <2> QED BY <2>1, <2>2
<1> QED BY <1>1, <1>2, <1>3, <1>4, <1>6, <1>7 DEF a, b

(* What is popped, delivered or queued moves within a stream. *)
LEMMA Regroup ==
    ASSUME NEW a \in Seq(Unit), NEW r \in Seq(Unit), NEW p \in Seq(Unit), NEW u \in Seq(Unit)
    PROVE  (a \o (r \o (p \o u))) \o <<>> = ((a \o r) \o p) \o u
<1>1. p \o u \in Seq(Unit) /\ r \o (p \o u) \in Seq(Unit) /\ a \o r \in Seq(Unit)
      /\ a \o (r \o (p \o u)) \in Seq(Unit)
  BY ConcatProperties
<1>2. (a \o (r \o (p \o u))) \o <<>> = a \o (r \o (p \o u))
  BY <1>1, ConcatEmptySeq
<1>3. a \o (r \o (p \o u)) = (a \o r) \o (p \o u)
  <2>1. (a \o r) \o (p \o u) = a \o (r \o (p \o u))
    BY <1>1, ConcatAssociative
  <2> QED BY <2>1
<1>4. (a \o r) \o (p \o u) = ((a \o r) \o p) \o u
  <2>1. ((a \o r) \o p) \o u = (a \o r) \o (p \o u)
    BY <1>1, ConcatAssociative
  <2> QED BY <2>1
<1> QED BY <1>2, <1>3, <1>4

LEMMA SplitRing ==
    ASSUME NEW r \in Seq(Unit), NEW n \in 1..Len(r)
    PROVE  /\ SubSeq(r, 1, n) \in Seq(Unit) /\ SubSeq(r, n + 1, Len(r)) \in Seq(Unit)
           /\ r = SubSeq(r, 1, n) \o SubSeq(r, n + 1, Len(r))
<1>1. Len(r) \in Nat /\ n \in Nat /\ \A i \in 1..Len(r) : r[i] \in Unit
  BY LenProperties
<1>2. SubSeq(r, 1, n) \in Seq(Unit)
  <2>1. \A i \in 1..n : r[i] \in Unit
    BY <1>1
  <2> QED BY <1>1, <2>1, SubSeqProperties
<1>3. SubSeq(r, n + 1, Len(r)) \in Seq(Unit)
  <2>1. \A i \in (n + 1)..Len(r) : r[i] \in Unit
    BY <1>1
  <2>2. n + 1 \in Int /\ Len(r) \in Int
    BY <1>1
  <2> QED BY <2>1, <2>2, SubSeqProperties
<1>4. r = SubSeq(r, 1, n) \o SubSeq(r, n + 1, Len(r))
  <2>1. SubSeq(r, 1, Len(r)) = r
    BY SubSeqFull
  <2>2. SubSeq(r, 1, n) \o SubSeq(r, n + 1, Len(r)) = SubSeq(r, 1, Len(r))
    BY <1>1, ConcatAdjacentSubSeq
  <2> QED BY <2>1, <2>2
<1> QED BY <1>2, <1>3, <1>4

(* A record, and a record behind a marker, as units. *)
LEMMA RecordUnits ==
    ASSUME NEW q \in Nat \ {0}
    PROVE  /\ Record(q) \in Seq(Unit) /\ Len(Record(q)) = 3 /\ Complete(Record(q))
           /\ Record(q)[1] = [kind |-> "head", first |-> q, last |-> q]
           /\ Record(q)[2] = [kind |-> "body", first |-> q, last |-> q]
           /\ Record(q)[3] = [kind |-> "tail", first |-> q, last |-> q]
<1>1. /\ Record(q)[1] = [kind |-> "head", first |-> q, last |-> q]
      /\ Record(q)[2] = [kind |-> "body", first |-> q, last |-> q]
      /\ Record(q)[3] = [kind |-> "tail", first |-> q, last |-> q]
  BY DEF Record, Part
<1>2. Record(q) \in [1..3 -> Unit]
  BY DEF Record, Part, Unit
<1>3. Record(q) \in Seq(Unit) /\ Len(Record(q)) = 3
  <2>1. Record(q) \in UNION {[1..n -> Unit] : n \in Nat}
    BY <1>2
  <2>2. Record(q) \in Seq(Unit)
    BY <2>1, SeqDef, Zenon
  <2>3. DOMAIN Record(q) = 1..Len(Record(q)) /\ Len(Record(q)) \in Nat
    BY <2>2, LenProperties
  <2>4. DOMAIN Record(q) = 1..3
    BY <1>2
  <2> DEFINE l == Len(Record(q))
  <2>5. l \in Nat /\ 1..l = 1..3
    BY <2>3, <2>4
  <2> HIDE DEF l
  <2>6. l = 3
    <3>1. 3 \in 1..l /\ (l > 3 => 4 \notin 1..l)
      BY <2>5
    <3> QED BY <2>5, <3>1
  <2> QED BY <2>2, <2>6 DEF l
<1>4. Complete(Record(q))
  <2> DEFINE r == Record(q)
  <2>1. Len(r) = 3 /\ r[3].kind = "tail" /\ r \in Seq(Unit)
    BY <1>1, <1>3
  <2> HIDE DEF r
  <2>2. r # <<>>
    BY <2>1, EmptySeq
  <2>3. Complete(r)
    BY <2>1, <2>2 DEF Complete
  <2> QED BY <2>3 DEF r
<1> QED BY <1>1, <1>3, <1>4

LEMMA MarkedRecordUnits ==
    ASSUME NEW m \in Run, NEW q \in Nat \ {0}, m.first + m.count = q
    PROVE  LET u == <<Marker(m)>> \o Record(q)
           IN  /\ u \in Seq(Unit) /\ Len(u) = 4 /\ Complete(u)
               /\ u[1] = Marker(m) /\ u[4].last = q
               /\ \A i \in 1..3 : Follows(u[i], u[i + 1])
<1> DEFINE a == <<Marker(m)>>
           r == Record(q)
           u == a \o r
<1>1. a \in Seq(Unit) /\ Len(a) = 1 /\ a[1] = Marker(m)
  BY MarkerIsUnit
<1>2. r \in Seq(Unit) /\ Len(r) = 3
  BY RecordUnits
<1>m. Marker(m).kind = "marker" /\ Marker(m).last = q - 1
  BY DEF Marker, Run
<1>3. /\ r[1] = [kind |-> "head", first |-> q, last |-> q]
      /\ r[2] = [kind |-> "body", first |-> q, last |-> q]
      /\ r[3] = [kind |-> "tail", first |-> q, last |-> q]
  BY RecordUnits
<1> HIDE DEF a, r
<1>4. /\ u \in Seq(Unit) /\ Len(u) = Len(a) + Len(r)
      /\ \A i \in 1..(Len(a) + Len(r)) : u[i] = IF i <= Len(a) THEN a[i] ELSE r[i - Len(a)]
  BY <1>1, <1>2, ConcatProperties, ZenonT(30)
<1> HIDE DEF u
<1>5. Len(u) = 4 /\ u[1] = Marker(m) /\ u[2] = r[1] /\ u[3] = r[2] /\ u[4] = r[3]
  BY <1>1, <1>2, <1>4
<1>6. Complete(u) /\ u[4].last = q
  <2>1. u # <<>>
    BY <1>4, <1>5
  <2> QED BY <1>3, <1>5, <2>1 DEF Complete
<1>7. \A i \in 1..3 : Follows(u[i], u[i + 1])
  <2>1. Follows(u[1], u[2])
    BY <1>3, <1>5, <1>m DEF Follows
  <2>2. Follows(u[2], u[3]) /\ Follows(u[3], u[4])
    BY <1>3, <1>5 DEF Follows
  <2> QED BY <2>1, <2>2
<1> QED BY <1>4, <1>5, <1>6, <1>7 DEF u, a, r

(* Only these steps are the producer's own. *)
Producing == \/ Withhold \/ Publish \/ DropPublisher \/ LoadGeneration \/ RefreshSnapshot
             \/ OfferEnds \/ FinishList \/ FinishEnds

LEMMA ProducerStays ==
    ASSUME [Next]_vars
    PROVE  Producing \/ UNCHANGED <<pub, nextSeq, withheld, frame>>
<1> USE DEF pubVars
<1>1. CASE UNCHANGED vars
  BY <1>1 DEF vars
<1>2. CASE Withhold \/ Publish \/ DropPublisher \/ Offer
  BY <1>2 DEF Producing, Offer, OfferSkips, OfferEnqueues, OfferDrops, OfferCloses, Offering
<1>3. CASE Finish \/ Watchdog \/ HandlePrunes
  BY <1>3 DEF Producing, Finish, FinishDrain, Watchdog, WatchdogStops, WatchdogPrunes, WatchdogCloses,
              HandlePrunes
<1>4. ASSUME NEW c \in Consumers, SubscribeCheck(c) \/ Subscriber(c) \/ Closer(c) \/ HandleCloses(c)
      PROVE  UNCHANGED <<pub, nextSeq, withheld, frame>>
  BY <1>4 DEF SubscribeCheck, Subscriber, SubscribeAdmit, Admit, SubscribeRefuse, SubscribeClose, Closer,
              CloseFlag, CloseRunCloser, HandleCloses
<1>5. ASSUME NEW c \in Consumers, WriterRuns(c) \/ WriteDone(c) \/ WriterCloses(c)
      PROVE  UNCHANGED <<pub, nextSeq, withheld, frame>>
  BY <1>5 DEF WriterRuns, WriterReturns, WriterPops, WriterWaits, WriterLastMarker, WriterFlushes, WriterTurn,
              WriterClosed, WriterDropsTransport, WriteDone, WriterCloses
<1> QED BY <1>1, <1>2, <1>3, <1>4, <1>5 DEF Next

LEMMA ProducerStep ==
    ASSUME ProducerInv, FrameInv, [Next]_vars
    PROVE  ProducerInv' /\ FrameInv'
<1> USE DEF ProducerInv
<1>0. CASE UNCHANGED <<pub, nextSeq, withheld, frame>>
  BY <1>0 DEF FrameInv
<1>1. CASE Withhold
  <2>1. ProducerInv'
    BY <1>1 DEF Withhold, Run, None
  <2> QED BY <1>1, <2>1 DEF Withhold, FrameInv
<1>2. CASE Publish
  <2>1. /\ nextSeq' = nextSeq + 1 /\ withheld' = None /\ pub' = "load" /\ nextSeq \in Nat \ {0}
        /\ withheld \in Run
    BY <1>2 DEF Publish
  <2>2. ProducerInv'
    BY <2>1 DEF Run, None
  <2>3. CASE withheld = None
    <3>1. frame' = Frame(Record(nextSeq), nextSeq, 1)
      BY <1>2, <2>3 DEF Publish
    <3>2. frame'.units = Record(nextSeq)
      BY <3>1 DEF Frame
    <3>f. frame'.first = nextSeq /\ frame'.count = 1
      BY <3>1 DEF Frame
    <3>3. \A i \in 1..2 : Follows(Record(nextSeq)[i], Record(nextSeq)[i + 1])
      <4>1. Follows(Record(nextSeq)[1], Record(nextSeq)[2]) /\ Follows(Record(nextSeq)[2], Record(nextSeq)[3])
        <5>1. /\ Record(nextSeq)[1] = [kind |-> "head", first |-> nextSeq, last |-> nextSeq]
              /\ Record(nextSeq)[2] = [kind |-> "body", first |-> nextSeq, last |-> nextSeq]
              /\ Record(nextSeq)[3] = [kind |-> "tail", first |-> nextSeq, last |-> nextSeq]
          BY <2>1, RecordUnits, Zenon
        <5> QED BY <5>1 DEF Follows
      <4> QED BY <4>1
    <3>4. /\ Record(nextSeq) \in Seq(Unit) /\ Len(Record(nextSeq)) = 3 /\ Complete(Record(nextSeq))
          /\ Record(nextSeq)[1].kind = "head" /\ Record(nextSeq)[1].first = nextSeq
          /\ Record(nextSeq)[3].last = nextSeq
      <4>1. /\ Record(nextSeq)[1] = [kind |-> "head", first |-> nextSeq, last |-> nextSeq]
            /\ Record(nextSeq)[3] = [kind |-> "tail", first |-> nextSeq, last |-> nextSeq]
        BY <2>1, RecordUnits, Zenon
      <4>2. /\ Record(nextSeq) \in Seq(Unit) /\ Len(Record(nextSeq)) = 3 /\ Complete(Record(nextSeq))
        BY <2>1, RecordUnits, Zenon
      <4> QED BY <4>1, <4>2
    <3> DEFINE r == Record(nextSeq)
    <3>5. /\ r \in Seq(Unit) /\ Len(r) = 3 /\ Complete(r) /\ r[1].kind = "head" /\ r[1].first = nextSeq
          /\ r[3].last = nextSeq /\ frame'.units = r /\ \A i \in 1..2 : Follows(r[i], r[i + 1])
      BY <3>2, <3>3, <3>4
    <3> HIDE DEF r
    <3>6. FrameInv'
      <4>1. 1 \in Nat \ {0} /\ nextSeq + 1 = nextSeq' /\ nextSeq' - 1 = nextSeq /\ Len(r) - 1 = 2
        BY <2>1, <3>5
      <4> QED BY <2>1, <3>f, <3>5, <4>1 DEF FrameInv
    <3> QED BY <2>2, <3>6
  <2>4. CASE withheld # None
    <3>1. frame' = Frame(<<Marker(withheld)>> \o Record(nextSeq), withheld.first, withheld.count + 1)
      BY <1>2, <2>4 DEF Publish
    <3> DEFINE u == <<Marker(withheld)>> \o Record(nextSeq)
    <3>2. frame'.units = u /\ frame'.first = withheld.first /\ frame'.count = withheld.count + 1
      BY <3>1 DEF Frame
    <3>3. /\ withheld.first \in Nat \ {0} /\ withheld.count \in Nat \ {0}
          /\ withheld.first + withheld.count = nextSeq
      BY <2>1, <2>4 DEF Run
    <3>4. /\ u \in Seq(Unit) /\ Len(u) = 4 /\ Complete(u) /\ u[1] = Marker(withheld) /\ u[4].last = nextSeq
          /\ \A i \in 1..3 : Follows(u[i], u[i + 1])
      BY <2>1, <3>3, MarkedRecordUnits
    <3>5. Marker(withheld).kind = "marker" /\ Marker(withheld).first = withheld.first
      BY DEF Marker
    <3> HIDE DEF u
    <3>6. FrameInv'
      BY <2>1, <3>2, <3>3, <3>4, <3>5 DEF FrameInv
    <3> QED BY <2>2, <3>6
  <2> QED BY <2>3, <2>4
<1>3. CASE DropPublisher
  <2>1. /\ withheld' = None /\ nextSeq' = nextSeq
        /\ IF withheld = None THEN pub' = "finish" /\ frame' = frame
           ELSE pub' = "load" /\ frame' = Frame(<<Marker(withheld)>>, withheld.first, withheld.count)
    BY <1>3 DEF DropPublisher
  <2>2. ProducerInv'
    BY <2>1 DEF Run, None
  <2>3. CASE withheld # None
    <3>1. /\ withheld.first \in Nat \ {0} /\ withheld.count \in Nat \ {0}
          /\ withheld.first + withheld.count = nextSeq
      BY <2>3 DEF Run
    <3>2. /\ frame'.units = <<Marker(withheld)>> /\ frame'.first = withheld.first
          /\ frame'.count = withheld.count
      BY <2>1, <2>3 DEF Frame
    <3>3. /\ Marker(withheld).kind = "marker" /\ Marker(withheld).first = withheld.first
          /\ Marker(withheld).last = nextSeq - 1
      BY <3>1 DEF Marker
    <3>4. <<Marker(withheld)>> \in Seq(Unit)
      BY MarkerIsUnit
    <3> QED BY <2>1, <2>2, <3>1, <3>2, <3>3, <3>4 DEF FrameInv, Complete
  <2> QED BY <2>1, <2>2, <2>3 DEF FrameInv
<1>4. CASE LoadGeneration \/ RefreshSnapshot
  BY <1>4 DEF LoadGeneration, RefreshSnapshot, FrameInv
<1>5. CASE OfferEnds \/ FinishList \/ FinishEnds
  BY <1>5 DEF OfferEnds, FinishList, FinishEnds, FrameInv
<1> QED BY <1>0, <1>1, <1>2, <1>3, <1>4, <1>5, ProducerStays DEF Producing

----------------------------------------------------------------------------
(* The fields keep their types *)

LEMMA CloseKeepsTypes ==
    ASSUME QueueType, NEW c \in Consumers, NEW who \in Threads, Close(c, who)
    PROVE  /\ state' \in [Consumers -> {"none", "Open", "Draining", "Closed"}]
           /\ ring' \in [Consumers -> Seq(Unit)] /\ closing' \in [Consumers -> Closing]
           /\ UNCHANGED <<pendingDrop, closed>>
<1>1. <<>> \in Seq(Unit) /\ [by |-> who, step |-> "flag"] \in Closing
  BY EmptySeq DEF Closing
<1>2. CASE state[c] = "Closed"
  BY <1>2 DEF QueueType, Close
<1>3. CASE state[c] # "Closed"
  <2>1. closing' \in [Consumers -> Closing]
    BY <1>1, <1>3 DEF QueueType, Close
  <2>2. ring' \in [Consumers -> Seq(Unit)]
    BY <1>1, <1>3 DEF QueueType, Close
  <2>3. state' \in [Consumers -> {"none", "Open", "Draining", "Closed"}]
    BY <1>1, <1>3 DEF QueueType, Close
  <2> QED BY <2>1, <2>2, <2>3 DEF Close
<1> QED BY <1>2, <1>3

LEMMA WakeKeepsTypes ==
    ASSUME QueueType, NEW c \in Consumers
    PROVE  Wake(writer, c) \in
               [Consumers -> {"none", "check", "wait", "write", "flush", "close", "return", "gone"}]
  BY DEF QueueType, Wake

(* What an accepted frame queues is units. *)
LEMMA QueuedUnits ==
    ASSUME QueueType, FrameInv, pub = "offer", NEW c \in Consumers
    PROVE  Queued(c) \in Seq(Unit)
<1>1. /\ frame.units \in Seq(Unit) /\ <<>> \in Seq(Unit) /\ pendingDrop[c] \in Run
  BY EmptySeq DEF FrameInv, QueueType
<1>2. <<Marker(pendingDrop[c])>> \in Seq(Unit)
  BY <1>1, MarkerIsUnit
<1> DEFINE p == IF pendingDrop[c] = None THEN <<>> ELSE <<Marker(pendingDrop[c])>>
<1>3. p \in Seq(Unit)
  BY <1>1, <1>2
<1> HIDE DEF p
<1>4. p \o frame.units \in Seq(Unit)
  BY <1>1, <1>3, ConcatProperties
<1> QED BY <1>4 DEF p, Queued

LEMMA DroppingRun ==
    ASSUME FrameInv, pub = "offer", NEW m \in Run
    PROVE  Dropping(m) \in Run
  BY DEF FrameInv, Dropping, Run

(* The fields of a consumer that the producer's own steps leave alone. *)
queueVars == <<sub, state, writer, received, inFlight, ring, pendingDrop, due, closed, closing>>

LEMMA TypeStep ==
    ASSUME QueueType, ProducerInv, FrameInv, [Next]_vars
    PROVE  QueueType'
<1> DEFINE Places == {"none", "check", "wait", "write", "flush", "close", "return", "gone"}
<1>e. <<>> \in Seq(Unit) /\ <<Header>> \in Seq(Unit)
  BY EmptySeq DEF Header, Unit
<1>0. CASE UNCHANGED queueVars
  BY <1>0 DEF QueueType, queueVars
<1>1. CASE UNCHANGED vars
  BY <1>0, <1>1 DEF vars, queueVars, consumerVars, innerVars, closeVars, writerVars, otherVars
<1>2. CASE Withhold \/ Publish \/ DropPublisher
  BY <1>0, <1>2 DEF Withhold, Publish, DropPublisher, queueVars, consumerVars, innerVars, closeVars,
                     writerVars, otherVars
<1>3. CASE Offer
  <2>1. CASE LoadGeneration \/ RefreshSnapshot \/ OfferEnds
    BY <1>0, <2>1 DEF LoadGeneration, RefreshSnapshot, OfferEnds, queueVars, consumerVars, innerVars,
                       closeVars, writerVars, otherVars
  <2>2. ASSUME NEW c \in Consumers, OfferSkips(c) PROVE QueueType'
    BY <1>0, <2>2 DEF OfferSkips, Offering, queueVars, innerVars, closeVars, writerVars, otherVars
  <2>3. ASSUME NEW c \in Consumers, OfferEnqueues(c) PROVE QueueType'
    <3>1. ring[c] \in Seq(Unit) /\ Queued(c) \in Seq(Unit)
      BY <2>3, QueuedUnits DEF OfferEnqueues, Offering, QueueType
    <3>2. ring[c] \o Queued(c) \in Seq(Unit)
      BY <3>1, ConcatProperties
    <3>3. ring' \in [Consumers -> Seq(Unit)] /\ pendingDrop' \in [Consumers -> Run]
      BY <2>3, <3>2 DEF OfferEnqueues, QueueType, None, Run
    <3>4. writer' \in [Consumers -> Places]
      BY <2>3, WakeKeepsTypes DEF OfferEnqueues, QueueType
    <3>5. UNCHANGED <<sub, state, received, inFlight, due, closed, closing>>
      BY <2>3 DEF OfferEnqueues, Offering, transportVars, otherVars, closeVars
    <3> QED BY <3>3, <3>4, <3>5 DEF QueueType
  <2>4. ASSUME NEW c \in Consumers, OfferDrops(c) PROVE QueueType'
    <3>1. pendingDrop[c] \in Run /\ pub = "offer"
      BY <2>4 DEF QueueType, OfferDrops, Offering
    <3>2. Dropping(pendingDrop[c]) \in Run
      BY <3>1, DroppingRun
    <3>3. UNCHANGED <<sub, state, writer, received, inFlight, ring, due, closed, closing>>
      BY <2>4 DEF OfferDrops, Offering, writerVars, otherVars, closeVars
    <3>4. pendingDrop' \in [Consumers -> Run]
      BY <2>4, <3>2 DEF OfferDrops, QueueType
    <3> QED BY <3>3, <3>4 DEF QueueType
  <2>5. ASSUME NEW c \in Consumers, OfferCloses(c) PROVE QueueType'
    BY <2>5, CloseKeepsTypes, "publisher" \in Threads DEF Threads, OfferCloses, QueueType, writerVars, otherVars
  <2> QED BY <1>3, <2>1, <2>2, <2>3, <2>4, <2>5 DEF Offer
<1>4. CASE Finish
  <2>1. CASE FinishList \/ FinishEnds
    BY <1>0, <2>1 DEF FinishList, FinishEnds, queueVars, consumerVars, innerVars, closeVars, writerVars,
                       otherVars
  <2>2. ASSUME NEW c \in Consumers, FinishDrain(c) PROVE QueueType'
    <3>1. writer' \in [Consumers -> Places]
      BY <2>2, WakeKeepsTypes DEF FinishDrain
    <3>2. state' \in [Consumers -> {"none", "Open", "Draining", "Closed"}]
      BY <2>2 DEF FinishDrain, QueueType
    <3>3. UNCHANGED <<sub, received, inFlight, ring, pendingDrop, due, closed, closing>>
      BY <2>2 DEF FinishDrain, transportVars, closeVars
    <3> QED BY <3>1, <3>2, <3>3 DEF QueueType
  <2> QED BY <1>4, <2>1, <2>2 DEF Finish
<1>5. CASE Watchdog
  <2>1. CASE WatchdogStops \/ WatchdogPrunes
    BY <1>0, <2>1 DEF WatchdogStops, WatchdogPrunes, queueVars, consumerVars, innerVars, closeVars, writerVars
  <2>2. ASSUME NEW c \in Consumers, WatchdogCloses(c) PROVE QueueType'
    BY <2>2, CloseKeepsTypes, "watchdog" \in Threads DEF Threads, WatchdogCloses, QueueType, writerVars
  <2> QED BY <1>5, <2>1, <2>2 DEF Watchdog
<1>6. CASE HandlePrunes
  BY <1>0, <1>6 DEF HandlePrunes, queueVars, consumerVars, innerVars, closeVars, writerVars
<1>7. ASSUME NEW c \in Consumers, SubscribeCheck(c) PROVE QueueType'
  <2>1. CASE UNCHANGED <<writer, innerVars>> /\ sub' = [sub EXCEPT ![c] = "refused"]
    BY <1>7, <2>1 DEF SubscribeCheck, QueueType, innerVars, transportVars, otherVars
  <2>2. CASE /\ sub' = [sub EXCEPT ![c] = "created"] /\ state' = [state EXCEPT ![c] = "Open"]
             /\ ring' = [ring EXCEPT ![c] = <<Header>>] /\ writer' = [writer EXCEPT ![c] = "check"]
             /\ UNCHANGED pendingDrop
    BY <1>7, <1>e, <2>2 DEF SubscribeCheck, QueueType, innerVars, transportVars, otherVars
  <2> QED BY <1>7, <2>1, <2>2 DEF SubscribeCheck
<1>8. ASSUME NEW c \in Consumers, Subscriber(c) PROVE QueueType'
  <2>1. CASE SubscribeAdmit(c)
    BY <2>1 DEF SubscribeAdmit, Admit, QueueType, ProducerInv, writerVars, innerVars, closeVars
  <2>2. CASE SubscribeRefuse(c)
    BY <2>2 DEF SubscribeRefuse, QueueType, writerVars, innerVars, otherVars
  <2>3. CASE SubscribeClose(c)
    BY <2>3, CloseKeepsTypes, "subscriber" \in Threads DEF Threads, SubscribeClose, QueueType, writerVars, otherVars
  <2> QED BY <1>8, <2>1, <2>2, <2>3 DEF Subscriber
<1>9. ASSUME NEW c \in Consumers, Closer(c) PROVE QueueType'
  <2>1. CASE CloseFlag(c)
    <3>1. writer' \in [Consumers -> Places]
      BY <2>1, WakeKeepsTypes DEF CloseFlag
    <3>2. closing' \in [Consumers -> Closing]
      BY <2>1 DEF CloseFlag, QueueType, Closing
    <3>3. closed' \in [Consumers -> BOOLEAN]
      BY <2>1 DEF CloseFlag, QueueType
    <3>4. UNCHANGED <<sub, state, received, inFlight, ring, pendingDrop, due>>
      BY <2>1 DEF CloseFlag, innerVars, transportVars, otherVars
    <3> QED BY <3>1, <3>2, <3>3, <3>4 DEF QueueType
  <2>2. CASE CloseRunCloser(c)
    <3>1. closing' \in [Consumers -> Closing]
      BY <2>2 DEF CloseRunCloser, QueueType, Closing
    <3>2. UNCHANGED <<sub, state, writer, received, inFlight, ring, pendingDrop, due, closed>>
      BY <2>2 DEF CloseRunCloser, innerVars, otherVars
    <3> QED BY <3>1, <3>2 DEF QueueType
  <2> QED BY <1>9, <2>1, <2>2 DEF Closer
<1>10. ASSUME NEW c \in Consumers, HandleCloses(c) PROVE QueueType'
  BY <1>10, CloseKeepsTypes, "handle" \in Threads DEF Threads, HandleCloses, QueueType, writerVars
<1>11. ASSUME NEW c \in Consumers, WriterRuns(c) PROVE QueueType'
  <2>1. CASE WriterReturns(c) \/ WriterWaits(c) \/ WriterFlushes(c)
    BY <2>1 DEF WriterReturns, WriterWaits, WriterFlushes, WriterTurn, WriterGoes, QueueType, otherVars, closeVars
  <2>2. CASE WriterPops(c)
    <3>1. PICK n \in 1..Chunk :
              /\ n <= Len(ring[c]) /\ inFlight' = [inFlight EXCEPT ![c] = SubSeq(ring[c], 1, n)]
              /\ ring' = [ring EXCEPT ![c] = SubSeq(ring[c], n + 1, Len(ring[c]))]
      BY <2>2 DEF WriterPops
    <3>2. ring[c] \in Seq(Unit)
      BY DEF QueueType
    <3>3. n \in 1..Len(ring[c])
      BY <3>1, <3>2, LenProperties
    <3>4. SubSeq(ring[c], 1, n) \in Seq(Unit) /\ SubSeq(ring[c], n + 1, Len(ring[c])) \in Seq(Unit)
      BY <3>2, <3>3, SplitRing
    <3> QED BY <2>2, <3>1, <3>4 DEF WriterPops, WriterTurn, WriterGoes, QueueType, otherVars, closeVars
  <2>3. CASE WriterLastMarker(c)
    <3>1. <<Marker(pendingDrop[c])>> \in Seq(Unit)
      BY MarkerIsUnit DEF QueueType
    <3>2. None \in Run
      BY DEF None, Run
    <3> QED BY <2>3, <3>1, <3>2
            DEF WriterLastMarker, WriterTurn, WriterGoes, QueueType, otherVars, closeVars
  <2>4. CASE WriterClosed(c)
    BY <2>4 DEF WriterClosed, WriterGoes, QueueType, otherVars, closeVars, innerVars, transportVars
  <2>5. CASE WriterDropsTransport(c)
    BY <1>e, <2>5 DEF WriterDropsTransport, WriterGoes, QueueType, closeVars, None, Run
  <2> QED BY <1>11, <2>1, <2>2, <2>3, <2>4, <2>5 DEF WriterRuns
<1>12. ASSUME NEW c \in Consumers, WriteDone(c) PROVE QueueType'
  <2>1. received[c] \in Seq(Unit) /\ inFlight[c] \in Seq(Unit)
    BY DEF QueueType
  <2>2. received[c] \o inFlight[c] \in Seq(Unit)
    BY <2>1, ConcatProperties
  <2> QED BY <1>12, <1>e, <2>2 DEF WriteDone, WriterGoes, QueueType, otherVars, closeVars, innerVars
<1>13. ASSUME NEW c \in Consumers, WriterCloses(c) PROVE QueueType'
  BY <1>13, <1>e, CloseKeepsTypes, "writer" \in Threads DEF Threads, WriterCloses, WriterGoes, QueueType, otherVars
<1> QED BY <1>1, <1>2, <1>3, <1>4, <1>5, <1>6, <1>7, <1>8, <1>9, <1>10, <1>11, <1>12, <1>13 DEF Next

----------------------------------------------------------------------------
(* Writers asleep *)

(* A close empties the queue of its consumer and owes its writer a notify; *)
(* it does nothing to one that is closed already, and nothing to another.  *)
LEMMA CloseEffect ==
    ASSUME QueueType, NEW c \in Consumers, NEW who \in Threads, Close(c, who), NEW d \in Consumers
    PROVE  /\ state'[d] = IF d = c THEN "Closed" ELSE state[d]
           /\ ring'[d] = IF d = c /\ state[c] # "Closed" THEN <<>> ELSE ring[d]
           /\ closing'[d].step = IF d = c /\ state[c] # "Closed" THEN "flag" ELSE closing[d].step
           /\ UNCHANGED <<pendingDrop, offered, closed, closer>>
<1>1. CASE state[c] = "Closed"
  BY <1>1 DEF QueueType, Close
<1>2. CASE state[c] # "Closed"
  BY <1>2 DEF QueueType, Close
<1> QED BY <1>1, <1>2

Asleep(c) == Waiting(c) => \/ state[c] = "Open" /\ ring[c] = <<>>
                           \/ closing[c].step = "flag"

LEMMA WakeEffect ==
    ASSUME QueueType, NEW c \in Consumers, NEW d \in Consumers
    PROVE  Wake(writer, c)[d] = IF d = c /\ writer[c] = "wait" THEN "check" ELSE writer[d]
  BY DEF QueueType, Wake

(* A step that wakes nobody and leaves the queues and the closes as they are. *)
LEMMA SameSleep ==
    ASSUME NEW d \in Consumers, Asleep(d), writer'[d] \in {writer[d], "check", "gone", "return"},
           state'[d] = state[d], ring'[d] = ring[d], closing'[d] = closing[d]
    PROVE  Asleep(d)'
  BY DEF Asleep, Waiting

(* Nor does a closed consumer's writer sleep unnoticed. *)
LEMMA ClosedSleep ==
    ASSUME QueueType, NEW c \in Consumers, NEW who \in Threads, Close(c, who), NEW d \in Consumers,
           Asleep(d), writer'[d] \in {writer[d], "close"}
    PROVE  Asleep(d)'
<1>1. CASE d = c /\ state[c] # "Closed"
  BY <1>1, CloseEffect DEF Asleep, Waiting
<1>2. CASE ~(d = c /\ state[c] # "Closed")
  <2>1. state'[d] = state[d] /\ ring'[d] = ring[d] /\ closing'[d].step = closing[d].step
    BY <1>2, CloseEffect
  <2> QED BY <2>1 DEF Asleep, Waiting
<1> QED BY <1>1, <1>2

sleepVars == <<writer, state, ring, closing>>

LEMMA SleepStep ==
    ASSUME QueueType, FrameInv, [Next]_vars, NEW d \in Consumers, Asleep(d)
    PROVE  Asleep(d)'
<1>0. CASE UNCHANGED sleepVars
  BY <1>0, SameSleep DEF sleepVars
<1>1. CASE UNCHANGED vars
  BY <1>0, <1>1 DEF vars, sleepVars, consumerVars, innerVars, closeVars, writerVars
<1>2. CASE Withhold \/ Publish \/ DropPublisher
  BY <1>0, <1>2 DEF Withhold, Publish, DropPublisher, sleepVars, consumerVars, innerVars, closeVars, writerVars
<1>3. CASE Offer
  <2>1. CASE LoadGeneration \/ RefreshSnapshot \/ OfferEnds
    BY <1>0, <2>1 DEF LoadGeneration, RefreshSnapshot, OfferEnds, sleepVars, consumerVars, innerVars,
                       closeVars, writerVars
  <2>2. ASSUME NEW c \in Consumers, OfferSkips(c) \/ OfferDrops(c) PROVE Asleep(d)'
    BY <1>0, <2>2 DEF OfferSkips, OfferDrops, Offering, sleepVars, innerVars, closeVars, writerVars
  <2>3. ASSUME NEW c \in Consumers, OfferEnqueues(c) PROVE Asleep(d)'
    <3>1. /\ UNCHANGED <<state, closing>> /\ ring' = [ring EXCEPT ![c] = ring[c] \o Queued(c)]
          /\ writer' = IF ring[c] = <<>> THEN Wake(writer, c) ELSE writer
      BY <2>3 DEF OfferEnqueues, Offering, closeVars
    <3>2. CASE d = c
      <4>1. CASE ring[c] = <<>>
        BY <3>1, <3>2, <4>1, WakeEffect DEF Asleep, Waiting
      <4>2. CASE ring[c] # <<>>
        BY <3>1, <3>2, <4>2 DEF Asleep, Waiting
      <4> QED BY <4>1, <4>2
    <3>3. CASE d # c
      <4>1. ring'[d] = ring[d]
        BY <3>1, <3>3 DEF QueueType
      <4>2. writer'[d] = writer[d]
        BY <3>1, <3>3, WakeEffect
      <4> QED BY <3>1, <4>1, <4>2, SameSleep
    <3> QED BY <3>2, <3>3
  <2>4. ASSUME NEW c \in Consumers, OfferCloses(c) PROVE Asleep(d)'
    BY <2>4, ClosedSleep, "publisher" \in Threads DEF Threads, OfferCloses, writerVars
  <2> QED BY <1>3, <2>1, <2>2, <2>3, <2>4 DEF Offer
<1>4. CASE Finish
  <2>1. CASE FinishList \/ FinishEnds
    BY <1>0, <2>1 DEF FinishList, FinishEnds, sleepVars, consumerVars, innerVars, closeVars, writerVars
  <2>2. ASSUME NEW c \in Consumers, FinishDrain(c) PROVE Asleep(d)'
    <3>1. writer' = Wake(writer, c) /\ UNCHANGED <<ring, closing>>
      BY <2>2 DEF FinishDrain, closeVars
    <3>2. d # c => state'[d] = state[d]
      BY <2>2 DEF FinishDrain, QueueType
    <3>3. d = c => ~Waiting(d)'
      BY <3>1, WakeEffect DEF Waiting
    <3>4. d # c => writer'[d] = writer[d]
      BY <3>1, WakeEffect
    <3> QED BY <3>1, <3>2, <3>3, <3>4 DEF Asleep, Waiting
  <2> QED BY <1>4, <2>1, <2>2 DEF Finish
<1>5. CASE Watchdog
  <2>1. CASE WatchdogStops \/ WatchdogPrunes
    BY <1>0, <2>1 DEF WatchdogStops, WatchdogPrunes, sleepVars, consumerVars, innerVars, closeVars, writerVars
  <2>2. ASSUME NEW c \in Consumers, WatchdogCloses(c) PROVE Asleep(d)'
    BY <2>2, ClosedSleep, "watchdog" \in Threads DEF Threads, WatchdogCloses, writerVars
  <2> QED BY <1>5, <2>1, <2>2 DEF Watchdog
<1>6. CASE HandlePrunes
  BY <1>0, <1>6 DEF HandlePrunes, sleepVars, consumerVars, innerVars, closeVars, writerVars
<1>7. ASSUME NEW c \in Consumers, SubscribeCheck(c) PROVE Asleep(d)'
  <2>1. CASE UNCHANGED <<writer, innerVars>>
    BY <1>0, <1>7, <2>1 DEF SubscribeCheck, sleepVars, innerVars
  <2>2. CASE /\ state' = [state EXCEPT ![c] = "Open"] /\ ring' = [ring EXCEPT ![c] = <<Header>>]
             /\ writer' = [writer EXCEPT ![c] = "check"]
    BY <1>7, <2>2 DEF SubscribeCheck, QueueType, Asleep, Waiting
  <2> QED BY <1>7, <2>1, <2>2 DEF SubscribeCheck
<1>8. ASSUME NEW c \in Consumers, Subscriber(c) PROVE Asleep(d)'
  <2>1. CASE SubscribeAdmit(c) \/ SubscribeRefuse(c)
    BY <1>0, <2>1 DEF SubscribeAdmit, Admit, SubscribeRefuse, sleepVars, writerVars, innerVars, closeVars
  <2>2. CASE SubscribeClose(c)
    BY <2>2, ClosedSleep, "subscriber" \in Threads DEF Threads, SubscribeClose, writerVars
  <2> QED BY <1>8, <2>1, <2>2 DEF Subscriber
<1>9. ASSUME NEW c \in Consumers, Closer(c) PROVE Asleep(d)'
  <2>1. CASE CloseFlag(c)
    <3>1. writer' = Wake(writer, c) /\ UNCHANGED <<state, ring>>
      BY <2>1 DEF CloseFlag, innerVars
    <3>2. d # c => closing'[d] = closing[d]
      BY <2>1 DEF CloseFlag, QueueType
    <3> QED BY <3>1, <3>2, WakeEffect DEF Asleep, Waiting
  <2>2. CASE CloseRunCloser(c)
    <3>1. /\ UNCHANGED <<writer, state, ring>> /\ closing[c].step = "closer"
          /\ closing' = [closing EXCEPT ![c].step = "done"]
      BY <2>2 DEF CloseRunCloser, innerVars
    <3>2. d # c => closing'[d] = closing[d]
      BY <3>1 DEF QueueType
    <3> QED BY <3>1, <3>2 DEF Asleep, Waiting
  <2> QED BY <1>9, <2>1, <2>2 DEF Closer
<1>10. ASSUME NEW c \in Consumers, HandleCloses(c) PROVE Asleep(d)'
  BY <1>10, ClosedSleep, "handle" \in Threads DEF Threads, HandleCloses, writerVars
<1>11. ASSUME NEW c \in Consumers, WriterRuns(c) PROVE Asleep(d)'
  <2>1. CASE WriterReturns(c) \/ WriterFlushes(c) \/ WriterLastMarker(c)
    BY <2>1 DEF WriterReturns, WriterFlushes, WriterLastMarker, WriterTurn, WriterGoes, QueueType, closeVars,
                Asleep, Waiting
  <2>2. CASE WriterPops(c)
    <3>1. /\ writer' = [writer EXCEPT ![c] = "write"] /\ UNCHANGED <<state, closing>>
          /\ \E q : ring' = [ring EXCEPT ![c] = q]
      BY <2>2 DEF WriterPops, WriterTurn, WriterGoes, closeVars
    <3> QED BY <3>1 DEF Asleep, Waiting, QueueType
  <2>3. CASE WriterWaits(c)
    BY <2>3 DEF WriterWaits, WriterTurn, WriterGoes, QueueType, closeVars, Asleep, Waiting
  <2>4. CASE WriterClosed(c) \/ WriterDropsTransport(c)
    BY <2>4 DEF WriterClosed, WriterDropsTransport, WriterGoes, QueueType, closeVars, innerVars, Asleep, Waiting
  <2> QED BY <1>11, <2>1, <2>2, <2>3, <2>4 DEF WriterRuns
<1>12. ASSUME NEW c \in Consumers, WriteDone(c) PROVE Asleep(d)'
  BY <1>12 DEF WriteDone, WriterGoes, QueueType, innerVars, closeVars, Asleep, Waiting
<1>13. ASSUME NEW c \in Consumers, WriterCloses(c) PROVE Asleep(d)'
  <2>1. Close(c, "writer") /\ "writer" \in Threads /\ writer'[d] \in {writer[d], "close"}
    BY <1>13 DEF WriterCloses, WriterGoes, QueueType, Threads
  <2> QED BY <2>1, ClosedSleep
<1> QED BY <1>1, <1>2, <1>3, <1>4, <1>5, <1>6, <1>7, <1>8, <1>9, <1>10, <1>11, <1>12, <1>13 DEF Next

----------------------------------------------------------------------------
(* The list, the snapshot and the writers' places *)

\* What MembersInv says of one consumer.
Membership(c) ==
    /\ closed[c] \/ closing[c].step = "flag" => state[c] = "Closed"
    /\ state[c] = "Draining" => sub[c] = "in" /\ pub \in {"drain", "over"}
    /\ sub[c] = "in" /\ Live(c) =>
         c \in active /\ (pub \in {"idle", "load", "offer"} /\ ~newGeneration => c \in snapshot)

\* What WriterInv says of one consumer.
WriterPlace(c) ==
    /\ writer[c] # "write" => inFlight[c] = <<>>
    /\ writer[c] \in {"close", "return", "gone"} => state[c] = "Closed"
    /\ writer[c] # "none" => state[c] # "none"
    /\ sub[c] = "new" => /\ received[c] = <<>> /\ inFlight[c] = <<>> /\ pendingDrop[c] = None
                         /\ state[c] = "none" /\ writer[c] = "none"
    /\ Live(c) => sub[c] \in {"created", "refusing", "in"}

Lists == /\ active \in SUBSET Consumers /\ snapshot \in SUBSET Consumers /\ todo \in SUBSET Consumers
         /\ stale \in SUBSET Consumers /\ draining \in SUBSET Consumers
         /\ newGeneration \in BOOLEAN
         /\ \A c \in active \union snapshot \union todo \union stale \union draining : sub[c] = "in"

memberVars == <<closed, closing, state, sub, active, snapshot, newGeneration>>

LEMMA MembersSplit == MembersInv <=> Lists /\ \A c \in Consumers : Membership(c)
  BY DEF MembersInv, Lists, Membership

LEMMA WriterSplit == WriterInv <=> \A c \in Consumers : WriterPlace(c)
  BY DEF WriterInv, WriterPlace

LEMMA ListsStep ==
    ASSUME QueueType, Lists, [Next]_vars
    PROVE  Lists'
<1> USE DEF Lists
<1>0. CASE UNCHANGED <<listVars, snapshot, todo, stale, draining, sub>>
  BY <1>0 DEF listVars
<1>1. CASE UNCHANGED vars
  BY <1>0, <1>1 DEF vars, otherVars, drainVars, pubVars, consumerVars
<1>2. CASE Withhold \/ Publish \/ DropPublisher
  BY <1>0, <1>2 DEF Withhold, Publish, DropPublisher, consumerVars, otherVars, drainVars
<1>3. CASE Offer
  <2>1. CASE LoadGeneration \/ RefreshSnapshot
    BY <2>1 DEF LoadGeneration, RefreshSnapshot, consumerVars, listVars, otherVars, drainVars
  <2>2. CASE OfferEnds
    BY <2>2 DEF OfferEnds, PruneList, consumerVars, listVars, otherVars, drainVars
  <2>3. ASSUME NEW c \in Consumers, OfferSkips(c) \/ OfferEnqueues(c) \/ OfferDrops(c) \/ OfferCloses(c)
        PROVE  Lists'
    BY <2>3 DEF OfferSkips, OfferEnqueues, OfferDrops, OfferCloses, Offering, listVars, otherVars, drainVars
  <2> QED BY <1>3, <2>1, <2>2, <2>3 DEF Offer
<1>4. CASE Finish
  BY <1>4 DEF Finish, FinishList, FinishEnds, FinishDrain, consumerVars, listVars, otherVars, drainVars
<1>5. CASE Watchdog \/ HandlePrunes
  BY <1>5 DEF Watchdog, WatchdogStops, WatchdogPrunes, WatchdogCloses, HandlePrunes, PruneList, pubVars,
              consumerVars, listVars, otherVars, drainVars
<1>6. ASSUME NEW c \in Consumers, SubscribeCheck(c) \/ Subscriber(c) PROVE Lists'
  <2>1. CASE SubscribeCheck(c)
    <3>1. /\ sub[c] = "new" /\ UNCHANGED <<listVars, pubVars, draining>>
          /\ sub' \in {[sub EXCEPT ![c] = "created"], [sub EXCEPT ![c] = "refused"]}
      BY <2>1 DEF SubscribeCheck, otherVars, drainVars
    <3> QED BY <3>1 DEF listVars, pubVars, QueueType
  <2>2. CASE SubscribeAdmit(c)
    BY <2>2 DEF SubscribeAdmit, Admit, pubVars, otherVars, drainVars, QueueType
  <2>3. CASE SubscribeRefuse(c) \/ SubscribeClose(c)
    BY <2>3 DEF SubscribeRefuse, SubscribeClose, otherVars, drainVars, listVars, pubVars, QueueType
  <2> QED BY <1>6, <2>1, <2>2, <2>3 DEF Subscriber
<1>7. ASSUME NEW c \in Consumers, Closer(c) \/ HandleCloses(c) PROVE Lists'
  BY <1>0, <1>7 DEF Closer, CloseFlag, CloseRunCloser, HandleCloses, pubVars, otherVars, drainVars
<1>8. ASSUME NEW c \in Consumers, WriterRuns(c) \/ WriteDone(c) \/ WriterCloses(c) PROVE Lists'
  BY <1>0, <1>8 DEF WriterRuns, WriterReturns, WriterPops, WriterWaits, WriterLastMarker, WriterFlushes,
                    WriterTurn, WriterClosed, WriterDropsTransport, WriteDone, WriterCloses, pubVars, otherVars, drainVars
<1> QED BY <1>1, <1>2, <1>3, <1>4, <1>5, <1>6, <1>7, <1>8 DEF Next

(* A close leaves its consumer closed, and listed as it was. *)
LEMMA ClosedMembership ==
    ASSUME QueueType, NEW c \in Consumers, NEW who \in Threads, Close(c, who), NEW d \in Consumers,
           Membership(d), sub'[d] = sub[d] \/ d = c, pub' = pub, UNCHANGED <<active, snapshot, newGeneration>>
    PROVE  Membership(d)'
<1>1. /\ state'[d] = IF d = c THEN "Closed" ELSE state[d]
      /\ closing'[d].step = IF d = c /\ state[c] # "Closed" THEN "flag" ELSE closing[d].step
      /\ closed' = closed
  BY CloseEffect
<1> QED BY <1>1 DEF Membership, Live

(* Who is pruned was closed. *)
LEMMA PrunedMembership ==
    ASSUME PruneList, NEW d \in Consumers, Membership(d), UNCHANGED <<closed, closing, state, sub, snapshot>>,
           pub' \in {pub, "idle", "finish"}, pub \in {"offer", "idle"} \/ pub' = pub, newGeneration \in BOOLEAN
    PROVE  Membership(d)'
<1>1. /\ active' = active \ {e \in active : closed[e]}
      /\ newGeneration' = FALSE => newGeneration = FALSE
  BY DEF PruneList
<1>2. d \in active /\ Live(d) => d \in active'
  BY <1>1 DEF Membership, Live
<1> QED BY <1>1, <1>2 DEF Membership, Live, PruneList

LEMMA MembershipStep ==
    ASSUME QueueType, Lists, ProducerInv, [Next]_vars, NEW d \in Consumers, Membership(d), WriterPlace(d)
    PROVE  Membership(d)'
<1>0. CASE UNCHANGED memberVars /\ pub' = pub
  BY <1>0 DEF memberVars, Membership, Live
<1>1. CASE UNCHANGED vars
  BY <1>0, <1>1 DEF vars, memberVars, consumerVars, innerVars, closeVars, pubVars, listVars
<1>2. CASE Withhold \/ Publish \/ DropPublisher
  <2>1. pub = "idle" /\ UNCHANGED memberVars
    BY <1>2 DEF Withhold, Publish, DropPublisher, memberVars, consumerVars, innerVars, closeVars, listVars
  <2>2. state[d] # "Draining"
    BY <2>1 DEF Membership
  <2> QED BY <2>1, <2>2 DEF memberVars, Membership, Live
<1>3. CASE Offer
  <2>1. CASE LoadGeneration
    BY <2>1 DEF LoadGeneration, consumerVars, innerVars, closeVars, Membership, Live, Lists
  <2>2. CASE RefreshSnapshot
    BY <2>2 DEF RefreshSnapshot, consumerVars, innerVars, closeVars, listVars, Membership, Live
  <2>3. CASE OfferEnds
    <3>1. /\ pub = "offer" /\ pub' \in {"idle", "finish"} /\ (PruneList \/ UNCHANGED listVars)
          /\ UNCHANGED <<closed, closing, state, sub, snapshot>>
      BY <2>3 DEF OfferEnds, consumerVars, innerVars, closeVars
    <3>2. CASE PruneList
      BY <3>1, <3>2, PrunedMembership DEF Lists
    <3>3. CASE UNCHANGED listVars
      BY <3>1, <3>3 DEF listVars, Membership, Live
    <3> QED BY <3>1, <3>2, <3>3
  <2>4. ASSUME NEW c \in Consumers, OfferSkips(c) \/ OfferEnqueues(c) \/ OfferDrops(c)
        PROVE  Membership(d)'
    BY <1>0, <2>4 DEF OfferSkips, OfferEnqueues, OfferDrops, Offering, memberVars, innerVars, closeVars, listVars
  <2>5. ASSUME NEW c \in Consumers, OfferCloses(c) PROVE Membership(d)'
    BY <2>5, ClosedMembership, "publisher" \in Threads DEF Threads, OfferCloses, listVars
  <2> QED BY <1>3, <2>1, <2>2, <2>3, <2>4, <2>5 DEF Offer
<1>4. CASE Finish
  <2>1. CASE FinishList \/ FinishEnds
    BY <2>1 DEF FinishList, FinishEnds, consumerVars, innerVars, closeVars, listVars, Membership, Live
  <2>2. ASSUME NEW c \in Consumers, FinishDrain(c) PROVE Membership(d)'
    <3>1. /\ pub = "drain" /\ pub' = pub /\ c \in todo /\ UNCHANGED <<closed, closing, sub, snapshot, listVars>>
          /\ state' = IF state[c] = "Open" THEN [state EXCEPT ![c] = "Draining"] ELSE state
      BY <2>2 DEF FinishDrain, closeVars
    <3>2. sub[c] = "in"
      BY <3>1 DEF Lists
    <3> QED BY <3>1, <3>2 DEF QueueType, Membership, Live, listVars
  <2> QED BY <1>4, <2>1, <2>2 DEF Finish
<1>5. CASE Watchdog
  <2>1. CASE WatchdogStops
    BY <1>0, <2>1 DEF WatchdogStops, memberVars, consumerVars, innerVars, closeVars, pubVars, listVars
  <2>2. CASE WatchdogPrunes
    BY <2>2, PrunedMembership DEF WatchdogPrunes, consumerVars, innerVars, closeVars, pubVars, Lists
  <2>3. ASSUME NEW c \in Consumers, WatchdogCloses(c) PROVE Membership(d)'
    BY <2>3, ClosedMembership, "watchdog" \in Threads DEF Threads, WatchdogCloses, pubVars, listVars
  <2> QED BY <1>5, <2>1, <2>2, <2>3 DEF Watchdog
<1>6. CASE HandlePrunes
  BY <1>6, PrunedMembership DEF HandlePrunes, consumerVars, innerVars, closeVars, pubVars, Lists
<1>7. ASSUME NEW c \in Consumers, SubscribeCheck(c) PROVE Membership(d)'
  <2>1. /\ sub[c] = "new" /\ UNCHANGED <<closed, closing, active, newGeneration, snapshot, pub>>
        /\ \/ sub' = [sub EXCEPT ![c] = "refused"] /\ state' = state
           \/ sub' = [sub EXCEPT ![c] = "created"] /\ state' = [state EXCEPT ![c] = "Open"]
    BY <1>7 DEF SubscribeCheck, innerVars, pubVars, listVars
  <2>2. d = c => state[d] = "none"
    BY <2>1 DEF WriterPlace
  <2> QED BY <2>1, <2>2 DEF QueueType, Membership, Live
<1>8. ASSUME NEW c \in Consumers, Subscriber(c) PROVE Membership(d)'
  <2>1. CASE SubscribeAdmit(c)
    BY <2>1 DEF SubscribeAdmit, Admit, pubVars, innerVars, closeVars, QueueType, Membership, Live
  <2>2. CASE SubscribeRefuse(c)
    BY <2>2 DEF SubscribeRefuse, pubVars, innerVars, listVars, QueueType, Membership, Live
  <2>3. CASE SubscribeClose(c)
    <3>1. Close(c, "subscriber") /\ "subscriber" \in Threads /\ (sub'[d] = sub[d] \/ d = c) /\ pub' = pub
          /\ UNCHANGED <<active, snapshot, newGeneration>>
      BY <2>3 DEF SubscribeClose, Threads, QueueType, pubVars, listVars
    <3> QED BY <3>1, ClosedMembership
  <2> QED BY <1>8, <2>1, <2>2, <2>3 DEF Subscriber
<1>9. ASSUME NEW c \in Consumers, Closer(c) PROVE Membership(d)'
  <2>1. CASE CloseFlag(c)
    <3>1. /\ closing[c].step = "flag" /\ closed' = [closed EXCEPT ![c] = TRUE]
          /\ closing' = [closing EXCEPT ![c].step = "closer"]
          /\ UNCHANGED <<state, sub, active, snapshot, newGeneration, pub>>
      BY <2>1 DEF CloseFlag, innerVars, pubVars, listVars
    <3>2. closing'[d].step = (IF d = c THEN "closer" ELSE closing[d].step)
      BY <3>1 DEF QueueType, Closing
    <3>3. closed'[d] = (IF d = c THEN TRUE ELSE closed[d])
      BY <3>1 DEF QueueType
    <3> QED BY <3>1, <3>2, <3>3 DEF Membership, Live
  <2>2. CASE CloseRunCloser(c)
    <3>1. /\ closing' = [closing EXCEPT ![c].step = "done"]
          /\ UNCHANGED <<closed, state, sub, active, snapshot, newGeneration, pub>>
      BY <2>2 DEF CloseRunCloser, innerVars, pubVars, listVars
    <3>2. closing'[d].step \in {"done", closing[d].step}
      BY <3>1 DEF QueueType, Closing
    <3> QED BY <3>1, <3>2 DEF Membership, Live
  <2> QED BY <1>9, <2>1, <2>2 DEF Closer
<1>10. ASSUME NEW c \in Consumers, HandleCloses(c) PROVE Membership(d)'
  BY <1>10, ClosedMembership, "handle" \in Threads DEF Threads, HandleCloses, pubVars, listVars
<1>11. ASSUME NEW c \in Consumers, WriterRuns(c) \/ WriteDone(c) PROVE Membership(d)'
  BY <1>0, <1>11 DEF WriterRuns, WriterReturns, WriterPops, WriterWaits, WriterLastMarker, WriterFlushes,
                     WriterTurn, WriterClosed, WriterDropsTransport, WriteDone, memberVars, pubVars, listVars,
                     closeVars, innerVars
<1>12. ASSUME NEW c \in Consumers, WriterCloses(c) PROVE Membership(d)'
  BY <1>12, ClosedMembership, "writer" \in Threads DEF Threads, WriterCloses, pubVars, listVars
<1> QED BY <1>1, <1>2, <1>3, <1>4, <1>5, <1>6, <1>7, <1>8, <1>9, <1>10, <1>11, <1>12 DEF Next

placeVars == <<writer, state, sub, inFlight, received, pendingDrop>>

(* A close puts nobody's writer anywhere. *)
LEMMA ClosedPlace ==
    ASSUME QueueType, NEW c \in Consumers, NEW who \in Threads, Close(c, who), NEW d \in Consumers,
           WriterPlace(d), sub[c] # "new", sub'[d] = sub[d] \/ (d = c /\ sub'[d] = "refused"),
           UNCHANGED <<writer, inFlight, received>>
    PROVE  WriterPlace(d)'
<1>1. state'[d] = (IF d = c THEN "Closed" ELSE state[d]) /\ pendingDrop' = pendingDrop
  BY CloseEffect
<1> QED BY <1>1 DEF WriterPlace, Live

LEMMA PlaceStep ==
    ASSUME QueueType, Lists, [Next]_vars, NEW d \in Consumers, WriterPlace(d)
    PROVE  WriterPlace(d)'
<1>0. CASE UNCHANGED placeVars
  BY <1>0 DEF placeVars, WriterPlace, Live
<1>1. CASE UNCHANGED vars
  BY <1>0, <1>1 DEF vars, placeVars, consumerVars, innerVars, writerVars
<1>2. CASE Withhold \/ Publish \/ DropPublisher
  BY <1>0, <1>2 DEF Withhold, Publish, DropPublisher, placeVars, consumerVars, innerVars, writerVars
<1>3. CASE Offer
  <2>1. CASE LoadGeneration \/ RefreshSnapshot \/ OfferEnds
    BY <1>0, <2>1 DEF LoadGeneration, RefreshSnapshot, OfferEnds, placeVars, consumerVars, innerVars, writerVars
  <2>2. ASSUME NEW c \in Consumers, OfferSkips(c) PROVE WriterPlace(d)'
    BY <1>0, <2>2 DEF OfferSkips, Offering, placeVars, innerVars, writerVars
  <2>3. ASSUME NEW c \in Consumers, OfferEnqueues(c) PROVE WriterPlace(d)'
    <3>1. /\ sub[c] = "in" /\ UNCHANGED <<state, sub, inFlight, received>>
          /\ writer' \in {writer, Wake(writer, c)} /\ pendingDrop' = [pendingDrop EXCEPT ![c] = None]
      BY <2>3 DEF OfferEnqueues, Offering, transportVars, Lists
    <3>2. writer'[d] = writer[d] \/ (writer[d] = "wait" /\ writer'[d] = "check")
      BY <3>1, WakeEffect
    <3>3. d # c => pendingDrop'[d] = pendingDrop[d]
      BY <3>1 DEF QueueType
    <3> QED BY <3>1, <3>2, <3>3 DEF WriterPlace, Live
  <2>4. ASSUME NEW c \in Consumers, OfferDrops(c) PROVE WriterPlace(d)'
    <3>1. /\ sub[c] = "in" /\ UNCHANGED <<writer, state, sub, inFlight, received>>
          /\ pendingDrop' = [pendingDrop EXCEPT ![c] = Dropping(@)]
      BY <2>4 DEF OfferDrops, Offering, writerVars, Lists
    <3>2. d # c => pendingDrop'[d] = pendingDrop[d]
      BY <3>1 DEF QueueType
    <3> QED BY <3>1, <3>2 DEF WriterPlace, Live
  <2>5. ASSUME NEW c \in Consumers, OfferCloses(c) PROVE WriterPlace(d)'
    <3>1. /\ Close(c, "publisher") /\ "publisher" \in Threads /\ sub[c] = "in"
          /\ UNCHANGED <<sub, writer, inFlight, received>>
      BY <2>5 DEF OfferCloses, writerVars, Lists, Threads
    <3> QED BY <3>1, ClosedPlace
  <2> QED BY <1>3, <2>1, <2>2, <2>3, <2>4, <2>5 DEF Offer
<1>4. CASE Finish
  <2>1. CASE FinishList \/ FinishEnds
    BY <1>0, <2>1 DEF FinishList, FinishEnds, placeVars, consumerVars, innerVars, writerVars
  <2>2. ASSUME NEW c \in Consumers, FinishDrain(c) PROVE WriterPlace(d)'
    <3>1. /\ sub[c] = "in" /\ UNCHANGED <<sub, inFlight, received, pendingDrop>> /\ writer' = Wake(writer, c)
          /\ state' = IF state[c] = "Open" THEN [state EXCEPT ![c] = "Draining"] ELSE state
      BY <2>2 DEF FinishDrain, transportVars, Lists
    <3>2. writer'[d] = writer[d] \/ (writer[d] = "wait" /\ writer'[d] = "check")
      BY <3>1, WakeEffect
    <3>3. state'[d] = state[d] \/ (state[d] = "Open" /\ state'[d] = "Draining")
      BY <3>1 DEF QueueType
    <3> QED BY <3>1, <3>2, <3>3 DEF WriterPlace, Live
  <2> QED BY <1>4, <2>1, <2>2 DEF Finish
<1>5. CASE Watchdog
  <2>1. CASE WatchdogStops \/ WatchdogPrunes
    BY <1>0, <2>1 DEF WatchdogStops, WatchdogPrunes, placeVars, consumerVars, innerVars, writerVars
  <2>2. ASSUME NEW c \in Consumers, WatchdogCloses(c) PROVE WriterPlace(d)'
    <3>1. /\ Close(c, "watchdog") /\ "watchdog" \in Threads /\ sub[c] = "in"
          /\ UNCHANGED <<sub, writer, inFlight, received>>
      BY <2>2 DEF WatchdogCloses, writerVars, Lists, Threads
    <3> QED BY <3>1, ClosedPlace
  <2> QED BY <1>5, <2>1, <2>2 DEF Watchdog
<1>6. CASE HandlePrunes
  BY <1>0, <1>6 DEF HandlePrunes, placeVars, consumerVars, innerVars, writerVars
<1>7. ASSUME NEW c \in Consumers, SubscribeCheck(c) PROVE WriterPlace(d)'
  <2>1. /\ UNCHANGED <<inFlight, received, pendingDrop>> /\ sub[c] = "new"
        /\ \/ sub' = [sub EXCEPT ![c] = "refused"] /\ UNCHANGED <<state, writer>>
           \/ /\ sub' = [sub EXCEPT ![c] = "created"] /\ state' = [state EXCEPT ![c] = "Open"]
              /\ writer' = [writer EXCEPT ![c] = "check"]
    BY <1>7 DEF SubscribeCheck, innerVars, transportVars
  <2> QED BY <2>1 DEF QueueType, WriterPlace, Live
<1>8. ASSUME NEW c \in Consumers, Subscriber(c) PROVE WriterPlace(d)'
  <2>1. CASE SubscribeAdmit(c) \/ SubscribeRefuse(c)
    <3>1. /\ UNCHANGED <<writer, state, inFlight, received, pendingDrop>> /\ sub[c] = "created"
          /\ sub' \in {[sub EXCEPT ![c] = "in"], [sub EXCEPT ![c] = "refusing"]}
      BY <2>1 DEF SubscribeAdmit, Admit, SubscribeRefuse, innerVars, writerVars
    <3> QED BY <3>1 DEF QueueType, WriterPlace, Live
  <2>2. CASE SubscribeClose(c)
    <3>1. /\ Close(c, "subscriber") /\ "subscriber" \in Threads /\ sub[c] # "new"
          /\ UNCHANGED <<writer, inFlight, received>>
          /\ (sub'[d] = sub[d] \/ (d = c /\ sub'[d] = "refused"))
      BY <2>2 DEF SubscribeClose, writerVars, Threads, QueueType
    <3> QED BY <3>1, ClosedPlace
  <2> QED BY <1>8, <2>1, <2>2 DEF Subscriber
<1>9. ASSUME NEW c \in Consumers, Closer(c) PROVE WriterPlace(d)'
  <2>1. CASE CloseFlag(c)
    <3>1. UNCHANGED <<state, sub, inFlight, received, pendingDrop>> /\ writer' = Wake(writer, c)
      BY <2>1 DEF CloseFlag, innerVars, transportVars
    <3>2. writer'[d] = writer[d] \/ (writer[d] = "wait" /\ writer'[d] = "check")
      BY <3>1, WakeEffect
    <3> QED BY <3>1, <3>2 DEF WriterPlace, Live
  <2>2. CASE CloseRunCloser(c)
    BY <1>0, <2>2 DEF CloseRunCloser, placeVars, innerVars
  <2> QED BY <1>9, <2>1, <2>2 DEF Closer
<1>10. ASSUME NEW c \in Consumers, HandleCloses(c) PROVE WriterPlace(d)'
  <2>1. /\ Close(c, "handle") /\ "handle" \in Threads /\ sub[c] = "in"
        /\ UNCHANGED <<sub, writer, inFlight, received>>
    BY <1>10 DEF HandleCloses, writerVars, Threads
  <2> QED BY <2>1, ClosedPlace
<1>11. ASSUME NEW c \in Consumers, WriterRuns(c) PROVE WriterPlace(d)'
  <2>0. sub' = sub /\ state' = state
    BY <1>11 DEF WriterRuns, WriterReturns, WriterPops, WriterWaits, WriterLastMarker, WriterFlushes,
                 WriterTurn, WriterClosed, WriterDropsTransport, innerVars
  <2>1. CASE WriterReturns(c) \/ WriterWaits(c) \/ WriterFlushes(c)
    BY <2>0, <2>1 DEF WriterReturns, WriterWaits, WriterFlushes, WriterTurn, WriterGoes, QueueType, WriterPlace, Live
  <2>2. CASE WriterPops(c)
    <3>1. /\ writer[c] = "check" /\ writer' = [writer EXCEPT ![c] = "write"]
          /\ \E q : inFlight' = [inFlight EXCEPT ![c] = q]
          /\ UNCHANGED <<received, pendingDrop>>
      BY <2>2 DEF WriterPops, WriterTurn, WriterGoes
    <3> QED BY <2>0, <3>1 DEF QueueType, WriterPlace, Live
  <2>3. CASE WriterLastMarker(c)
    BY <2>0, <2>3 DEF WriterLastMarker, WriterTurn, WriterGoes, QueueType, WriterPlace, Live
  <2>4. CASE WriterClosed(c)
    BY <2>0, <2>4 DEF WriterClosed, WriterGoes, QueueType, innerVars, transportVars, WriterPlace, Live
  <2>5. CASE WriterDropsTransport(c)
    BY <2>0, <2>5 DEF WriterDropsTransport, WriterGoes, QueueType, WriterPlace, Live
  <2> QED BY <1>11, <2>1, <2>2, <2>3, <2>4, <2>5 DEF WriterRuns
<1>12. ASSUME NEW c \in Consumers, WriteDone(c) PROVE WriterPlace(d)'
  <2>1. /\ writer[c] = "write" /\ writer' = [writer EXCEPT ![c] = "check"]
        /\ inFlight' = [inFlight EXCEPT ![c] = <<>>] /\ UNCHANGED <<state, sub, pendingDrop>>
        /\ \E q : received' = [received EXCEPT ![c] = q]
    BY <1>12 DEF WriteDone, WriterGoes, innerVars
  <2> QED BY <2>1 DEF QueueType, WriterPlace, Live
<1>13. ASSUME NEW c \in Consumers, WriterCloses(c) PROVE WriterPlace(d)'
  <2>1. /\ Close(c, "writer") /\ "writer" \in Threads /\ writer[c] \in {"write", "flush"}
        /\ writer' = [writer EXCEPT ![c] = "close"] /\ inFlight' = [inFlight EXCEPT ![c] = <<>>]
        /\ UNCHANGED <<sub, received>>
    BY <1>13 DEF WriterCloses, WriterGoes, Threads
  <2>2. state'[d] = (IF d = c THEN "Closed" ELSE state[d]) /\ pendingDrop' = pendingDrop
    BY <2>1, CloseEffect
  <2> QED BY <2>1, <2>2 DEF QueueType, WriterPlace, Live
<1> QED BY <1>1, <1>2, <1>3, <1>4, <1>5, <1>6, <1>7, <1>8, <1>9, <1>10, <1>11, <1>12, <1>13 DEF Next

----------------------------------------------------------------------------
(* The streams stay whole *)

Pending(c) == IF pendingDrop[c] = None THEN <<>> ELSE <<Marker(pendingDrop[c])>>

LEMMA StreamParts ==
    ASSUME QueueType, NEW c \in Consumers
    PROVE  /\ received[c] \in Seq(Unit) /\ inFlight[c] \in Seq(Unit) /\ ring[c] \in Seq(Unit)
           /\ Pending(c) \in Seq(Unit) /\ pendingDrop[c] \in Run /\ <<>> \in Seq(Unit)
           /\ received[c] \o inFlight[c] \in Seq(Unit)
           /\ (received[c] \o inFlight[c]) \o ring[c] \in Seq(Unit)
           /\ Stream(c) \in Seq(Unit)
           /\ Stream(c) = ((received[c] \o inFlight[c]) \o ring[c]) \o Pending(c)
<1>1. /\ received[c] \in Seq(Unit) /\ inFlight[c] \in Seq(Unit) /\ ring[c] \in Seq(Unit)
      /\ pendingDrop[c] \in Run /\ <<>> \in Seq(Unit)
  BY EmptySeq DEF QueueType
<1>2. Pending(c) \in Seq(Unit)
  BY <1>1, MarkerIsUnit DEF Pending
<1>3. received[c] \o inFlight[c] \in Seq(Unit)
  BY <1>1, ConcatProperties
<1>4. (received[c] \o inFlight[c]) \o ring[c] \in Seq(Unit)
  BY <1>1, <1>3, ConcatProperties
<1>5. ((received[c] \o inFlight[c]) \o ring[c]) \o Pending(c) \in Seq(Unit)
  BY <1>2, <1>4, ConcatProperties
<1>6. Stream(c) = ((received[c] \o inFlight[c]) \o ring[c]) \o Pending(c)
  BY DEF Stream, Pending
<1> QED BY <1>1, <1>2, <1>3, <1>4, <1>5, <1>6

(* A step that touches neither the stream nor what is due. *)
LEMMA KeptStream ==
    ASSUME NEW d \in Consumers, StreamOf(d),
           received'[d] = received[d], inFlight'[d] = inFlight[d], ring'[d] = ring[d],
           pendingDrop'[d] = pendingDrop[d], Live(d)' => Live(d), sub'[d] = "in" <=> sub[d] = "in",
           sub[d] = "in" /\ Live(d) => due'[d] = due[d] /\ NextFor(d)' = NextFor(d)
    PROVE  StreamOf(d)'
<1>1. Stream(d)' = Stream(d)
  BY DEF Stream
<1>2. ASSUME Live(d)' PROVE Whole(d, Stream(d))'
  <2> DEFINE s == Stream(d)
  <2>1. Live(d) /\ Whole(d, s)
    BY <1>2 DEF StreamOf
  <2>2. s' = s
    BY <1>1
  <2> HIDE DEF s
  <2>3. Whole(d, s)'
    BY <2>1, <2>2 DEF Whole
  <2> QED BY <2>3 DEF s
<1> QED BY <1>2 DEF StreamOf

(* A closed consumer's stream ends where its transport was. *)
LEMMA ClosedStream ==
    ASSUME QueueType, NEW c \in Consumers, NEW who \in Threads, Close(c, who), NEW d \in Consumers, StreamOf(d),
           received'[d] = received[d], inFlight'[d] = inFlight[d],
           d # c => /\ sub'[d] = sub[d] /\ due'[d] = due[d]
                    /\ sub[d] = "in" /\ Live(d) => NextFor(d)' = NextFor(d)
    PROVE  StreamOf(d)'
<1>1. /\ state'[d] = (IF d = c THEN "Closed" ELSE state[d]) /\ pendingDrop' = pendingDrop
      /\ d # c => ring'[d] = ring[d]
  BY CloseEffect
<1>2. CASE d = c
  BY <1>1, <1>2 DEF StreamOf, Live
<1>3. CASE d # c
  BY <1>1, <1>3, KeptStream DEF Live
<1> QED BY <1>2, <1>3

LEMMA SameNext ==
    ASSUME UNCHANGED <<pub, nextSeq, withheld, frame>>, NEW d,
           pub = "offer" => (d \in todo' <=> d \in todo)
    PROVE  NextFor(d)' = NextFor(d)
  BY DEF NextFor

(* The producer's own steps move the number in hand, and not which is next. *)
LEMMA ProducerNext ==
    ASSUME ProducerInv, Lists, NEW d \in Consumers, Membership(d), sub[d] = "in", Live(d), Producing
    PROVE  NextFor(d)' = NextFor(d)
<1> USE DEF ProducerInv, NextFor
<1>1. CASE Withhold
  BY <1>1 DEF Withhold, None, Run
<1>2. CASE Publish
  BY <1>2 DEF Publish, Frame
<1>3. CASE DropPublisher
  BY <1>3 DEF DropPublisher, Frame
<1>4. CASE LoadGeneration
  <2>1. ~newGeneration => d \in snapshot
    BY <1>4 DEF LoadGeneration, Membership
  <2> QED BY <1>4, <2>1 DEF LoadGeneration
<1>5. CASE RefreshSnapshot
  BY <1>5 DEF RefreshSnapshot, Membership
<1>6. CASE OfferEnds
  BY <1>6 DEF OfferEnds
<1>7. CASE FinishList \/ FinishEnds
  BY <1>7 DEF FinishList, FinishEnds
<1> QED BY <1>1, <1>2, <1>3, <1>4, <1>5, <1>6, <1>7 DEF Producing

LEMMA ProducingStream ==
    ASSUME ProducerInv, Lists, NEW d \in Consumers, Membership(d), StreamOf(d), Producing
    PROVE  StreamOf(d)'
<1>1. UNCHANGED <<sub, state, received, inFlight, ring, pendingDrop, due>>
  BY DEF Producing, Withhold, Publish, DropPublisher, LoadGeneration, RefreshSnapshot, OfferEnds, FinishList,
         FinishEnds, consumerVars, innerVars, writerVars, otherVars
<1>2. sub[d] = "in" /\ Live(d) => NextFor(d)' = NextFor(d)
  BY ProducerNext
<1>3. Live(d)' <=> Live(d)
  BY <1>1 DEF Live
<1> QED BY <1>1, <1>2, <1>3, KeptStream

(* What an offer does to its consumer's stream. *)
LEMMA EnqueuedStream ==
    ASSUME QueueType, ProducerInv, FrameInv, Lists, NEW c \in Consumers, StreamOf(c), OfferEnqueues(c)
    PROVE  StreamOf(c)'
<1>1. /\ pub = "offer" /\ pub' = "offer" /\ c \in todo /\ c \notin todo' /\ state[c] = "Open" /\ sub[c] = "in"
      /\ UNCHANGED <<sub, state, received, inFlight, due, withheld, nextSeq, frame>>
      /\ ring' = [ring EXCEPT ![c] = ring[c] \o Queued(c)]
      /\ pendingDrop' = [pendingDrop EXCEPT ![c] = None]
  BY DEF OfferEnqueues, Offering, transportVars, otherVars, Lists
<1> DEFINE ab == received[c] \o inFlight[c]
           r == ring[c]
           p == Pending(c)
           u == frame.units
           s == Stream(c)
<1>2. /\ ab \in Seq(Unit) /\ r \in Seq(Unit) /\ p \in Seq(Unit) /\ s \in Seq(Unit) /\ s = (ab \o r) \o p
  BY StreamParts
<1>3. /\ u \in Seq(Unit) /\ Complete(u) /\ u[1].kind \in {"head", "marker"} /\ u[1].first = frame.first
      /\ u[Len(u)].last = nextSeq - 1 /\ \A i \in 1..(Len(u) - 1) : Follows(u[i], u[i + 1])
      /\ frame.first \in Nat \ {0} /\ nextSeq \in Nat /\ withheld = None
  BY <1>1 DEF FrameInv, ProducerInv
<1>4. ring'[c] = r \o (p \o u) /\ pendingDrop'[c] = None
  BY <1>1 DEF QueueType, Queued, Pending
<1>5. Stream(c)' = s \o u
  <2>1. Stream(c)' = (ab \o (r \o (p \o u))) \o <<>>
    BY <1>1, <1>4 DEF Stream
  <2> HIDE DEF ab, r, p, u, s
  <2>2. (ab \o (r \o (p \o u))) \o <<>> = ((ab \o r) \o p) \o u
    <3>2. \A q1, q2, q3, q4 \in Seq(Unit) :
            (q1 \o (q2 \o (q3 \o q4))) \o <<>> = ((q1 \o q2) \o q3) \o q4
      BY Regroup
    <3>3. ab \in Seq(Unit)
      BY <1>2
    <3>4. r \in Seq(Unit)
      BY <1>2
    <3>5. p \in Seq(Unit)
      BY <1>2
    <3>6. u \in Seq(Unit)
      BY <1>3
    <3>7. \A q2, q3, q4 \in Seq(Unit) :
            (ab \o (q2 \o (q3 \o q4))) \o <<>> = ((ab \o q2) \o q3) \o q4
      BY <3>2, <3>3
    <3>8. \A q3, q4 \in Seq(Unit) :
            (ab \o (r \o (q3 \o q4))) \o <<>> = ((ab \o r) \o q3) \o q4
      BY <3>7, <3>4
    <3>9. \A q4 \in Seq(Unit) :
            (ab \o (r \o (p \o q4))) \o <<>> = ((ab \o r) \o p) \o q4
      BY <3>8, <3>5
    <3> QED BY <3>9, <3>6
  <2>3. ((ab \o r) \o p) \o u = s \o u
    BY <1>2
  <2> QED BY <2>1, <2>2, <2>3
<1>6. NextFor(c) = frame.first /\ NextFor(c)' = nextSeq
  BY <1>1, <1>3 DEF NextFor
<1>7. /\ WellFormed(s) /\ Complete(s)
      /\ IF Len(s) = 1 THEN frame.first <= due[c] ELSE s[2].first <= due[c] /\ s[Len(s)].last = frame.first - 1
  BY <1>1, <1>6 DEF StreamOf, Live, Whole
<1>8. WellFormed(ab)' /\ due'[c] = due[c] /\ sub'[c] = "in"
  BY <1>1 DEF StreamOf
<1> HIDE DEF ab, r, p, u, s
<1>9. /\ s[Len(s)].kind = "header" \/ u[1].first = s[Len(s)].last + 1
      /\ Len(s) \in Nat \ {0} /\ u # <<>>
  <2>1. Len(s) \in Nat \ {0} /\ s # <<>> /\ u # <<>>
    BY <1>2, <1>3, <1>7, EmptySeq DEF Complete
  <2>2. CASE Len(s) = 1
    <3>1. s[Len(s)] = Header
      BY <1>2, <1>7, <2>1, <2>2 DEF WellFormed
    <3> QED BY <2>1, <3>1 DEF Header
  <2>3. CASE Len(s) # 1
    BY <1>3, <1>7, <2>1, <2>3
  <2> QED BY <2>1, <2>2, <2>3
<1>10. /\ s \o u \in Seq(Unit) /\ WellFormed(s \o u)
       /\ Len(s \o u) = Len(s) + Len(u) /\ Len(s) \in Nat \ {0} /\ Len(u) \in Nat \ {0}
       /\ (s \o u)[Len(s \o u)] = u[Len(u)]
       /\ \A i \in 1..Len(s) : (s \o u)[i] = s[i]
       /\ (s \o u)[Len(s) + 1] = u[1]
  BY <1>2, <1>3, <1>7, <1>9, JoinWellFormed
<1>11. Complete(s \o u)
  <2>1. s \o u # <<>>
    BY <1>10, EmptySeq
  <2> QED BY <1>3, <1>10, <2>1 DEF Complete
<1>12. (s \o u)[2].first <= due[c]
  <2>1. CASE Len(s) = 1
    <3>1. Len(s) + 1 = 2
      BY <2>1
    <3> QED BY <1>3, <1>7, <1>10, <2>1, <3>1
  <2>2. CASE Len(s) # 1
    <3>1. Len(s) \in Nat \ {0}
      BY <1>10
    <3>2. 2 \in 1..Len(s)
      BY <2>2, <3>1
    <3> QED BY <1>7, <1>10, <2>2, <3>2
  <2> QED BY <2>1, <2>2
<1>13. Whole(c, Stream(c))'
  <2>1. Len(s \o u) # 1 /\ (s \o u)[Len(s \o u)].last = nextSeq - 1
    BY <1>3, <1>10
  <2> DEFINE t == Stream(c)
  <2>2. t' = s \o u
    BY <1>5
  <2> HIDE DEF t
  <2>3. Whole(c, t)'
    BY <1>6, <1>8, <1>10, <1>11, <1>12, <2>1, <2>2 DEF Whole
  <2> QED BY <2>3 DEF t
<1> QED BY <1>8, <1>13 DEF StreamOf, ab

LEMMA DroppedStream ==
    ASSUME QueueType, ProducerInv, FrameInv, Lists, NEW c \in Consumers, StreamOf(c), OfferDrops(c)
    PROVE  StreamOf(c)'
<1>1. /\ pub = "offer" /\ pub' = "offer" /\ c \in todo /\ c \notin todo' /\ state[c] = "Open" /\ sub[c] = "in"
      /\ UNCHANGED <<sub, state, ring, received, inFlight, due, withheld, nextSeq, frame>>
      /\ pendingDrop' = [pendingDrop EXCEPT ![c] = Dropping(pendingDrop[c])]
  BY DEF OfferDrops, Offering, writerVars, otherVars, Lists
<1> DEFINE ab == received[c] \o inFlight[c]
           x == ab \o ring[c]
           m == pendingDrop[c]
           n == Dropping(m)
           s == Stream(c)
           t == x \o <<Marker(n)>>
<1>2. x \in Seq(Unit) /\ s \in Seq(Unit) /\ s = x \o Pending(c) /\ m \in Run
  BY StreamParts
<1>3. /\ frame.first \in Nat \ {0} /\ frame.count \in Nat \ {0} /\ frame.first + frame.count = nextSeq
      /\ nextSeq \in Nat /\ withheld = None
  BY <1>1 DEF FrameInv, ProducerInv
<1>4. n \in Run /\ n.first = (IF m = None THEN frame.first ELSE m.first) /\ n # None
      /\ n.count = (IF m = None THEN 0 ELSE m.count) + frame.count
  <2>1. m.first \in Nat /\ m.count \in Nat /\ m = [first |-> m.first, count |-> m.count]
    BY <1>2 DEF Run
  <2> HIDE DEF m
  <2>2. n = (IF m = None THEN [first |-> frame.first, count |-> frame.count]
                         ELSE [first |-> m.first, count |-> m.count + frame.count])
    BY <2>1 DEF Dropping
  <2>3. n.first = (IF m = None THEN frame.first ELSE m.first)
        /\ n.count = (IF m = None THEN 0 ELSE m.count) + frame.count
    BY <1>3, <2>2
  <2>4. n \in Run
    BY <1>3, <2>1, <2>2 DEF Run
  <2>5. n.count # 0
    BY <1>3, <2>1, <2>3
  <2>6. n # None
    BY <2>5 DEF None
  <2> QED BY <2>3, <2>4, <2>6
<1>5. Stream(c)' = t
  <2>1. pendingDrop'[c] = n
    BY <1>1 DEF QueueType
  <2>2. Stream(c)' = x \o (IF pendingDrop'[c] = None THEN <<>> ELSE <<Marker(pendingDrop'[c])>>)
    BY <1>1 DEF Stream
  <2> QED BY <1>4, <2>1, <2>2
<1>6. NextFor(c) = frame.first /\ NextFor(c)' = nextSeq
  BY <1>1, <1>3 DEF NextFor
<1>7. /\ WellFormed(s) /\ Complete(s)
      /\ IF Len(s) = 1 THEN frame.first <= due[c] ELSE s[2].first <= due[c] /\ s[Len(s)].last = frame.first - 1
  BY <1>1, <1>6 DEF StreamOf, Live, Whole
<1>8. WellFormed(ab)' /\ due'[c] = due[c] /\ sub'[c] = "in"
  BY <1>1 DEF StreamOf
<1>9. Pending(c) = IF m = None THEN <<>> ELSE <<Marker(m)>>
  BY DEF Pending
<1>10. Marker(n) \in Unit /\ <<Marker(n)>> \in Seq(Unit) /\ Marker(n).first = n.first
       /\ Marker(n).last = n.first + n.count - 1 /\ Marker(n).kind = "marker"
       /\ Marker(m).last = m.first + m.count - 1
  BY <1>4, MarkerIsUnit DEF Marker
<1> HIDE DEF ab, x, m, n, s
<1>11. WellFormed(t) /\ Complete(t) /\ Len(t) # 1 /\ t[2].first <= due[c] /\ t[Len(t)].last = nextSeq - 1
  <2>1. CASE m = None
    <3> DEFINE u == <<Marker(n)>>
    <3>1. s = x /\ Len(s) \in Nat \ {0} /\ s # <<>>
      <4>1. s = x
        BY <1>2, <1>9, <2>1, ConcatEmptySeq
      <4> QED BY <1>2, <1>7, <4>1, EmptySeq DEF Complete
    <3>2. s[Len(s)].kind = "header" \/ u[1].first = s[Len(s)].last + 1
      <4>1. CASE Len(s) = 1
        <5>1. s[Len(s)] = Header
          BY <1>2, <1>7, <3>1, <4>1 DEF WellFormed
        <5> QED BY <5>1 DEF Header
      <4>2. CASE Len(s) # 1
        <5>1. u[1].first = frame.first /\ s[Len(s)].last = frame.first - 1 /\ frame.first \in Nat
          BY <1>3, <1>4, <1>7, <1>10, <2>1, <4>2
        <5> QED BY <5>1
      <4> QED BY <4>1, <4>2
    <3>3. /\ u \in Seq(Unit) /\ u # <<>> /\ Len(u) = 1 /\ u[1] = Marker(n) /\ u[Len(u)] = Marker(n)
          /\ u[1].kind \in {"head", "marker"}
          /\ \A i \in 1..(Len(u) - 1) : Follows(u[i], u[i + 1])
      BY <1>10
    <3> HIDE DEF u
    <3>4. /\ s \o u \in Seq(Unit) /\ WellFormed(s \o u)
          /\ Len(s \o u) = Len(s) + Len(u) /\ Len(s) \in Nat \ {0} /\ Len(u) \in Nat \ {0}
          /\ (s \o u)[Len(s \o u)] = u[Len(u)]
          /\ \A i \in 1..Len(s) : (s \o u)[i] = s[i]
          /\ (s \o u)[Len(s) + 1] = u[1]
      BY <1>2, <1>7, <3>2, <3>3, JoinWellFormed
    <3>5. Complete(s \o u) /\ (s \o u)[Len(s \o u)].last = nextSeq - 1
      <4>1. s \o u # <<>>
        BY <3>3, <3>4, EmptySeq
      <4>2. Marker(n).last = nextSeq - 1
        BY <1>3, <1>4, <1>10, <2>1
      <4> QED BY <1>10, <3>3, <3>4, <4>1, <4>2 DEF Complete
    <3>6. (s \o u)[2].first <= due[c]
      <4>1. CASE Len(s) = 1
        <5>1. Len(s) + 1 = 2
          BY <4>1
        <5>2. (s \o u)[2] = Marker(n)
          BY <3>3, <3>4, <5>1
        <5> QED BY <1>4, <1>7, <1>10, <2>1, <4>1, <5>2
      <4>2. CASE Len(s) # 1
        <5>1. 2 \in 1..Len(s)
          BY <3>1, <4>2
        <5> QED BY <1>7, <3>4, <4>2, <5>1
      <4> QED BY <4>1, <4>2
    <3>7. t = s \o u /\ Len(s \o u) # 1
      <4>1. Len(s) + 1 # 1 /\ Len(s \o u) = Len(s) + 1
        BY <3>1, <3>3, <3>4
      <4> QED BY <3>1, <4>1 DEF u
    <3> QED BY <3>4, <3>5, <3>6, <3>7
  <2>2. CASE m # None
    <3>1. s = x \o <<Marker(m)>>
      BY <1>2, <1>9, <2>2
    <3>2. n \in Run /\ m \in Run /\ n.first = m.first /\ WellFormed(x \o <<Marker(m)>>)
      BY <1>2, <1>4, <1>7, <2>2, <3>1
    <3>3. /\ WellFormed(t) /\ Complete(t) /\ Len(t) = Len(s) /\ Len(t) > 1 /\ t[2].first = s[2].first
          /\ t[Len(t)] = Marker(n) /\ s[Len(s)] = Marker(m)
      BY <1>2, <3>1, <3>2, MarkerGrows
    <3> HIDE DEF t
    <3>4. Len(t) # 1 /\ Len(s) # 1
      BY <3>3
    <3>5. s[2].first <= due[c] /\ m.first + m.count - 1 = frame.first - 1
      BY <1>7, <1>10, <3>3, <3>4
    <3>6. Marker(n).last = nextSeq - 1
      <4>n. n.first = m.first /\ n.count = m.count + frame.count
        BY <1>4, <2>2
      <4>1. Marker(n).last = n.first + n.count - 1
        BY <1>10
      <4>2. m.first \in Nat /\ m.count \in Nat /\ n.first \in Nat /\ n.count \in Nat
        BY <1>2, <1>4 DEF Run
      <4>3. n.first + n.count - 1 = nextSeq - 1
        BY <1>3, <3>5, <4>n, <4>2
      <4> QED BY <4>1, <4>3
    <3> QED BY <3>3, <3>4, <3>5, <3>6
  <2> QED BY <2>1, <2>2
<1>12. Whole(c, Stream(c))'
  <2> DEFINE z == Stream(c)
  <2>2. z' = t
    BY <1>5
  <2> HIDE DEF z, t
  <2>3. Whole(c, z)'
    BY <1>6, <1>8, <1>11, <2>2 DEF Whole
  <2> QED BY <2>3 DEF z
<1> QED BY <1>8, <1>12 DEF StreamOf, ab

(* Where the writer cuts the queue is of no consequence to the stream. *)
LEMMA PoppedStream ==
    ASSUME QueueType, NEW c \in Consumers, StreamOf(c), WriterPlace(c), WriterPops(c)
    PROVE  StreamOf(c)'
<1>1. /\ writer[c] = "check" /\ state[c] # "Closed"
      /\ UNCHANGED <<sub, state, received, pendingDrop, due, pub, nextSeq, withheld, frame, todo>>
  BY DEF WriterPops, WriterTurn, pubVars, otherVars
<1>2. PICK n \in 1..Chunk :
          /\ n <= Len(ring[c]) /\ inFlight' = [inFlight EXCEPT ![c] = SubSeq(ring[c], 1, n)]
          /\ ring' = [ring EXCEPT ![c] = SubSeq(ring[c], n + 1, Len(ring[c]))]
  BY DEF WriterPops
<1>3. Live(c) /\ inFlight[c] = <<>>
  BY <1>1 DEF QueueType, WriterPlace, Live
<1> DEFINE a == received[c]
           r == ring[c]
           p == Pending(c)
           x == SubSeq(r, 1, n)
           y == SubSeq(r, n + 1, Len(r))
<1>4. a \in Seq(Unit) /\ r \in Seq(Unit) /\ p \in Seq(Unit) /\ Stream(c) = ((a \o <<>>) \o r) \o p
  BY <1>3, StreamParts
<1>5. n \in 1..Len(r)
  BY <1>2, <1>4, LenProperties
<1>6. x \in Seq(Unit) /\ y \in Seq(Unit) /\ r = x \o y
  BY <1>4, <1>5, SplitRing
<1>7. Stream(c)' = ((a \o x) \o y) \o p /\ (received[c] \o inFlight[c])' = a \o x
  BY <1>1, <1>2 DEF Stream, Pending, QueueType
<1> HIDE DEF a, r, p, x, y
<1>8. Stream(c) = ((a \o <<>>) \o (x \o y)) \o p
  BY <1>4, <1>6
<1>9. /\ ((a \o <<>>) \o (x \o y)) \o p = ((a \o x) \o y) \o p
      /\ ((a \o x) \o y) \o p = (a \o x) \o (y \o p)
      /\ y \o p \in Seq(Unit) /\ a \o x \in Seq(Unit)
  <2> DEFINE ax == a \o x
  <2>1. a \o <<>> = a /\ ax \in Seq(Unit) /\ y \o p \in Seq(Unit)
    BY <1>4, <1>6, ConcatEmptySeq, ConcatProperties
  <2>2. ax \o y = a \o (x \o y)
    <3>1. x \in Seq(Unit) /\ y \in Seq(Unit)
      BY <1>6
    <3>2. \A q \in Seq(Unit) : (q \o x) \o y = q \o (x \o y)
      BY <3>1, ConcatAssociative
    <3> QED BY <1>4, <3>2
  <2> HIDE DEF ax
  <2>3. (ax \o y) \o p = ax \o (y \o p)
    <3>1. y \in Seq(Unit) /\ p \in Seq(Unit)
      BY <1>4, <1>6
    <3>2. \A q \in Seq(Unit) : (q \o y) \o p = q \o (y \o p)
      BY <3>1, ConcatAssociative
    <3> QED BY <2>1, <3>2
  <2>4. ((a \o <<>>) \o (x \o y)) \o p = (ax \o y) \o p
    BY <2>1, <2>2
  <2> QED BY <2>1, <2>3, <2>4 DEF ax
<1>10. Stream(c)' = Stream(c) /\ Stream(c) = (a \o x) \o (y \o p)
  BY <1>7, <1>8, <1>9
<1>11. Whole(c, Stream(c))
  BY <1>3 DEF StreamOf
<1>12. WellFormed(a \o x)
  <2>1. WellFormed((a \o x) \o (y \o p))
    BY <1>10, <1>11 DEF Whole
  <2> QED BY <1>9, <2>1, PrefixWellFormed
<1>13. NextFor(c)' = NextFor(c)
  BY <1>1, SameNext
<1>14. Whole(c, Stream(c))'
  <2> DEFINE s == Stream(c)
  <2>1. s' = s /\ Whole(c, s)
    BY <1>10, <1>11
  <2> HIDE DEF s
  <2>2. Whole(c, s)'
    BY <1>1, <1>13, <2>1 DEF Whole
  <2> QED BY <2>2 DEF s
<1>15. WellFormed(received[c] \o inFlight[c])'
  BY <1>7, <1>12
<1> QED BY <1>14, <1>15 DEF StreamOf

LEMMA DeliveredStream ==
    ASSUME QueueType, NEW c \in Consumers, StreamOf(c), WriteDone(c)
    PROVE  StreamOf(c)'
<1>1. /\ UNCHANGED <<sub, state, ring, pendingDrop, due, pub, nextSeq, withheld, frame, todo>>
      /\ received'[c] = received[c] \o inFlight[c] /\ inFlight'[c] = <<>>
  BY DEF WriteDone, pubVars, otherVars, innerVars, QueueType
<1> DEFINE ab == received[c] \o inFlight[c]
           s == Stream(c)
<1>2. (received[c] \o inFlight[c])' = ab
  <2>1. (received[c] \o inFlight[c])' = ab \o <<>> /\ ab \in Seq(Unit)
    BY <1>1, StreamParts
  <2> QED BY <2>1, ConcatEmptySeq
<1>3. s' = s
  BY <1>1, <1>2 DEF Stream
<1>4. NextFor(c)' = NextFor(c)
  BY <1>1, SameNext
<1>5. (Live(c) => Whole(c, s)) /\ WellFormed(ab) /\ (Live(c)' <=> Live(c))
  BY <1>1 DEF StreamOf, Live
<1> HIDE DEF s
<1>6. (Live(c) => Whole(c, s))'
  BY <1>1, <1>3, <1>4, <1>5 DEF Whole
<1>7. WellFormed(received[c] \o inFlight[c])'
  BY <1>2, <1>5
<1> QED BY <1>6, <1>7 DEF StreamOf, s

LEMMA LastMarkerStream ==
    ASSUME QueueType, NEW c \in Consumers, StreamOf(c), WriterPlace(c), WriterLastMarker(c)
    PROVE  StreamOf(c)'
<1>1. /\ UNCHANGED <<sub, state, ring, received, due, pub, nextSeq, withheld, frame, todo>>
      /\ state[c] = "Draining" /\ writer[c] = "check" /\ ring[c] = <<>> /\ pendingDrop[c] # None
      /\ inFlight'[c] = <<Marker(pendingDrop[c])>> /\ pendingDrop'[c] = None
  BY DEF WriterLastMarker, WriterTurn, pubVars, otherVars, QueueType
<1> DEFINE a == received[c]
           p == <<Marker(pendingDrop[c])>>
           s == Stream(c)
<1>2. inFlight[c] = <<>> /\ Live(c) /\ Whole(c, s)
  BY <1>1 DEF WriterPlace, Live, StreamOf
<1>3. a \in Seq(Unit) /\ p \in Seq(Unit) /\ <<>> \in Seq(Unit)
  BY StreamParts, MarkerIsUnit
<1>4. s = ((a \o <<>>) \o <<>>) \o p
  BY <1>1, <1>2 DEF Stream
<1>5. s' = ((a \o p) \o <<>>) \o <<>> /\ (received[c] \o inFlight[c])' = a \o p
  BY <1>1 DEF Stream
<1> HIDE DEF a, p, s
<1>6. a \o <<>> = a /\ a \o p \in Seq(Unit) /\ (a \o p) \o <<>> = a \o p
  BY <1>3, ConcatEmptySeq, ConcatProperties
<1>7. s' = s /\ s = a \o p
  BY <1>4, <1>5, <1>6
<1>8. NextFor(c)' = NextFor(c)
  BY <1>1, SameNext
<1>9. Whole(c, s)'
  BY <1>1, <1>2, <1>7, <1>8 DEF Whole
<1>10. WellFormed(received[c] \o inFlight[c])'
  BY <1>2, <1>5, <1>7 DEF Whole
<1> QED BY <1>9, <1>10 DEF StreamOf, s

(* A subscriber is let in with the numbers up to the next one still to come. *)
LEMMA AdmittedStream ==
    ASSUME QueueType, ProducerInv, FrameInv, NEW c \in Consumers, NEW d \in Consumers, StreamOf(d),
           SubscribeAdmit(c)
    PROVE  StreamOf(d)'
<1>1. /\ sub[c] = "created" /\ sub' = [sub EXCEPT ![c] = "in"] /\ due' = [due EXCEPT ![c] = nextSeq]
      /\ UNCHANGED <<state, received, inFlight, ring, pendingDrop, pub, nextSeq, withheld, frame, todo>>
  BY DEF SubscribeAdmit, Admit, writerVars, innerVars, pubVars
<1>2. NextFor(d)' = NextFor(d)
  BY <1>1, SameNext
<1>3. CASE d # c
  <2>1. sub'[d] = sub[d] /\ due'[d] = due[d]
    BY <1>1, <1>3 DEF QueueType
  <2> QED BY <1>1, <1>2, <2>1, KeptStream DEF Live
<1>4. CASE d = c
  <2> DEFINE s == Stream(d)
  <2>1. s' = s /\ (Live(d)' <=> Live(d))
    BY <1>1 DEF Stream, Live
  <2>2. sub'[d] = "in" /\ due'[d] = nextSeq
    BY <1>1, <1>4 DEF QueueType
  <2>3. NextFor(d) <= nextSeq
    BY DEF NextFor, ProducerInv, FrameInv, Run
  <2>4. Live(d) => WellFormed(s) /\ Complete(s) /\ s = <<Header>>
    BY <1>1, <1>4 DEF StreamOf, Whole
  <2>5. WellFormed(received[d] \o inFlight[d])'
    BY <1>1 DEF StreamOf
  <2> HIDE DEF s
  <2>6. ASSUME Live(d) PROVE Whole(d, s)'
    <3>1. Len(s) = 1 /\ WellFormed(s) /\ Complete(s)
      BY <2>4, <2>6
    <3> QED BY <1>2, <2>1, <2>2, <2>3, <3>1 DEF Whole
  <2> QED BY <2>1, <2>5, <2>6 DEF StreamOf, s
<1> QED BY <1>3, <1>4

(* A new consumer's queue holds its header. *)
LEMMA CreatedStream ==
    ASSUME QueueType, NEW c \in Consumers, NEW d \in Consumers, StreamOf(d), WriterPlace(d), SubscribeCheck(c)
    PROVE  StreamOf(d)'
<1>1. /\ sub[c] = "new" /\ UNCHANGED <<received, inFlight, pendingDrop, due, pub, nextSeq, withheld, frame, todo>>
      /\ \/ sub' = [sub EXCEPT ![c] = "refused"] /\ UNCHANGED <<state, ring>>
         \/ /\ sub' = [sub EXCEPT ![c] = "created"] /\ state' = [state EXCEPT ![c] = "Open"]
            /\ ring' = [ring EXCEPT ![c] = <<Header>>]
  BY DEF SubscribeCheck, innerVars, transportVars, pubVars, otherVars
<1>2. NextFor(d)' = NextFor(d)
  BY <1>1, SameNext
<1>3. CASE d # c
  <2>1. sub'[d] = sub[d] /\ state'[d] = state[d] /\ ring'[d] = ring[d]
    BY <1>1, <1>3 DEF QueueType
  <2> QED BY <1>1, <1>2, <2>1, KeptStream DEF Live
<1>4. CASE d = c
  <2>1. received[d] = <<>> /\ inFlight[d] = <<>> /\ pendingDrop[d] = None /\ state[d] = "none"
    BY <1>1, <1>4 DEF WriterPlace
  <2>2. WellFormed(received[d] \o inFlight[d])'
    BY <1>1 DEF StreamOf
  <2>3. CASE state' = state
    BY <2>1, <2>2, <2>3 DEF StreamOf, Live
  <2>4. CASE sub'[d] = "created" /\ ring'[d] = <<Header>>
    <3> DEFINE s == Stream(d)
    <3>1. s' = ((<<>> \o <<>>) \o <<Header>>) \o <<>>
      BY <1>1, <2>1, <2>4 DEF Stream
    <3>2. <<Header>> \in Seq(Unit) /\ <<>> \in Seq(Unit)
      BY EmptySeq DEF Header, Unit
    <3>3. s' = <<Header>>
      BY <3>1, <3>2, ConcatEmptySeq
    <3>4. WellFormed(<<Header>>) /\ Complete(<<Header>>)
      BY DEF WellFormed, Complete, Header
    <3> HIDE DEF s
    <3>5. Whole(d, s)'
      BY <2>4, <3>3, <3>4 DEF Whole
    <3> QED BY <2>2, <3>5 DEF StreamOf, s
  <2> QED BY <1>1, <1>4, <2>3, <2>4 DEF QueueType
<1> QED BY <1>3, <1>4

LEMMA EmptyWellFormed == WellFormed(<<>>) /\ <<>> \o <<>> = <<>>
<1>1. <<>> \in Seq(Unit)
  BY EmptySeq
<1>2. Len(<<>>) = 0
  OBVIOUS
<1> QED BY <1>1, <1>2, ConcatEmptySeq DEF WellFormed

\* What a stream is made of, and the producer's number.
streamVars == <<sub, state, received, inFlight, ring, pendingDrop, due, pub, nextSeq, withheld, frame, todo>>

LEMMA StreamStep ==
    ASSUME QueueType, ProducerInv, FrameInv, Lists, [Next]_vars,
           NEW d \in Consumers, Membership(d), WriterPlace(d), StreamOf(d)
    PROVE  StreamOf(d)'
<1>0. CASE UNCHANGED streamVars
  <2>1. NextFor(d)' = NextFor(d)
    BY <1>0, SameNext DEF streamVars
  <2> QED BY <1>0, <2>1, KeptStream DEF streamVars, Live
<1>1. CASE UNCHANGED vars
  BY <1>0, <1>1 DEF vars, streamVars, consumerVars, innerVars, writerVars, pubVars, otherVars
<1>2. CASE Producing
  BY <1>2, ProducingStream
<1>3. CASE Offer /\ ~Producing
  <2>1. ASSUME NEW c \in Consumers, OfferSkips(c) \/ OfferEnqueues(c) \/ OfferDrops(c), d # c
        PROVE  StreamOf(d)'
    <3>1. /\ UNCHANGED <<sub, state, received, inFlight, due, pub, nextSeq, withheld, frame>>
          /\ todo' = todo \ {c}
          /\ ring' \in {ring, [ring EXCEPT ![c] = ring[c] \o Queued(c)]}
          /\ pendingDrop' \in {pendingDrop, [pendingDrop EXCEPT ![c] = None],
                               [pendingDrop EXCEPT ![c] = Dropping(pendingDrop[c])]}
      BY <2>1 DEF OfferSkips, OfferEnqueues, OfferDrops, Offering, otherVars, writerVars, innerVars, transportVars
    <3>2. ring'[d] = ring[d] /\ pendingDrop'[d] = pendingDrop[d]
      BY <2>1, <3>1 DEF QueueType
    <3>3. NextFor(d)' = NextFor(d)
      BY <2>1, <3>1, SameNext
    <3> QED BY <3>1, <3>2, <3>3, KeptStream DEF Live
  <2>2. CASE OfferSkips(d)
    <3>1. /\ UNCHANGED <<sub, state, received, inFlight, ring, pendingDrop, due>>
          /\ pub = "offer" /\ state[d] # "Open"
      BY <2>2 DEF OfferSkips, Offering, otherVars, writerVars, innerVars
    <3>2. ~Live(d)
      BY <3>1 DEF Live, Membership
    <3> QED BY <3>1, <3>2, KeptStream DEF Live
  <2>3. CASE OfferEnqueues(d) \/ OfferDrops(d)
    BY <2>3, EnqueuedStream, DroppedStream
  <2>4. ASSUME NEW c \in Consumers, OfferCloses(c) PROVE StreamOf(d)'
    <3>1. /\ Close(c, "publisher") /\ "publisher" \in Threads
          /\ UNCHANGED <<sub, received, inFlight, due, pub, nextSeq, withheld, frame, todo>>
      BY <2>4 DEF OfferCloses, writerVars, otherVars, Threads
    <3>2. NextFor(d)' = NextFor(d)
      BY <3>1, SameNext
    <3> QED BY <3>1, <3>2, ClosedStream
  <2> QED BY <1>3, <2>1, <2>2, <2>3, <2>4 DEF Offer, Producing
<1>4. CASE Finish /\ ~Producing
  <2>1. PICK c \in Consumers : FinishDrain(c)
    BY <1>4 DEF Finish, Producing
  <2>2. /\ pub = "drain" /\ UNCHANGED <<sub, received, inFlight, ring, pendingDrop, due, pub, nextSeq, withheld, frame>>
        /\ state' = IF state[c] = "Open" THEN [state EXCEPT ![c] = "Draining"] ELSE state
    BY <2>1 DEF FinishDrain, transportVars
  <2>3. Live(d)' => Live(d)
    BY <2>2 DEF Live, QueueType
  <2>4. NextFor(d)' = NextFor(d)
    BY <2>2, SameNext
  <2> QED BY <2>2, <2>3, <2>4, KeptStream
<1>5. CASE Watchdog
  <2>1. CASE WatchdogStops \/ WatchdogPrunes
    BY <1>0, <2>1 DEF WatchdogStops, WatchdogPrunes, streamVars, consumerVars, innerVars, writerVars, pubVars
  <2>2. ASSUME NEW c \in Consumers, WatchdogCloses(c) PROVE StreamOf(d)'
    <3>1. /\ Close(c, "watchdog") /\ "watchdog" \in Threads
          /\ UNCHANGED <<sub, received, inFlight, due, pub, nextSeq, withheld, frame, todo>>
      BY <2>2 DEF WatchdogCloses, writerVars, pubVars, Threads
    <3>2. NextFor(d)' = NextFor(d)
      BY <3>1, SameNext
    <3> QED BY <3>1, <3>2, ClosedStream
  <2> QED BY <1>5, <2>1, <2>2 DEF Watchdog
<1>6. CASE HandlePrunes
  BY <1>0, <1>6 DEF HandlePrunes, streamVars, consumerVars, innerVars, writerVars, pubVars
<1>7. ASSUME NEW c \in Consumers, SubscribeCheck(c) PROVE StreamOf(d)'
  BY <1>7, CreatedStream
<1>8. ASSUME NEW c \in Consumers, Subscriber(c) PROVE StreamOf(d)'
  <2>1. CASE SubscribeAdmit(c)
    BY <2>1, AdmittedStream
  <2>2. CASE SubscribeRefuse(c)
    <3>1. /\ UNCHANGED <<state, received, inFlight, ring, pendingDrop, due, pub, nextSeq, withheld, frame, todo>>
          /\ sub[c] = "created" /\ sub' = [sub EXCEPT ![c] = "refusing"]
      BY <2>2 DEF SubscribeRefuse, pubVars, writerVars, otherVars, innerVars
    <3>2. sub'[d] = "in" <=> sub[d] = "in"
      BY <3>1 DEF QueueType
    <3>3. NextFor(d)' = NextFor(d)
      BY <3>1, SameNext
    <3> QED BY <3>1, <3>2, <3>3, KeptStream DEF Live
  <2>3. CASE SubscribeClose(c)
    <3>1. /\ Close(c, "subscriber") /\ "subscriber" \in Threads
          /\ UNCHANGED <<received, inFlight, due, pub, nextSeq, withheld, frame, todo>>
          /\ sub' = [sub EXCEPT ![c] = "refused"]
      BY <2>3 DEF SubscribeClose, writerVars, pubVars, otherVars, Threads
    <3>2. NextFor(d)' = NextFor(d)
      BY <3>1, SameNext
    <3>3. d # c => sub'[d] = sub[d]
      BY <3>1 DEF QueueType
    <3> QED BY <3>1, <3>2, <3>3, ClosedStream
  <2> QED BY <1>8, <2>1, <2>2, <2>3 DEF Subscriber
<1>9. ASSUME NEW c \in Consumers, Closer(c) PROVE StreamOf(d)'
  BY <1>0, <1>9 DEF Closer, CloseFlag, CloseRunCloser, streamVars, pubVars, otherVars, innerVars, transportVars
<1>10. ASSUME NEW c \in Consumers, HandleCloses(c) PROVE StreamOf(d)'
  <2>1. /\ Close(c, "handle") /\ "handle" \in Threads
        /\ UNCHANGED <<sub, received, inFlight, due, pub, nextSeq, withheld, frame, todo>>
    BY <1>10 DEF HandleCloses, writerVars, pubVars, Threads
  <2>2. NextFor(d)' = NextFor(d)
    BY <2>1, SameNext
  <2> QED BY <2>1, <2>2, ClosedStream
<1>11. ASSUME NEW c \in Consumers, WriterRuns(c) \/ WriteDone(c), d # c PROVE StreamOf(d)'
  <2>1. /\ UNCHANGED <<sub, state, pub, nextSeq, withheld, frame, todo>>
        /\ \E q : received' \in {received, [received EXCEPT ![c] = q]}
        /\ \E q : inFlight' \in {inFlight, [inFlight EXCEPT ![c] = q]}
        /\ \E q : ring' \in {ring, [ring EXCEPT ![c] = q]}
        /\ pendingDrop' \in {pendingDrop, [pendingDrop EXCEPT ![c] = None]}
        /\ due' \in {due, [due EXCEPT ![c] = 0]}
    <3>1. CASE WriterReturns(c) \/ WriterWaits(c) \/ WriterFlushes(c) \/ WriterClosed(c)
      BY <3>1 DEF WriterReturns, WriterWaits, WriterFlushes, WriterTurn, WriterClosed, pubVars, otherVars, innerVars,
                  transportVars
    <3>2. CASE WriterPops(c)
      BY <3>2 DEF WriterPops, WriterTurn, pubVars, otherVars
    <3>3. CASE WriterLastMarker(c)
      BY <3>3 DEF WriterLastMarker, WriterTurn, pubVars, otherVars
    <3>4. CASE WriterDropsTransport(c)
      BY <3>4 DEF WriterDropsTransport, pubVars
    <3>5. CASE WriteDone(c)
      BY <3>5 DEF WriteDone, pubVars, otherVars, innerVars
    <3> QED BY <1>11, <3>1, <3>2, <3>3, <3>4, <3>5 DEF WriterRuns
  <2>2. /\ received'[d] = received[d] /\ inFlight'[d] = inFlight[d] /\ ring'[d] = ring[d]
        /\ pendingDrop'[d] = pendingDrop[d] /\ due'[d] = due[d]
    BY <1>11, <2>1 DEF QueueType
  <2>3. NextFor(d)' = NextFor(d)
    BY <2>1, SameNext
  <2> QED BY <2>1, <2>2, <2>3, KeptStream DEF Live
<1>12. CASE WriterRuns(d)
  <2>1. CASE WriterReturns(d) \/ WriterWaits(d) \/ WriterFlushes(d) \/ WriterClosed(d)
    BY <1>0, <2>1 DEF WriterReturns, WriterWaits, WriterFlushes, WriterTurn, WriterClosed, streamVars, pubVars,
                      otherVars, innerVars, transportVars
  <2>2. CASE WriterPops(d) \/ WriterLastMarker(d)
    BY <2>2, PoppedStream, LastMarkerStream
  <2>3. CASE WriterDropsTransport(d)
    <3>1. received'[d] = <<>> /\ inFlight'[d] = inFlight[d] /\ state'[d] = state[d] /\ writer[d] = "return"
      BY <2>3 DEF WriterDropsTransport, QueueType
    <3>2. inFlight[d] = <<>> /\ state[d] = "Closed"
      BY <3>1 DEF WriterPlace
    <3> QED BY <3>1, <3>2, EmptyWellFormed DEF StreamOf, Live
  <2> QED BY <1>12, <2>1, <2>2, <2>3 DEF WriterRuns
<1>13. CASE WriteDone(d)
  BY <1>13, DeliveredStream
<1>14. ASSUME NEW c \in Consumers, WriterCloses(c) PROVE StreamOf(d)'
  <2>1. /\ Close(c, "writer") /\ "writer" \in Threads /\ inFlight' = [inFlight EXCEPT ![c] = <<>>]
        /\ UNCHANGED <<sub, received, due, pub, nextSeq, withheld, frame, todo>>
    BY <1>14 DEF WriterCloses, pubVars, otherVars, Threads
  <2>2. NextFor(d)' = NextFor(d)
    BY <2>1, SameNext
  <2>3. CASE d # c
    <3>1. inFlight'[d] = inFlight[d]
      BY <2>1, <2>3 DEF QueueType
    <3> QED BY <2>1, <2>2, <2>3, <3>1, ClosedStream
  <2>4. CASE d = c
    <3>1. ~Live(d)'
      BY <2>1, <2>4, CloseEffect DEF Live
    <3>2. received[d] \in Seq(Unit) /\ inFlight[d] \in Seq(Unit)
      BY StreamParts
    <3>3. WellFormed(received[d]) /\ received[d] \o <<>> = received[d]
      BY <3>2, PrefixWellFormed, ConcatEmptySeq DEF StreamOf
    <3>4. (received[d] \o inFlight[d])' = received[d] \o <<>>
      BY <2>1, <2>4 DEF QueueType
    <3> QED BY <3>1, <3>3, <3>4 DEF StreamOf
  <2> QED BY <2>3, <2>4
<1> QED BY <1>1, <1>2, <1>3, <1>4, <1>5, <1>6, <1>7, <1>8, <1>9, <1>10, <1>11, <1>12, <1>13, <1>14
        DEF Next, Producing

----------------------------------------------------------------------------
(* The theorems *)

LEMMA PublisherInit == Init => PublisherInv /\ SleepersHaveNothingToDo
<1> SUFFICES ASSUME Init PROVE PublisherInv /\ SleepersHaveNothingToDo
  OBVIOUS
<1> USE DEF Init
<1>1. <<>> \in Seq(Unit) /\ None \in Run /\ [by |-> "nobody", step |-> "none"] \in Closing
  BY EmptySeq DEF None, Run, Closing, Threads
<1>2. QueueType
  BY <1>1 DEF QueueType
<1>3. ProducerInv /\ FrameInv /\ MembersInv /\ WriterInv
  BY <1>1 DEF ProducerInv, FrameInv, MembersInv, WriterInv, Live
<1>4. StreamsInv
  BY EmptyWellFormed DEF StreamsInv, StreamOf, Live
<1>5. SleepersHaveNothingToDo
  BY DEF SleepersHaveNothingToDo, Waiting
<1> QED BY <1>2, <1>3, <1>4, <1>5 DEF PublisherInv

LEMMA PublisherStep == PublisherInv /\ [Next]_vars => PublisherInv'
<1> SUFFICES ASSUME PublisherInv, [Next]_vars PROVE PublisherInv'
  OBVIOUS
<1>1. /\ QueueType /\ ProducerInv /\ FrameInv /\ Lists
      /\ \A d \in Consumers : Membership(d) /\ WriterPlace(d) /\ StreamOf(d)
  BY MembersSplit, WriterSplit DEF PublisherInv, StreamsInv
<1>2. QueueType' /\ ProducerInv' /\ FrameInv' /\ Lists'
  BY <1>1, TypeStep, ProducerStep, ListsStep
<1>3. ASSUME NEW d \in Consumers PROVE Membership(d)' /\ WriterPlace(d)' /\ StreamOf(d)'
  BY <1>1, MembershipStep, PlaceStep, StreamStep
<1>4. MembersInv'
  BY <1>2, <1>3 DEF MembersInv, Lists, Membership
<1>5. WriterInv'
  BY <1>3 DEF WriterInv, WriterPlace
<1>6. StreamsInv'
  BY <1>3 DEF StreamsInv
<1> QED BY <1>2, <1>4, <1>5, <1>6 DEF PublisherInv

LEMMA SleepersStep ==
    PublisherInv /\ SleepersHaveNothingToDo /\ [Next]_vars => SleepersHaveNothingToDo'
<1> SUFFICES ASSUME PublisherInv, SleepersHaveNothingToDo, [Next]_vars
             PROVE  SleepersHaveNothingToDo'
  OBVIOUS
<1>1. QueueType /\ FrameInv /\ \A d \in Consumers : Asleep(d)
  BY DEF PublisherInv, SleepersHaveNothingToDo, Asleep
<1>2. \A d \in Consumers : Asleep(d)'
  BY <1>1, SleepStep
<1> QED BY <1>2 DEF SleepersHaveNothingToDo, Asleep

(* The inductive invariant behind the two theorems that follow. *)
THEOREM PublisherInvariant == Spec => []PublisherInv
<1>1. Init => PublisherInv
  BY PublisherInit
<1> QED BY <1>1, PublisherStep, PTL DEF Spec

LEMMA InvGivesStreams == PublisherInv => StreamIsComplete
<1> SUFFICES ASSUME PublisherInv PROVE StreamIsComplete
  OBVIOUS
<1>1. QueueType /\ \A c \in Consumers : StreamOf(c)
  BY DEF PublisherInv, StreamsInv
<1>2. ASSUME NEW c \in Consumers, sub[c] = "in", state[c] \in {"Open", "Draining"}
      PROVE  LET s == Stream(c)
             IN  /\ s # <<>> /\ WellFormed(s)
                 /\ IF Len(s) = 1 THEN NextFor(c) <= due[c]
                    ELSE s[2].first <= due[c] /\ Last(s).last = NextFor(c) - 1
  BY <1>1, <1>2 DEF StreamOf, Live, Whole, Complete, Last
<1>3. ASSUME NEW c \in Consumers PROVE WellFormed(received[c])
  <2>1. received[c] \in Seq(Unit) /\ inFlight[c] \in Seq(Unit)
    BY <1>1, StreamParts
  <2> QED BY <1>1, <2>1, PrefixWellFormed DEF StreamOf
<1> QED BY <1>2, <1>3 DEF StreamIsComplete

(* No consumer loses a number it was promised: every number from its        *)
(* admission to the last one offered is in exactly one whole record or one  *)
(* drop marker, in order, whatever the queue, the transport, the list and   *)
(* the spectrum gate did in between.                                        *)
THEOREM StreamsAreComplete == Spec => []StreamIsComplete
<1> QED BY PublisherInvariant, InvGivesStreams, PTL

(* A writer sleeps on an open, empty queue, or its notify is on the way:    *)
(* notifying only the offer that finds the queue empty is enough.           *)
THEOREM SleepersAreIdle == Spec => []SleepersHaveNothingToDo
<1>1. Init => PublisherInv /\ SleepersHaveNothingToDo
  BY PublisherInit
<1>2. PublisherInv /\ SleepersHaveNothingToDo /\ [Next]_vars => (PublisherInv /\ SleepersHaveNothingToDo)'
  BY PublisherStep, SleepersStep
<1> QED BY <1>1, <1>2, PTL DEF Spec

=============================================================================
