------------------------- MODULE TransferPoolProofs -------------------------
(***************************************************************************)
(* Proofs about TransferPool for every number of buffers, every buffer and *)
(* transfer length and any number of transfers: no buffer is ever in two   *)
(* hands or lost, what the capture thread reads is one whole transfer, no  *)
(* wake-up is lost, and the pool implements TransferQueue.                 *)
(***************************************************************************)
EXTENDS TransferPool, SequenceTheorems, TLAPS

USE PoolAssumption

-----------------------------------------------------------------------------
(* The inductive invariant *)

Slots == 0..Buffers

IndexQueue == [slots : [Slots -> Indices], head : Slots, tail : Slots]

Stamps == [seq : Nat, offset : Nat, len : Nat]

TypeOK ==
  /\ free \in IndexQueue /\ filled \in IndexQueue
  /\ meta \in [Indices -> Stamps] /\ bytes \in [Indices -> Int]
  /\ next_seq \in Nat /\ next_offset \in Nat /\ dropped_samples \in Nat
  /\ waiter_lock \in {"none", "callback", "consumer"}
  /\ waiter \in BOOLEAN /\ token \in BOOLEAN
  /\ ppc \in {"idle", "popCheck", "popSlot", "popHead", "copy", "copying", "stamp",
              "pushCheck", "pushSlot", "pushTail", "wakeLock", "unpark"}
  /\ arriving \in Stamps \cup {None} /\ given \in Indices \cup {NoIndex}
  /\ cpc \in {"idle", "takeSlot", "takeHead", "takeMeta", "held", "dropSlot", "dropTail",
              "wait", "register", "waitCheck", "parked"}
  /\ index \in Indices \cup {NoIndex} /\ taken_meta \in Stamps \cup {None}

(* What each side knows of the queue it is popping or pushing, between its loads and stores. *)
StagesInv ==
  /\ arriving = None <=> ppc \in {"idle", "wakeLock", "unpark"}
  /\ ppc \in {"popSlot", "popHead"} => ~Empty(free)
  /\ ppc = "popHead" => given = free.slots[free.head]
  /\ ppc = "pushTail" => filled.slots[filled.tail] = given
  /\ cpc \in {"takeSlot", "takeHead"} => ~Empty(filled)
  /\ cpc = "takeHead" => index = filled.slots[filled.head]
  /\ cpc = "dropTail" => free.slots[free.tail] = index
  /\ (Writing => given \in Indices) /\ (Holding => index \in Indices)

(* No buffer is lost: the queues and the two hands hold Buffers of them together. *)
CountInv ==
  Length(free) + Length(filled) + (IF Writing THEN 1 ELSE 0) + (IF Holding THEN 1 ELSE 0)
    = Buffers

(* A buffer holds what its stamps say, from the callback's stores to the consumer's reads. *)
BuffersInv ==
  /\ ppc \in {"stamp", "pushCheck", "pushSlot", "pushTail"} => bytes[given] = arriving.seq
  /\ ppc \in {"pushCheck", "pushSlot", "pushTail"} =>
       meta[given] = [arriving EXCEPT !.len = Fitting(arriving.len)]
  /\ \A p \in Positions(filled) : bytes[filled.slots[p]] = meta[filled.slots[p]].seq
  /\ cpc = "takeMeta" => bytes[index] = meta[index].seq
  /\ TakenIsIntact

(* Who has the waiter lock, and that a consumer about to park has left its handle. *)
WaiterInv ==
  /\ waiter_lock = "consumer" <=> cpc = "register"
  /\ waiter_lock = "callback" <=> ppc = "unpark"
  /\ cpc \in {"waitCheck", "parked"} => waiter
  /\ NoLostWakeup

PoolInv == TypeOK /\ StagesInv /\ CountInv /\ OneHolder /\ BuffersInv /\ WaiterInv

-----------------------------------------------------------------------------
(* An index queue *)

(* Popping moves the head past the oldest position. *)
LEMMA PopQueue ==
  ASSUME NEW q \in IndexQueue, ~Empty(q)
  PROVE  /\ StoreHead(q) \in IndexQueue
         /\ StoreHead(q).slots = q.slots /\ StoreHead(q).tail = q.tail
         /\ q.head \in Positions(q)
         /\ Positions(StoreHead(q)) = Positions(q) \ {q.head}
         /\ Length(StoreHead(q)) = Length(q) - 1
<1>1. /\ StoreHead(q) = [slots |-> q.slots, head |-> Succ(q.head), tail |-> q.tail]
      /\ q.head \in 0..Buffers /\ q.tail \in 0..Buffers /\ Succ(q.head) \in 0..Buffers
      /\ q.head # q.tail
  BY DEF StoreHead, IndexQueue, Slots, Succ, Empty
<1>2. StoreHead(q) \in IndexQueue
  BY <1>1 DEF IndexQueue, Slots
<1>3. q.head \in Positions(q)
  BY <1>1 DEF Positions
<1>4. Positions(StoreHead(q)) = Positions(q) \ {q.head}
  BY <1>1 DEF Positions, Succ
<1>5. Length(StoreHead(q)) = Length(q) - 1
  BY <1>1 DEF Length, Succ
<1> QED BY <1>1, <1>2, <1>3, <1>4, <1>5

(* Pushing publishes the position the tail was at. *)
LEMMA PushQueue ==
  ASSUME NEW q \in IndexQueue, ~Full(q)
  PROVE  /\ StoreTail(q) \in IndexQueue
         /\ StoreTail(q).slots = q.slots /\ StoreTail(q).head = q.head
         /\ q.tail \notin Positions(q)
         /\ Positions(StoreTail(q)) = Positions(q) \cup {q.tail}
         /\ Length(StoreTail(q)) = Length(q) + 1
<1>1. /\ StoreTail(q) = [slots |-> q.slots, head |-> q.head, tail |-> Succ(q.tail)]
      /\ q.head \in 0..Buffers /\ q.tail \in 0..Buffers /\ Succ(q.tail) \in 0..Buffers
      /\ q.head # Succ(q.tail)
  BY DEF StoreTail, IndexQueue, Slots, Succ, Full
<1>2. StoreTail(q) \in IndexQueue
  BY <1>1 DEF IndexQueue, Slots
<1>3. q.tail \notin Positions(q)
  BY <1>1 DEF Positions
<1>4. Positions(StoreTail(q)) = Positions(q) \cup {q.tail}
  BY <1>1 DEF Positions, Succ
<1>5. Length(StoreTail(q)) = Length(q) + 1
  BY <1>1 DEF Length, Succ
<1> QED BY <1>1, <1>2, <1>3, <1>4, <1>5

(* A store into the tail's slot is outside what the queue holds. *)
LEMMA StoreQueue ==
  ASSUME NEW q \in IndexQueue, NEW value \in Indices
  PROVE  /\ StoreSlot(q, value) \in IndexQueue
         /\ StoreSlot(q, value).head = q.head /\ StoreSlot(q, value).tail = q.tail
         /\ StoreSlot(q, value).slots[q.tail] = value
         /\ \A p \in Slots : p # q.tail => StoreSlot(q, value).slots[p] = q.slots[p]
         /\ Positions(StoreSlot(q, value)) = Positions(q)
         /\ Length(StoreSlot(q, value)) = Length(q)
         /\ q.tail \notin Positions(q)
<1>1. /\ StoreSlot(q, value) =
           [slots |-> [q.slots EXCEPT ![q.tail] = value], head |-> q.head, tail |-> q.tail]
      /\ q.slots \in [Slots -> Indices] /\ q.tail \in 0..Buffers /\ q.head \in 0..Buffers
  <2>1. q.slots \in [Slots -> Indices] /\ q.tail \in 0..Buffers /\ q.head \in 0..Buffers
    BY DEF IndexQueue, Slots
  <2>2. q = [slots |-> q.slots, head |-> q.head, tail |-> q.tail]
    BY DEF IndexQueue
  <2> DEFINE stored == [q.slots EXCEPT ![q.tail] = value]
  <2>3. StoreSlot(q, value) = [q EXCEPT !.slots = stored]
    BY DEF StoreSlot
  <2> HIDE DEF stored
  <2>4. StoreSlot(q, value) = [slots |-> stored, head |-> q.head, tail |-> q.tail]
    BY <2>2, <2>3
  <2> QED BY <2>1, <2>4 DEF stored
<1>2. StoreSlot(q, value) \in IndexQueue
  BY <1>1 DEF IndexQueue, Slots
<1>3. /\ Positions(StoreSlot(q, value)) = Positions(q)
      /\ Length(StoreSlot(q, value)) = Length(q)
  BY <1>1 DEF Positions, Length
<1>4. q.tail \notin Positions(q)
  BY <1>1 DEF Positions
<1> QED BY <1>1, <1>2, <1>3, <1>4 DEF Slots

(* What its length says of it. *)
LEMMA QueueLength ==
  ASSUME NEW q \in IndexQueue
  PROVE  /\ Length(q) \in Nat
         /\ Length(q) = 0 <=> Empty(q)
         /\ Length(q) = Buffers <=> Full(q)
         /\ Length(q) <= Buffers
         /\ Positions(q) \subseteq Slots
         /\ q.slots \in [Slots -> Indices] /\ q.head \in Slots /\ q.tail \in Slots
<1>1. q.head \in 0..Buffers /\ q.tail \in 0..Buffers /\ q.slots \in [Slots -> Indices]
  BY DEF IndexQueue, Slots
<1>2. Positions(q) \subseteq Slots
  BY <1>1 DEF Positions, Slots
<1>3. /\ Length(q) \in Nat
      /\ Length(q) = 0 <=> Empty(q)
      /\ Length(q) <= Buffers
  BY <1>1 DEF Length, Empty
<1>4. Length(q) = Buffers <=> Full(q)
  BY <1>1 DEF Length, Full, Succ
<1> QED BY <1>1, <1>2, <1>3, <1>4 DEF Slots

-----------------------------------------------------------------------------
(* Types, stages and the count *)

(* Neither push is ever refused: there is a free position for the buffer in hand. *)
LEMMA RoomForHeld ==
  ASSUME TypeOK, CountInv
  PROVE  (Writing => ~Full(filled)) /\ (Holding => ~Full(free))
<1>1. /\ Length(free) \in Nat /\ Length(filled) \in Nat
      /\ Full(free) <=> Length(free) = Buffers
      /\ Full(filled) <=> Length(filled) = Buffers
  BY QueueLength DEF TypeOK
<1> QED BY <1>1 DEF CountInv

LEMMA FittingNat ==
  ASSUME NEW len \in Nat
  PROVE  Fitting(len) \in Nat
  BY DEF Fitting

LEMMA ArriveFacts ==
  ASSUME TypeOK, NEW len \in Lens, Arrive(len)
  PROVE  /\ ppc = "idle" /\ ppc' = "popCheck"
         /\ arriving' \in Stamps /\ arriving' # None /\ arriving'.seq = next_seq
         /\ arriving' = [seq |-> next_seq, offset |-> next_offset, len |-> len]
         /\ next_seq < MaxTransfers
         /\ next_seq' = next_seq + 1 /\ next_offset' = next_offset + len
         /\ UNCHANGED <<queues, buffers, dropped_samples, given, consumer, waiting>>
<1>1. /\ ppc = "idle" /\ ppc' = "popCheck" /\ next_seq < MaxTransfers
      /\ arriving' = [seq |-> next_seq, offset |-> next_offset, len |-> len]
      /\ next_seq' = next_seq + 1 /\ next_offset' = next_offset + len
      /\ UNCHANGED <<queues, buffers, dropped_samples, given, consumer, waiting>>
  BY DEF Arrive, ProducerGoes
<1>2. arriving' \in Stamps /\ arriving'.seq = next_seq /\ next_seq \in Nat
  BY <1>1 DEF TypeOK, Stamps
<1>3. arriving' # None
  BY <1>2 DEF None
<1> QED BY <1>1, <1>2, <1>3

LEMMA TypeStep ==
  ASSUME TypeOK, StagesInv, CountInv, [Next]_vars
  PROVE  TypeOK'
<1>r. (Writing => ~Full(filled)) /\ (Holding => ~Full(free))
  BY RoomForHeld
<1>h. NoIndex \notin Indices
  BY DEF NoIndex, Indices
<1>1. ASSUME NEW len \in Lens, Arrive(len) PROVE TypeOK'
  <2>1. /\ next_seq' \in Nat /\ next_offset' \in Nat
    BY <1>1, ArriveFacts DEF TypeOK
  <2> QED BY <1>1, <2>1, ArriveFacts DEF TypeOK, queues, buffers, consumer, waiting
<1>2. CASE DropTransfer
  <2>1. arriving # None /\ arriving.len \in Nat
    BY <1>2 DEF DropTransfer, ProducerGoes, StagesInv, TypeOK, Stamps
  <2>2. dropped_samples' \in Nat
    BY <1>2, <2>1 DEF DropTransfer, TypeOK
  <2> QED BY <1>2, <2>2 DEF DropTransfer, ProducerGoes, TypeOK, queues, buffers, consumer, waiting
<1>3. CASE PopFreeCheck \/ WakeSkip \/ WakeLock \/ Unpark
  BY <1>3 DEF PopFreeCheck, WakeSkip, WakeLock, Unpark, ProducerGoes, TypeOK,
              queues, buffers, consumer, waiting
<1>4. CASE PopFreeSlot
  <2>1. free.slots[free.head] \in Indices
    BY QueueLength DEF TypeOK
  <2> QED BY <1>4, <2>1 DEF PopFreeSlot, ProducerGoes, TypeOK, queues, buffers, consumer, waiting
<1>5. CASE PopFreeHead
  <2>1. StoreHead(free) \in IndexQueue
    BY <1>5, PopQueue DEF PopFreeHead, ProducerGoes, TypeOK, StagesInv
  <2> QED BY <1>5, <2>1 DEF PopFreeHead, ProducerGoes, TypeOK, buffers, consumer, waiting
<1>6. CASE CopyBegin \/ CopyEnd
  <2>1. CopyEnd => arriving.seq \in Nat
    BY DEF CopyEnd, ProducerGoes, StagesInv, TypeOK, Stamps
  <2>2. bytes' \in [Indices -> Int]
    BY <1>6, <2>1 DEF CopyBegin, CopyEnd, TypeOK, Torn
  <2> QED BY <1>6, <2>2 DEF CopyBegin, CopyEnd, ProducerGoes, TypeOK, queues, consumer, waiting
<1>7. CASE Stamp
  <2>1. arriving \in Stamps
    BY <1>7 DEF Stamp, ProducerGoes, StagesInv, TypeOK
  <2>2. [arriving EXCEPT !.len = Fitting(arriving.len)] \in Stamps
    BY <2>1, FittingNat DEF Stamps
  <2>3. meta' \in [Indices -> Stamps]
    BY <1>7, <2>2 DEF Stamp, TypeOK
  <2> QED BY <1>7, <2>3 DEF Stamp, ProducerGoes, TypeOK, queues, consumer, waiting
<1>8. CASE PushFilledCheck
  BY <1>8 DEF PushFilledCheck, TypeOK, queues, buffers, consumer, waiting
<1>9. CASE PushFilledSlot
  <2>1. given \in Indices
    BY <1>9 DEF PushFilledSlot, ProducerGoes, StagesInv, Writing
  <2>2. filled' \in IndexQueue
    BY <1>9, <2>1, StoreQueue DEF PushFilledSlot, TypeOK
  <2> QED BY <1>9, <2>2 DEF PushFilledSlot, ProducerGoes, TypeOK, buffers, consumer, waiting
<1>10. CASE PushFilledTail
  <2>1. filled' \in IndexQueue
    BY <1>10, <1>r, PushQueue DEF PushFilledTail, ProducerGoes, Writing, TypeOK
  <2> QED BY <1>10, <2>1 DEF PushFilledTail, ProducerGoes, TypeOK, buffers, consumer, waiting
<1>11. CASE TakeEmpty \/ TakeCheck \/ WaitLock \/ Register \/ WaitCheck \/ Unparked \/ ParkTimeout
  BY <1>11 DEF TakeEmpty, TakeCheck, WaitLock, Register, WaitCheck, Unparked, ParkTimeout,
               ConsumerGoes, TypeOK, queues, buffers, producer, waiting
<1>12. CASE TakeSlot
  <2>1. filled.slots[filled.head] \in Indices
    BY QueueLength DEF TypeOK
  <2> QED BY <1>12, <2>1 DEF TakeSlot, ConsumerGoes, TypeOK, queues, buffers, producer, waiting
<1>13. CASE TakeHead
  <2>1. StoreHead(filled) \in IndexQueue
    BY <1>13, PopQueue DEF TakeHead, ConsumerGoes, TypeOK, StagesInv
  <2> QED BY <1>13, <2>1 DEF TakeHead, ConsumerGoes, TypeOK, buffers, producer, waiting
<1>14. CASE TakeMeta
  <2>1. meta[index] \in Stamps
    BY <1>14 DEF TakeMeta, ConsumerGoes, StagesInv, Holding, TypeOK
  <2> QED BY <1>14, <2>1 DEF TakeMeta, ConsumerGoes, TypeOK, queues, buffers, producer, waiting
<1>15. CASE DropCheck
  BY <1>15 DEF DropCheck, TypeOK, queues, buffers, producer, waiting
<1>16. CASE DropSlot
  <2>1. index \in Indices
    BY <1>16 DEF DropSlot, ConsumerGoes, StagesInv, Holding
  <2>2. free' \in IndexQueue
    BY <1>16, <2>1, StoreQueue DEF DropSlot, TypeOK
  <2> QED BY <1>16, <2>2 DEF DropSlot, ConsumerGoes, TypeOK, buffers, producer, waiting
<1>17. CASE DropTail
  <2>1. free' \in IndexQueue
    BY <1>17, <1>r, PushQueue DEF DropTail, ConsumerGoes, Holding, TypeOK
  <2> QED BY <1>17, <2>1 DEF DropTail, ConsumerGoes, TypeOK, buffers, producer, waiting
<1>18. CASE UNCHANGED vars
  BY <1>18 DEF vars, queues, buffers, producer, consumer, waiting, TypeOK
<1> QED BY <1>1, <1>2, <1>3, <1>4, <1>5, <1>6, <1>7, <1>8, <1>9, <1>10, <1>11, <1>12, <1>13,
           <1>14, <1>15, <1>16, <1>17, <1>18 DEF Next, CallbackStep, ConsumerStep

LEMMA StagesStep ==
  ASSUME TypeOK, StagesInv, CountInv, [Next]_vars
  PROVE  StagesInv' /\ CountInv'
<1>r. (Writing => ~Full(filled)) /\ (Holding => ~Full(free))
  BY RoomForHeld
<1>l. Length(free) \in Nat /\ Length(filled) \in Nat
  BY QueueLength DEF TypeOK
<1>i. \A i \in Indices : i # NoIndex
  BY DEF Indices, NoIndex
<1> USE DEF Writing, Holding
<1>1. ASSUME NEW len \in Lens, Arrive(len) PROVE StagesInv' /\ CountInv'
  BY <1>1, ArriveFacts DEF StagesInv, CountInv, queues, buffers, consumer
<1>2. CASE DropTransfer
  BY <1>2 DEF DropTransfer, ProducerGoes, StagesInv, CountInv, queues, consumer
<1>3. CASE PopFreeCheck \/ WakeSkip \/ WakeLock \/ Unpark
  BY <1>3 DEF PopFreeCheck, WakeSkip, WakeLock, Unpark, ProducerGoes, StagesInv, CountInv,
              queues, consumer
<1>4. CASE PopFreeSlot
  BY <1>4 DEF PopFreeSlot, ProducerGoes, StagesInv, CountInv, queues, consumer
<1>5. CASE PopFreeHead
  <2>1. /\ ppc = "popHead" /\ ppc' = "copy" /\ free' = StoreHead(free)
        /\ UNCHANGED <<filled, arriving, given, consumer>>
    BY <1>5 DEF PopFreeHead, ProducerGoes
  <2>2. /\ free'.slots = free.slots /\ free'.tail = free.tail
        /\ Length(free') = Length(free) - 1
    BY <2>1, PopQueue DEF TypeOK, StagesInv
  <2>3. given \in Indices
    BY <2>1, QueueLength DEF StagesInv, TypeOK
  <2>4. CountInv'
    BY <2>1, <2>2, <1>l DEF CountInv, consumer
  <2>5. StagesInv'
    BY <2>1, <2>2, <2>3 DEF StagesInv, consumer
  <2> QED BY <2>4, <2>5
<1>6. CASE CopyBegin \/ CopyEnd \/ Stamp
  BY <1>6 DEF CopyBegin, CopyEnd, Stamp, ProducerGoes, StagesInv, CountInv, queues, consumer
<1>7. CASE PushFilledCheck
  <2>1. /\ ppc = "pushCheck" /\ ppc' = "pushSlot" /\ UNCHANGED <<queues, arriving, given, consumer>>
    BY <1>7, <1>r DEF PushFilledCheck
  <2> QED BY <2>1 DEF StagesInv, CountInv, queues, consumer
<1>8. CASE PushFilledSlot
  <2>1. /\ ppc = "pushSlot" /\ ppc' = "pushTail" /\ filled' = StoreSlot(filled, given)
        /\ UNCHANGED <<free, arriving, given, consumer>> /\ given \in Indices
    BY <1>8 DEF PushFilledSlot, ProducerGoes, StagesInv
  <2>2. /\ filled'.slots[filled'.tail] = given
        /\ filled'.head = filled.head /\ filled'.tail = filled.tail
        /\ \A q \in Slots : q # filled.tail => filled'.slots[q] = filled.slots[q]
        /\ Length(filled') = Length(filled)
    BY <2>1, StoreQueue DEF TypeOK
  <2>3. ~Empty(filled) => filled'.slots[filled'.head] = filled.slots[filled.head]
    BY <2>2, QueueLength DEF Empty, TypeOK
  <2>4. Empty(filled') <=> Empty(filled)
    BY <2>2 DEF Empty
  <2> QED BY <2>1, <2>2, <2>3, <2>4 DEF StagesInv, CountInv, consumer
<1>9. CASE PushFilledTail
  <2>1. /\ ppc = "pushTail" /\ ppc' = "wakeLock" /\ filled' = StoreTail(filled) /\ arriving' = None
        /\ UNCHANGED <<free, consumer>>
    BY <1>9 DEF PushFilledTail, ProducerGoes
  <2>2. /\ filled'.slots = filled.slots /\ filled'.head = filled.head
        /\ Length(filled') = Length(filled) + 1 /\ filled' \in IndexQueue
    BY <2>1, <1>r, PushQueue DEF TypeOK
  <2>3. ~Empty(filled')
    BY <2>2, <1>l, QueueLength
  <2>4. CountInv'
    BY <2>1, <2>2, <1>l DEF CountInv, consumer
  <2>5. StagesInv'
    BY <2>1, <2>2, <2>3 DEF StagesInv, consumer
  <2> QED BY <2>4, <2>5
<1>10. CASE TakeEmpty \/ TakeCheck \/ WaitLock \/ Register \/ WaitCheck \/ Unparked \/ ParkTimeout
  BY <1>10 DEF TakeEmpty, TakeCheck, WaitLock, Register, WaitCheck, Unparked, ParkTimeout,
               ConsumerGoes, StagesInv, CountInv, queues, producer
<1>11. CASE TakeSlot
  BY <1>11 DEF TakeSlot, ConsumerGoes, StagesInv, CountInv, queues, producer
<1>12. CASE TakeHead
  <2>1. /\ cpc = "takeHead" /\ cpc' = "takeMeta" /\ filled' = StoreHead(filled)
        /\ UNCHANGED <<free, producer, index>>
    BY <1>12 DEF TakeHead, ConsumerGoes
  <2>2. /\ filled'.slots = filled.slots /\ filled'.tail = filled.tail
        /\ Length(filled') = Length(filled) - 1
    BY <2>1, PopQueue DEF TypeOK, StagesInv
  <2>3. index \in Indices
    BY <2>1, QueueLength DEF StagesInv, TypeOK
  <2>4. CountInv'
    BY <2>1, <2>2, <1>l DEF CountInv, producer
  <2>5. StagesInv'
    BY <2>1, <2>2, <2>3 DEF StagesInv, producer
  <2> QED BY <2>4, <2>5
<1>13. CASE TakeMeta
  BY <1>13 DEF TakeMeta, ConsumerGoes, StagesInv, CountInv, queues, producer
<1>14. CASE DropCheck
  <2>1. /\ cpc = "held" /\ cpc' = "dropSlot" /\ UNCHANGED <<queues, producer, index>>
    BY <1>14, <1>r DEF DropCheck
  <2> QED BY <2>1 DEF StagesInv, CountInv, queues, producer
<1>15. CASE DropSlot
  <2>1. /\ cpc = "dropSlot" /\ cpc' = "dropTail" /\ free' = StoreSlot(free, index)
        /\ UNCHANGED <<filled, producer, index>> /\ index \in Indices
    BY <1>15 DEF DropSlot, ConsumerGoes, StagesInv
  <2>2. /\ free'.slots[free'.tail] = index
        /\ free'.head = free.head /\ free'.tail = free.tail
        /\ \A q \in Slots : q # free.tail => free'.slots[q] = free.slots[q]
        /\ Length(free') = Length(free)
    BY <2>1, StoreQueue DEF TypeOK
  <2>3. ~Empty(free) => free'.slots[free'.head] = free.slots[free.head]
    BY <2>2, QueueLength DEF Empty, TypeOK
  <2>4. Empty(free') <=> Empty(free)
    BY <2>2 DEF Empty
  <2> QED BY <2>1, <2>2, <2>3, <2>4 DEF StagesInv, CountInv, producer
<1>16. CASE DropTail
  <2>1. /\ cpc = "dropTail" /\ cpc' = "idle" /\ free' = StoreTail(free)
        /\ UNCHANGED <<filled, producer>>
    BY <1>16 DEF DropTail, ConsumerGoes
  <2>2. /\ free'.slots = free.slots /\ free'.head = free.head
        /\ Length(free') = Length(free) + 1 /\ free' \in IndexQueue
    BY <2>1, <1>r, PushQueue DEF TypeOK
  <2>3. ~Empty(free')
    BY <2>2, <1>l, QueueLength
  <2>4. CountInv'
    BY <2>1, <2>2, <1>l DEF CountInv, producer
  <2>5. StagesInv'
    BY <2>1, <2>2, <2>3 DEF StagesInv, producer
  <2> QED BY <2>4, <2>5
<1>17. CASE UNCHANGED vars
  BY <1>17 DEF vars, queues, buffers, producer, consumer, waiting, StagesInv, CountInv
<1> QED BY <1>1, <1>2, <1>3, <1>4, <1>5, <1>6, <1>7, <1>8, <1>9, <1>10, <1>11, <1>12, <1>13,
           <1>14, <1>15, <1>16, <1>17 DEF Next, CallbackStep, ConsumerStep

-----------------------------------------------------------------------------
(* One holder *)

(* A buffer that moves from the one place it was in to another is still in one place. *)
LEMMA OneMoves ==
  ASSUME OneHolder, NEW j \in Indices, NEW old, NEW new, old \in Places(j),
         \A i \in Indices : Places(i)' = IF i = j THEN (Places(i) \ {old}) \cup {new} ELSE Places(i)
  PROVE  OneHolder'
<1>1. Places(j) = {old}
  BY DEF OneHolder
<1>2. Places(j)' = {new}
  BY <1>1
<1>3. ASSUME NEW i \in Indices PROVE \E place \in Places(i)' : Places(i)' = {place}
  <2>1. CASE i = j
    BY <2>1, <1>2
  <2>2. CASE i # j
    BY <2>2 DEF OneHolder
  <2> QED BY <2>1, <2>2
<1> QED BY <1>3 DEF OneHolder

(* The queue positions a buffer is in. *)
At(q, i) == {p \in Positions(q) : q.slots[p] = i}

LEMMA PlacesAt ==
  ASSUME NEW i
  PROVE  Places(i) = {<<"free", p>> : p \in At(free, i)} \cup {<<"filled", p>> : p \in At(filled, i)}
                       \cup (IF Writing /\ given = i THEN {<<"callback", 0>>} ELSE {})
                       \cup (IF Holding /\ index = i THEN {<<"consumer", 0>>} ELSE {})
  BY DEF Places, At

LEMMA PopAt ==
  ASSUME NEW q \in IndexQueue, ~Empty(q), NEW i
  PROVE  At(StoreHead(q), i) = IF i = q.slots[q.head] THEN At(q, i) \ {q.head} ELSE At(q, i)
  BY PopQueue DEF At

LEMMA PushAt ==
  ASSUME NEW q \in IndexQueue, ~Full(q), NEW i
  PROVE  At(StoreTail(q), i) = IF i = q.slots[q.tail] THEN At(q, i) \cup {q.tail} ELSE At(q, i)
  BY PushQueue DEF At

LEMMA StoreAt ==
  ASSUME NEW q \in IndexQueue, NEW value \in Indices, NEW i
  PROVE  At(StoreSlot(q, value), i) = At(q, i)
<1>1. /\ Positions(StoreSlot(q, value)) = Positions(q)
      /\ \A p \in Positions(q) : StoreSlot(q, value).slots[p] = q.slots[p]
  <2>1. /\ Positions(StoreSlot(q, value)) = Positions(q) /\ q.tail \notin Positions(q)
        /\ \A p \in Slots : p # q.tail => StoreSlot(q, value).slots[p] = q.slots[p]
    BY StoreQueue
  <2>2. Positions(q) \subseteq Slots
    BY QueueLength
  <2> QED BY <2>1, <2>2
<1> QED BY <1>1 DEF At

LEMMA HolderStep ==
  ASSUME TypeOK, StagesInv, CountInv, OneHolder, [Next]_vars
  PROVE  OneHolder'
<1>r. (Writing => ~Full(filled)) /\ (Holding => ~Full(free))
  BY RoomForHeld
<1>p. \A i : Places(i)' = {<<"free", p>> : p \in At(free', i)} \cup {<<"filled", p>> : p \in At(filled', i)}
                       \cup (IF Writing' /\ given' = i THEN {<<"callback", 0>>} ELSE {})
                       \cup (IF Holding' /\ index' = i THEN {<<"consumer", 0>>} ELSE {})
  BY DEF Places, At, Positions
(* Nothing moves. *)
<1>k. ASSUME \A i \in Indices : At(free', i) = At(free, i) /\ At(filled', i) = At(filled, i),
             Writing' = Writing, Writing => given' = given,
             Holding' = Holding, Holding => index' = index
      PROVE  OneHolder'
  <2>1. \A i \in Indices : Places(i)' = Places(i)
    BY <1>k, <1>p, PlacesAt
  <2> QED BY <2>1 DEF OneHolder
<1>1. CASE \/ \E len \in Lens : Arrive(len)
           \/ DropTransfer \/ PopFreeCheck \/ PopFreeSlot \/ CopyBegin \/ CopyEnd \/ Stamp
           \/ WakeSkip \/ WakeLock \/ Unpark
  <2>1. /\ UNCHANGED <<queues, consumer>> /\ (Writing' <=> Writing) /\ (Writing => given' = given)
    BY <1>1 DEF Arrive, DropTransfer, PopFreeCheck, PopFreeSlot, CopyBegin, CopyEnd, Stamp,
                WakeSkip, WakeLock, Unpark, ProducerGoes, Writing
  <2> QED BY <1>k, <2>1 DEF queues, consumer, Holding, Writing
<1>2. CASE PushFilledCheck
  <2>1. /\ ppc = "pushCheck" /\ ppc' = "pushSlot" /\ UNCHANGED <<queues, given, consumer>>
    BY <1>2, <1>r DEF PushFilledCheck, Writing
  <2> QED BY <1>k, <2>1 DEF queues, consumer, Holding, Writing
<1>3. CASE \/ TakeEmpty \/ TakeCheck \/ TakeSlot \/ TakeMeta
           \/ WaitLock \/ Register \/ WaitCheck \/ Unparked \/ ParkTimeout
  <2>1. /\ UNCHANGED <<queues, producer>> /\ (Holding' <=> Holding) /\ (Holding => index' = index)
    BY <1>3 DEF TakeEmpty, TakeCheck, TakeSlot, TakeMeta, WaitLock, Register, WaitCheck, Unparked,
                ParkTimeout, ConsumerGoes, Holding
  <2> QED BY <1>k, <2>1 DEF queues, producer, Holding, Writing
<1>4. CASE DropCheck
  <2>1. /\ cpc = "held" /\ cpc' = "dropSlot" /\ UNCHANGED <<queues, producer, index>>
    BY <1>4, <1>r DEF DropCheck, Holding
  <2> QED BY <1>k, <2>1 DEF queues, producer, Holding, Writing
<1>5. CASE PushFilledSlot
  <2>1. /\ ppc = "pushSlot" /\ ppc' = "pushTail" /\ filled' = StoreSlot(filled, given)
        /\ UNCHANGED <<free, given, consumer>> /\ given \in Indices
    BY <1>5 DEF PushFilledSlot, ProducerGoes, StagesInv, Writing
  <2>2. \A i : At(filled', i) = At(filled, i)
    BY <2>1, StoreAt DEF TypeOK
  <2> QED BY <1>k, <2>1, <2>2 DEF consumer, Holding, Writing
<1>6. CASE DropSlot
  <2>1. /\ cpc = "dropSlot" /\ cpc' = "dropTail" /\ free' = StoreSlot(free, index)
        /\ UNCHANGED <<filled, index, producer>> /\ index \in Indices
    BY <1>6 DEF DropSlot, ConsumerGoes, StagesInv, Holding
  <2>2. \A i : At(free', i) = At(free, i)
    BY <2>1, StoreAt DEF TypeOK
  <2> QED BY <1>k, <2>1, <2>2 DEF producer, Holding, Writing
<1>7. CASE PopFreeHead
  <2>1. /\ ppc = "popHead" /\ ppc' = "copy" /\ free' = StoreHead(free) /\ ~Empty(free)
        /\ given = free.slots[free.head] /\ UNCHANGED <<filled, given, consumer>>
    BY <1>7 DEF PopFreeHead, ProducerGoes, StagesInv
  <2>2. given \in Indices /\ free.head \in At(free, given)
    BY <2>1, PopQueue, QueueLength DEF TypeOK, At
  <2>3. \A i : At(free', i) = IF i = given THEN At(free, i) \ {free.head} ELSE At(free, i)
    BY <2>1, PopAt DEF TypeOK
  <2>4. ~Writing /\ Writing' /\ given' = given /\ (Holding' <=> Holding) /\ index' = index
    BY <2>1 DEF Writing, Holding, consumer
  <2>5. \A i \in Indices :
          Places(i)' = IF i = given THEN (Places(i) \ {<<"free", free.head>>}) \cup {<<"callback", 0>>}
                       ELSE Places(i)
    <3>1. ASSUME NEW i \in Indices, i # given PROVE Places(i)' = Places(i)
      BY <1>p, <3>1, <2>1, <2>3, <2>4, PlacesAt
    <3>2. ASSUME NEW i \in Indices, i = given
          PROVE  Places(i)' = (Places(i) \ {<<"free", free.head>>}) \cup {<<"callback", 0>>}
      BY <1>p, <3>2, <2>1, <2>3, <2>4, PlacesAt
    <3> QED BY <3>1, <3>2
  <2>6. <<"free", free.head>> \in Places(given)
    BY <2>2, PlacesAt
  <2> QED BY <2>2, <2>5, <2>6, OneMoves
<1>8. CASE PushFilledTail
  <2>1. /\ ppc = "pushTail" /\ ppc' = "wakeLock" /\ filled' = StoreTail(filled)
        /\ filled.slots[filled.tail] = given /\ given \in Indices /\ ~Full(filled)
        /\ UNCHANGED <<free, consumer>>
    BY <1>8, <1>r DEF PushFilledTail, ProducerGoes, StagesInv, Writing
  <2>2. /\ \A i : At(filled', i) = IF i = given THEN At(filled, i) \cup {filled.tail} ELSE At(filled, i)
    BY <2>1, PushAt DEF TypeOK
  <2>3. Writing /\ ~Writing' /\ (Holding' <=> Holding) /\ index' = index
    BY <2>1 DEF Writing, Holding, consumer
  <2>4. \A i \in Indices :
          Places(i)' = IF i = given THEN (Places(i) \ {<<"callback", 0>>}) \cup {<<"filled", filled.tail>>}
                       ELSE Places(i)
    <3>1. ASSUME NEW i \in Indices, i # given PROVE Places(i)' = Places(i)
      BY <1>p, <3>1, <2>1, <2>2, <2>3, PlacesAt
    <3>2. ASSUME NEW i \in Indices, i = given
          PROVE  Places(i)' = (Places(i) \ {<<"callback", 0>>}) \cup {<<"filled", filled.tail>>}
      BY <1>p, <3>2, <2>1, <2>2, <2>3, PlacesAt
    <3> QED BY <3>1, <3>2
  <2>5. <<"callback", 0>> \in Places(given)
    BY <2>3, PlacesAt
  <2> QED BY <2>1, <2>4, <2>5, OneMoves
<1>9. CASE TakeHead
  <2>1. /\ cpc = "takeHead" /\ cpc' = "takeMeta" /\ filled' = StoreHead(filled) /\ ~Empty(filled)
        /\ index = filled.slots[filled.head] /\ UNCHANGED <<free, index, producer>>
    BY <1>9 DEF TakeHead, ConsumerGoes, StagesInv
  <2>2. index \in Indices /\ filled.head \in At(filled, index)
    BY <2>1, PopQueue, QueueLength DEF TypeOK, At
  <2>3. \A i : At(filled', i) = IF i = index THEN At(filled, i) \ {filled.head} ELSE At(filled, i)
    BY <2>1, PopAt DEF TypeOK
  <2>4. ~Holding /\ Holding' /\ index' = index /\ (Writing' <=> Writing) /\ given' = given
    BY <2>1 DEF Writing, Holding, producer
  <2>5. \A i \in Indices :
          Places(i)' = IF i = index THEN (Places(i) \ {<<"filled", filled.head>>}) \cup {<<"consumer", 0>>}
                       ELSE Places(i)
    <3>1. ASSUME NEW i \in Indices, i # index PROVE Places(i)' = Places(i)
      BY <1>p, <3>1, <2>1, <2>3, <2>4, PlacesAt
    <3>2. ASSUME NEW i \in Indices, i = index
          PROVE  Places(i)' = (Places(i) \ {<<"filled", filled.head>>}) \cup {<<"consumer", 0>>}
      BY <1>p, <3>2, <2>1, <2>3, <2>4, PlacesAt
    <3> QED BY <3>1, <3>2
  <2>6. <<"filled", filled.head>> \in Places(index)
    BY <2>2, PlacesAt
  <2> QED BY <2>2, <2>5, <2>6, OneMoves
<1>10. CASE DropTail
  <2>1. /\ cpc = "dropTail" /\ cpc' = "idle" /\ free' = StoreTail(free)
        /\ free.slots[free.tail] = index /\ index \in Indices /\ ~Full(free)
        /\ UNCHANGED <<filled, producer>>
    BY <1>10, <1>r DEF DropTail, ConsumerGoes, StagesInv, Holding
  <2>2. /\ \A i : At(free', i) = IF i = index THEN At(free, i) \cup {free.tail} ELSE At(free, i)
    BY <2>1, PushAt DEF TypeOK
  <2>3. Holding /\ ~Holding' /\ (Writing' <=> Writing) /\ given' = given
    BY <2>1 DEF Writing, Holding, producer
  <2>4. \A i \in Indices :
          Places(i)' = IF i = index THEN (Places(i) \ {<<"consumer", 0>>}) \cup {<<"free", free.tail>>}
                       ELSE Places(i)
    <3>1. ASSUME NEW i \in Indices, i # index PROVE Places(i)' = Places(i)
      BY <1>p, <3>1, <2>1, <2>2, <2>3, PlacesAt
    <3>2. ASSUME NEW i \in Indices, i = index
          PROVE  Places(i)' = (Places(i) \ {<<"consumer", 0>>}) \cup {<<"free", free.tail>>}
      BY <1>p, <3>2, <2>1, <2>2, <2>3, PlacesAt
    <3> QED BY <3>1, <3>2
  <2>5. <<"consumer", 0>> \in Places(index)
    BY <2>3, PlacesAt
  <2> QED BY <2>1, <2>4, <2>5, OneMoves
<1>11. CASE UNCHANGED vars
  BY <1>11, <1>k DEF vars, queues, producer, consumer, Writing, Holding
<1> QED BY <1>1, <1>2, <1>3, <1>4, <1>5, <1>6, <1>7, <1>8, <1>9, <1>10, <1>11
        DEF Next, CallbackStep, ConsumerStep

-----------------------------------------------------------------------------
(* The buffers *)

(* The buffer the callback writes is neither waiting nor in the consumer's hands. *)
LEMMA WrittenApart ==
  ASSUME TypeOK, StagesInv, OneHolder, Writing
  PROVE  /\ given \in Indices
         /\ \A p \in Positions(filled) : filled.slots[p] # given
         /\ Holding => index # given
<1>1. given \in Indices
  BY DEF StagesInv
<1>2. \E place \in Places(given) : Places(given) = {place}
  BY <1>1 DEF OneHolder
<1>3. <<"callback", 0>> \in Places(given)
  BY PlacesAt
<1>4. ASSUME NEW p \in Positions(filled), filled.slots[p] = given PROVE FALSE
  <2>1. <<"filled", p>> \in Places(given)
    BY <1>4, PlacesAt DEF At
  <2>2. <<"filled", p>> # <<"callback", 0>>
    OBVIOUS
  <2> QED BY <1>2, <1>3, <2>1, <2>2
<1>5. ASSUME Holding, index = given PROVE FALSE
  <2>1. <<"consumer", 0>> \in Places(given)
    BY <1>5, PlacesAt
  <2>2. <<"consumer", 0>> # <<"callback", 0>>
    OBVIOUS
  <2> QED BY <1>2, <1>3, <2>1, <2>2
<1> QED BY <1>1, <1>4, <1>5

LEMMA BuffersStep ==
  ASSUME TypeOK, StagesInv, CountInv, OneHolder, BuffersInv, [Next]_vars
  PROVE  BuffersInv'
<1>r. (Writing => ~Full(filled)) /\ (Holding => ~Full(free))
  BY RoomForHeld
<1>t. /\ meta \in [Indices -> Stamps] /\ bytes \in [Indices -> Int]
      /\ \A p \in Positions(filled) : p \in Slots /\ filled.slots[p] \in Indices
  BY QueueLength DEF TypeOK
<1>w. Writing => /\ given \in Indices
                 /\ \A p \in Positions(filled) : filled.slots[p] # given
                 /\ Holding => index # given
  BY WrittenApart
<1>h. Holding => index \in Indices
  BY DEF StagesInv
<1> USE DEF BuffersInv, TakenIsIntact
(* The callback's steps that leave the buffers alone. *)
<1>k. ASSUME UNCHANGED <<filled, buffers, consumer>>,
             \/ /\ ppc' \in {"stamp", "pushCheck", "pushSlot", "pushTail"}
                /\ ppc \in {"pushCheck", "pushSlot", "pushTail"}
                /\ UNCHANGED <<given, arriving>>
             \/ ppc' \notin {"stamp", "pushCheck", "pushSlot", "pushTail"}
      PROVE  BuffersInv'
  BY <1>k DEF buffers, consumer, Positions
<1>1. CASE \/ \E len \in Lens : Arrive(len)
           \/ DropTransfer \/ PopFreeCheck \/ PopFreeSlot \/ PopFreeHead \/ PushFilledCheck
           \/ WakeSkip \/ WakeLock \/ Unpark
  <2>1. CASE PushFilledCheck
    BY <1>k, <2>1, <1>r DEF PushFilledCheck, Writing, queues
  <2>2. CASE ~PushFilledCheck
    BY <1>1, <1>k, <2>2 DEF Arrive, DropTransfer, PopFreeCheck, PopFreeSlot, PopFreeHead,
         WakeSkip, WakeLock, Unpark, ProducerGoes, queues
  <2> QED BY <2>1, <2>2
(* A store into the buffer in the callback's hands. *)
<1>2. CASE CopyBegin \/ CopyEnd \/ Stamp
  <2>1. /\ Writing /\ UNCHANGED <<filled, arriving, given, consumer>>
    BY <1>2 DEF CopyBegin, CopyEnd, Stamp, ProducerGoes, Writing, queues
  <2>2. /\ \A i \in Indices : i # given => bytes'[i] = bytes[i] /\ meta'[i] = meta[i]
    BY <1>2, <1>t DEF CopyBegin, CopyEnd, Stamp
  <2>3. \A q \in Positions(filled)' : bytes'[filled'.slots[q]] = meta'[filled'.slots[q]].seq
    BY <2>1, <2>2, <1>t, <1>w DEF Positions
  <2>4. /\ cpc' = "takeMeta" => bytes'[index'] = meta'[index'].seq
        /\ cpc' \in {"held", "dropSlot", "dropTail"} =>
             bytes'[index'] = taken_meta'.seq /\ meta'[index'] = taken_meta'
    BY <2>1, <2>2, <1>w, <1>h DEF consumer, Holding
  <2>5. /\ ppc' \in {"stamp", "pushCheck", "pushSlot", "pushTail"} => bytes'[given'] = arriving'.seq
        /\ ppc' \in {"pushCheck", "pushSlot", "pushTail"} =>
             meta'[given'] = [arriving' EXCEPT !.len = Fitting(arriving'.len)]
    BY <1>2, <2>1, <1>w, <1>t DEF CopyBegin, CopyEnd, Stamp, ProducerGoes
  <2> QED BY <2>3, <2>4, <2>5
<1>3. CASE PushFilledSlot
  <2>1. /\ ppc = "pushSlot" /\ ppc' = "pushTail" /\ filled' = StoreSlot(filled, given)
        /\ UNCHANGED <<buffers, given, arriving, consumer>> /\ given \in Indices
    BY <1>3 DEF PushFilledSlot, ProducerGoes, StagesInv, Writing
  <2>2. /\ Positions(filled') = Positions(filled) /\ filled.tail \notin Positions(filled)
        /\ \A q \in Slots : q # filled.tail => filled'.slots[q] = filled.slots[q]
    BY <2>1, StoreQueue DEF TypeOK
  <2>3. \A q \in Positions(filled') : bytes'[filled'.slots[q]] = meta'[filled'.slots[q]].seq
    BY <2>1, <2>2, <1>t DEF buffers
  <2> QED BY <2>1, <2>3 DEF buffers, consumer
<1>4. CASE PushFilledTail
  <2>1. /\ ppc = "pushTail" /\ ppc' = "wakeLock" /\ filled' = StoreTail(filled)
        /\ filled.slots[filled.tail] = given /\ ~Full(filled)
        /\ UNCHANGED <<buffers, consumer>>
    BY <1>4, <1>r DEF PushFilledTail, ProducerGoes, StagesInv, Writing
  <2>2. /\ Positions(filled') = Positions(filled) \cup {filled.tail}
        /\ filled'.slots = filled.slots
    BY <2>1, PushQueue DEF TypeOK
  <2>3. arriving \in Stamps
    BY <2>1 DEF StagesInv, TypeOK
  <2>4. bytes[given] = meta[given].seq
    <3>1. bytes[given] = arriving.seq /\ meta[given] = [arriving EXCEPT !.len = Fitting(arriving.len)]
      BY <2>1
    <3> QED BY <2>3, <3>1 DEF Stamps
  <2>5. \A q \in Positions(filled') : bytes'[filled'.slots[q]] = meta'[filled'.slots[q]].seq
    BY <2>1, <2>2, <2>4 DEF buffers
  <2> QED BY <2>1, <2>5 DEF buffers, consumer
(* The consumer's steps that pop nothing. *)
<1>5. CASE \/ TakeEmpty \/ TakeCheck \/ TakeSlot \/ DropCheck \/ DropSlot \/ DropTail
           \/ WaitLock \/ Register \/ WaitCheck \/ Unparked \/ ParkTimeout
  <2>1. /\ UNCHANGED <<filled, buffers, producer>>
        /\ \/ cpc \in {"held", "dropSlot", "dropTail"} /\ cpc' \in {"dropSlot", "dropTail"}
              /\ UNCHANGED <<index, taken_meta>>
           \/ cpc' \notin {"takeMeta", "held", "dropSlot", "dropTail"}
    BY <1>5 DEF TakeEmpty, TakeCheck, TakeSlot, DropCheck, DropSlot, DropTail,
         WaitLock, Register, WaitCheck, Unparked, ParkTimeout, ConsumerGoes, queues
  <2> QED BY <2>1 DEF buffers, producer, Positions
<1>6. CASE TakeHead
  <2>1. /\ cpc = "takeHead" /\ cpc' = "takeMeta" /\ filled' = StoreHead(filled) /\ ~Empty(filled)
        /\ index = filled.slots[filled.head] /\ UNCHANGED <<index, buffers, producer>>
    BY <1>6 DEF TakeHead, ConsumerGoes, StagesInv
  <2>2. /\ Positions(filled') \subseteq Positions(filled) /\ filled.head \in Positions(filled)
        /\ filled'.slots = filled.slots
    BY <2>1, PopQueue DEF TypeOK
  <2>3. \A q \in Positions(filled') : bytes'[filled'.slots[q]] = meta'[filled'.slots[q]].seq
    BY <2>1, <2>2 DEF buffers
  <2> QED BY <2>1, <2>2, <2>3 DEF buffers, producer
<1>7. CASE TakeMeta
  <2>1. /\ cpc = "takeMeta" /\ cpc' = "held" /\ taken_meta' = meta[index]
        /\ UNCHANGED <<filled, buffers, producer, index>>
    BY <1>7 DEF TakeMeta, ConsumerGoes, queues
  <2> QED BY <2>1 DEF buffers, producer, Positions
<1>8. CASE UNCHANGED vars
  BY <1>8 DEF vars, queues, buffers, producer, consumer, Positions
<1> QED BY <1>1, <1>2, <1>3, <1>4, <1>5, <1>6, <1>7, <1>8 DEF Next, CallbackStep, ConsumerStep

-----------------------------------------------------------------------------
(* The waiter *)

LEMMA WaiterStep ==
  ASSUME TypeOK, StagesInv, CountInv, WaiterInv, [Next]_vars
  PROVE  WaiterInv'
<1>r. Writing => ~Full(filled)
  BY RoomForHeld
<1>l. Length(filled) = 0 => Empty(filled)
  BY QueueLength DEF TypeOK
<1>t. /\ waiter \in BOOLEAN /\ token \in BOOLEAN
      /\ waiter_lock \in {"none", "callback", "consumer"}
  BY DEF TypeOK
<1> USE DEF WaiterInv, NoLostWakeup
<1>1. CASE \/ \E len \in Lens : Arrive(len)
           \/ DropTransfer \/ PopFreeCheck \/ PopFreeSlot \/ PopFreeHead \/ CopyBegin \/ CopyEnd
           \/ Stamp
  <2>1. /\ UNCHANGED <<filled, consumer, waiting>> /\ ppc \notin {"wakeLock", "unpark"} /\ ppc' # "unpark"
    BY <1>1 DEF Arrive, DropTransfer, PopFreeCheck, PopFreeSlot, PopFreeHead, CopyBegin, CopyEnd,
         Stamp, ProducerGoes, queues
  <2> QED BY <2>1 DEF consumer, waiting, Empty
<1>2. CASE PushFilledCheck \/ PushFilledSlot
  <2>1. /\ UNCHANGED <<consumer, waiting>> /\ ppc \notin {"wakeLock", "unpark"} /\ ppc' # "unpark"
        /\ filled'.head = filled.head /\ filled'.tail = filled.tail
    <3>1. CASE PushFilledCheck
      BY <3>1, <1>r DEF PushFilledCheck, Writing, queues
    <3>2. CASE PushFilledSlot
      <4>1. given \in Indices
        BY <3>2 DEF PushFilledSlot, ProducerGoes, StagesInv, Writing
      <4> QED BY <3>2, <4>1, StoreQueue DEF PushFilledSlot, ProducerGoes, TypeOK
    <3> QED BY <1>2, <3>1, <3>2
  <2> QED BY <2>1 DEF consumer, waiting, Empty
<1>3. CASE PushFilledTail
  BY <1>3 DEF PushFilledTail, ProducerGoes, consumer, waiting
<1>4. CASE WakeSkip \/ WakeLock
  BY <1>4, <1>t DEF WakeSkip, WakeLock, ProducerGoes, queues, consumer, waiting, Empty
<1>5. CASE Unpark
  BY <1>5, <1>t DEF Unpark, ProducerGoes, queues, consumer, Empty
<1>6. CASE \/ TakeEmpty \/ TakeCheck \/ TakeSlot \/ TakeHead \/ TakeMeta
           \/ DropCheck \/ DropSlot \/ DropTail \/ WaitLock \/ Register
  BY <1>6 DEF TakeEmpty, TakeCheck, TakeSlot, TakeHead, TakeMeta, DropCheck, DropSlot, DropTail,
       WaitLock, Register, ConsumerGoes, producer, waiting
<1>7. CASE WaitCheck
  BY <1>7, <1>l DEF WaitCheck, queues, producer, waiting, Empty
<1>8. CASE Unparked \/ ParkTimeout
  BY <1>8 DEF Unparked, ParkTimeout, ConsumerGoes, producer, waiting
<1>9. CASE UNCHANGED vars
  BY <1>9 DEF vars, queues, producer, consumer, waiting, Empty
<1> QED BY <1>1, <1>2, <1>3, <1>4, <1>5, <1>6, <1>7, <1>8, <1>9 DEF Next, CallbackStep, ConsumerStep

-----------------------------------------------------------------------------
(* The invariant *)

LEMMA PoolInit == Init => PoolInv
<1> SUFFICES ASSUME Init PROVE PoolInv
  OBVIOUS
<1>q. /\ free = [slots |-> [p \in Slots |-> IF p < Buffers THEN p ELSE 0], head |-> 0, tail |-> Buffers]
      /\ filled = [slots |-> [p \in Slots |-> 0], head |-> 0, tail |-> 0]
      /\ ppc = "idle" /\ cpc = "idle"
  BY DEF Init, Slots
<1>1. TypeOK
  <2>1. free \in IndexQueue /\ filled \in IndexQueue
    BY <1>q DEF IndexQueue, Slots, Indices
  <2>2. meta \in [Indices -> Stamps] /\ bytes \in [Indices -> Int]
    BY DEF Init, Stamps
  <2> QED BY <2>1, <2>2 DEF Init, TypeOK
<1>2. StagesInv
  BY DEF Init, StagesInv, Writing, Holding
<1>3. CountInv
  BY <1>q DEF CountInv, Length, Writing, Holding
<1>4. OneHolder
  <2>1. Positions(free) = Indices /\ Positions(filled) = {}
    BY <1>q DEF Positions, Indices
  <2>2. ASSUME NEW i \in Indices PROVE \E place \in Places(i) : Places(i) = {place}
    <3>0. \A p \in Indices : free.slots[p] = p
      BY <1>q DEF Indices, Slots
    <3>1. At(free, i) = {i} /\ At(filled, i) = {}
      BY <2>1, <3>0 DEF At
    <3>2. Places(i) = {<<"free", i>>}
      BY <1>q, <3>1, PlacesAt DEF Writing, Holding
    <3> QED BY <3>2
  <2> QED BY <2>2 DEF OneHolder
<1>5. BuffersInv
  BY <1>q DEF BuffersInv, TakenIsIntact, Positions
<1>6. WaiterInv
  BY DEF Init, WaiterInv, NoLostWakeup
<1> QED BY <1>1, <1>2, <1>3, <1>4, <1>5, <1>6 DEF PoolInv

LEMMA PoolStep == PoolInv /\ [Next]_vars => PoolInv'
  BY TypeStep, StagesStep, HolderStep, BuffersStep, WaiterStep DEF PoolInv

(* The inductive invariant of the pool. *)
THEOREM PoolInvariant == Spec => []PoolInv
  BY PoolInit, PoolStep, PTL DEF Spec

(* Every buffer is in one place, for any number of buffers: the two threads never touch a    *)
(* buffer's bytes at once, and no buffer is lost however they interleave.                    *)
THEOREM EveryBufferHasOneHolder == Spec => []OneHolder
  BY PoolInvariant, PTL DEF PoolInv

(* Neither queue refuses a push: the debug assertion of on_transfer, and the index that a    *)
(* refused push in Taken's drop would lose for good.                                         *)
THEOREM PushesNeverRefused ==
  Spec => []((ppc = "pushCheck" => ~Full(filled)) /\ (cpc = "held" => ~Full(free)))
<1>1. PoolInv => (ppc = "pushCheck" => ~Full(filled)) /\ (cpc = "held" => ~Full(free))
  BY RoomForHeld DEF PoolInv, Writing, Holding
<1> QED BY <1>1, PoolInvariant, PTL

(* What the capture thread holds is one transfer's samples under its own stamps, whole. *)
THEOREM TakenTransfersAreWhole == Spec => []TakenIsIntact
<1>1. PoolInv => TakenIsIntact
  BY DEF PoolInv, BuffersInv
<1> QED BY <1>1, PoolInvariant, PTL

(* A consumer parked on a non-empty queue has its wake-up on the way. *)
THEOREM WakeupsAreNotLost == Spec => []NoLostWakeup
<1>1. PoolInv => NoLostWakeup
  BY DEF PoolInv, WaiterInv
<1> QED BY <1>1, PoolInvariant, PTL

-----------------------------------------------------------------------------
(* The pool is the abstract queue *)

(* The abstract queue's variables, as Queue's substitution reads them off the pool. *)
Arriving ==
  IF arriving = None THEN None
  ELSE [seq |-> arriving.seq, offset |-> arriving.offset, len |-> arriving.len, data |-> arriving.seq]

Popping == ppc \in {"popSlot", "popHead"}

FreeCount == Length(free) - (IF Popping THEN 1 ELSE 0)

Queued == [n \in 1..Length(filled) |-> Content(filled.slots[NthOf(filled, n - 1)])]

TakenNow == IF Holding THEN Content(index) ELSE None

View == <<next_seq, next_offset, Arriving, Writing \/ Popping, FreeCount, Queued, TakenNow, dropped_samples>>

LEMMA ViewIs == Queue!queueVars = View
  BY DEF Queue!queueVars, View, Arriving, Popping, FreeCount, Queued, TakenNow

(* The n-th position of a queue, and what popping and pushing do to it. *)
LEMMA NthPosition ==
  ASSUME NEW q \in IndexQueue
  PROVE  /\ \A n \in 1..Length(q) : NthOf(q, n - 1) \in Positions(q)
         /\ ~Empty(q) => /\ NthOf(q, 0) = q.head
                         /\ \A n \in 1..(Length(q) - 1) : NthOf(StoreHead(q), n - 1) = NthOf(q, n)
         /\ ~Full(q) => /\ NthOf(StoreTail(q), Length(q)) = q.tail
                        /\ \A n \in 1..Length(q) : NthOf(StoreTail(q), n - 1) = NthOf(q, n - 1)
<1>1. q.head \in 0..Buffers /\ q.tail \in 0..Buffers /\ Buffers \in Nat
  BY DEF IndexQueue, Slots
<1>2. ASSUME NEW n \in 1..Length(q) PROVE NthOf(q, n - 1) \in Positions(q)
  BY <1>1 DEF NthOf, Positions, Length
<1>3. ASSUME ~Empty(q)
      PROVE  /\ NthOf(q, 0) = q.head
             /\ \A n \in 1..(Length(q) - 1) : NthOf(StoreHead(q), n - 1) = NthOf(q, n)
  <2>1. StoreHead(q).head = Succ(q.head)
    BY DEF StoreHead, IndexQueue
  <2>2. NthOf(q, 0) = q.head
    BY <1>1 DEF NthOf
  <2>3. ASSUME NEW n \in 1..(Length(q) - 1) PROVE NthOf(StoreHead(q), n - 1) = NthOf(q, n)
    BY <1>1, <2>1 DEF NthOf, Succ, Length
  <2> QED BY <2>2, <2>3
<1>4. ASSUME ~Full(q)
      PROVE  /\ NthOf(StoreTail(q), Length(q)) = q.tail
             /\ \A n \in 1..Length(q) : NthOf(StoreTail(q), n - 1) = NthOf(q, n - 1)
  <2>1. StoreTail(q).head = q.head
    BY <1>4, PushQueue
  <2>2. NthOf(StoreTail(q), Length(q)) = q.tail
    BY <1>1, <2>1 DEF NthOf, Length
  <2> QED BY <2>1, <2>2 DEF NthOf
<1> QED BY <1>2, <1>3, <1>4

(* What waits is unchanged where neither the waiting positions nor their buffers are touched. *)
LEMMA QueuedKept ==
  ASSUME TypeOK, filled'.head = filled.head, filled'.tail = filled.tail,
         \A p \in Positions(filled) : /\ filled'.slots[p] = filled.slots[p]
                                      /\ bytes'[filled.slots[p]] = bytes[filled.slots[p]]
                                      /\ meta'[filled.slots[p]] = meta[filled.slots[p]]
  PROVE  Queued' = Queued
<1>1. Length(filled') = Length(filled) /\ \A n : NthOf(filled', n) = NthOf(filled, n)
  BY DEF Length, NthOf
<1>2. ASSUME NEW n \in 1..Length(filled)
      PROVE  Content(filled.slots[NthOf(filled, n - 1)])' = Content(filled.slots[NthOf(filled, n - 1)])
  <2>1. NthOf(filled, n - 1) \in Positions(filled)
    BY NthPosition DEF TypeOK
  <2> QED BY <1>1, <2>1 DEF Content
<1> QED BY <1>1, <1>2 DEF Queued

LEMMA QueuedIsSeq ==
  ASSUME TypeOK
  PROVE  Queued \in Seq({Content(i) : i \in Indices}) /\ Len(Queued) = Length(filled)
<1>1. ASSUME NEW n \in 1..Length(filled)
      PROVE  filled.slots[NthOf(filled, n - 1)] \in Indices
  BY NthPosition, QueueLength DEF TypeOK
<1>2. Queued \in [1..Length(filled) -> {Content(i) : i \in Indices}] /\ Length(filled) \in Nat
  BY <1>1, QueueLength DEF Queued, TypeOK
<1> QED BY <1>2

LEMMA AppendIs ==
  ASSUME NEW S, NEW s \in Seq(S), NEW e \in S, NEW t \in Seq(S), Len(t) = Len(s) + 1,
         \A i \in 1..Len(s) : t[i] = s[i], t[Len(s) + 1] = e
  PROVE  t = Append(s, e)
<1>1. \A i \in 1..Len(t) : t[i] = Append(s, e)[i]
  BY AppendProperties
<1> QED BY <1>1, AppendProperties, SeqEqual

LEMMA TailIs ==
  ASSUME NEW S, NEW s \in Seq(S), s # <<>>, NEW t \in Seq(S), Len(t) = Len(s) - 1,
         \A i \in 1..Len(t) : t[i] = s[i + 1]
  PROVE  t = Tail(s)
  BY HeadTailProperties, SeqEqual

(* The callback's side: a transfer arrives, is accepted or dropped, and is published. *)
LEMMA CallbackRefines ==
  ASSUME PoolInv, (\E len \in Lens : Arrive(len)) \/ CallbackStep
  PROVE  Queue!QueueNext \/ UNCHANGED View
<1>i. /\ TypeOK /\ StagesInv /\ CountInv /\ OneHolder /\ BuffersInv
  BY DEF PoolInv
<1>r. Writing => ~Full(filled)
  BY <1>i, RoomForHeld
<1>t. /\ meta \in [Indices -> Stamps] /\ bytes \in [Indices -> Int]
      /\ Length(free) \in Nat /\ Length(filled) \in Nat
      /\ Length(free) = 0 <=> Empty(free)
      /\ filled \in IndexQueue /\ free \in IndexQueue
      /\ \A p \in Positions(filled) : p \in Slots /\ filled.slots[p] \in Indices
  BY <1>i, QueueLength DEF TypeOK
<1>w. Writing => /\ given \in Indices
                 /\ \A p \in Positions(filled) : filled.slots[p] # given
                 /\ Holding => index # given
  BY <1>i, WrittenApart
(* The queue and the consumer's hands are as they were. *)
<1>k. ASSUME UNCHANGED <<filled, buffers, cpc, index>>
      PROVE  Queued' = Queued /\ TakenNow' = TakenNow
  <2>1. Queued' = Queued
    BY <1>k, <1>i, QueuedKept DEF buffers
  <2> QED BY <1>k, <2>1 DEF TakenNow, Holding, Content, buffers
<1>1. ASSUME NEW len \in Lens, Arrive(len) PROVE Queue!Arrive(len, next_seq) /\ next_seq \in 0..(MaxTransfers - 1)
  <2>1. /\ ppc = "idle" /\ ppc' = "popCheck" /\ next_seq < MaxTransfers /\ next_seq \in Nat
        /\ arriving' = [seq |-> next_seq, offset |-> next_offset, len |-> len]
        /\ arriving' # None
        /\ next_seq' = next_seq + 1 /\ next_offset' = next_offset + len
        /\ UNCHANGED <<queues, buffers, dropped_samples, given, consumer, waiting>>
    BY <1>1, <1>i, ArriveFacts DEF TypeOK
  <2>2. Queued' = Queued /\ TakenNow' = TakenNow
    BY <1>k, <2>1 DEF queues, consumer
  <2>3. arriving = None
    BY <1>i, <2>1 DEF StagesInv
  <2>4. /\ ~Popping /\ ~Popping' /\ ~Writing /\ ~Writing' /\ FreeCount' = FreeCount
    BY <2>1 DEF Popping, Writing, FreeCount, queues
  <2>5. Arriving = None /\ Arriving' = Queue!Transfer(next_seq, next_offset, len, next_seq)
    BY <2>1, <2>3 DEF Arriving, Queue!Transfer
  <2>6. Queue!Arrive(len, next_seq)
    BY <2>1, <2>2, <2>4, <2>5
       DEF Queue!Arrive, Queue!None, None, Arriving, Popping, FreeCount, Queued, TakenNow
  <2> QED BY <2>1, <2>6
<1>2. CASE DropTransfer
  <2>1. /\ ppc = "popCheck" /\ ppc' = "idle" /\ Empty(free) /\ arriving # None /\ arriving' = None
        /\ dropped_samples' = dropped_samples + arriving.len
        /\ UNCHANGED <<queues, buffers, next_seq, next_offset, given, consumer, waiting>>
    BY <1>2, <1>i DEF DropTransfer, ProducerGoes, StagesInv
  <2>2. Queued' = Queued /\ TakenNow' = TakenNow
    BY <1>k, <2>1 DEF queues, consumer
  <2>3. /\ ~Popping /\ ~Popping' /\ ~Writing /\ ~Writing' /\ FreeCount = 0 /\ FreeCount' = 0
    BY <2>1, <1>t DEF Popping, Writing, FreeCount, queues
  <2>4. Arriving # None /\ Arriving.len = arriving.len /\ Arriving' = None
    <3>1. arriving \in Stamps
      BY <2>1, <1>i DEF TypeOK
    <3> QED BY <2>1, <3>1 DEF Arriving, None, Stamps
  <2>5. Queue!DropTransfer
    BY <2>1, <2>2, <2>3, <2>4
       DEF Queue!DropTransfer, Queue!None, None, Arriving, Popping, FreeCount, Queued, TakenNow
  <2> QED BY <2>5 DEF Queue!QueueNext
<1>3. CASE PopFreeCheck
  <2>1. /\ ppc = "popCheck" /\ ppc' = "popSlot" /\ ~Empty(free) /\ arriving # None
        /\ UNCHANGED <<queues, buffers, next_seq, next_offset, dropped_samples, arriving, given,
                       consumer, waiting>>
    BY <1>3, <1>i DEF PopFreeCheck, ProducerGoes, StagesInv
  <2>2. Queued' = Queued /\ TakenNow' = TakenNow
    BY <1>k, <2>1 DEF queues, consumer
  <2>3. /\ ~Popping /\ Popping' /\ ~Writing /\ ~Writing' /\ FreeCount > 0 /\ FreeCount' = FreeCount - 1
    BY <2>1, <1>t DEF Popping, Writing, FreeCount, queues
  <2>4. Arriving # None /\ Arriving' = Arriving
    <3>1. arriving \in Stamps
      BY <2>1, <1>i DEF TypeOK
    <3> QED BY <2>1, <3>1 DEF Arriving, None, Stamps
  <2>5. Queue!Accept
    BY <2>1, <2>2, <2>3, <2>4
       DEF Queue!Accept, Queue!None, None, Arriving, Popping, FreeCount, Queued, TakenNow
  <2> QED BY <2>5 DEF Queue!QueueNext
<1>4. CASE PopFreeSlot \/ PopFreeHead
  <2>1. /\ UNCHANGED <<filled, buffers, next_seq, next_offset, dropped_samples, arriving, cpc, index>>
    BY <1>4 DEF PopFreeSlot, PopFreeHead, queues, consumer
  <2>2. FreeCount' = FreeCount /\ (Writing \/ Popping)' = (Writing \/ Popping)
    <3>1. CASE PopFreeSlot
      BY <3>1 DEF PopFreeSlot, ProducerGoes, FreeCount, Popping, Writing, queues
    <3>2. CASE PopFreeHead
      <4>1. /\ ppc = "popHead" /\ ppc' = "copy" /\ free' = StoreHead(free) /\ ~Empty(free)
        BY <3>2, <1>i DEF PopFreeHead, ProducerGoes, StagesInv
      <4>2. Length(free') = Length(free) - 1
        BY <4>1, <1>t, PopQueue
      <4> QED BY <4>1, <4>2, <1>t DEF FreeCount, Popping, Writing
    <3> QED BY <1>4, <3>1, <3>2
  <2> QED BY <1>k, <2>1, <2>2 DEF View, Arriving
<1>5. CASE CopyBegin \/ CopyEnd \/ Stamp
  <2>1. /\ Writing /\ Writing' /\ ~Popping /\ ~Popping'
        /\ UNCHANGED <<queues, next_seq, next_offset, dropped_samples, arriving, given, consumer>>
    BY <1>5 DEF CopyBegin, CopyEnd, Stamp, ProducerGoes, Writing, Popping
  <2>2. \A i \in Indices : i # given => bytes'[i] = bytes[i] /\ meta'[i] = meta[i]
    BY <1>5, <1>t DEF CopyBegin, CopyEnd, Stamp
  <2>3. Queued' = Queued
    BY <1>i, <1>t, <1>w, <2>1, <2>2, QueuedKept DEF queues
  <2>4. TakenNow' = TakenNow
    BY <1>i, <1>w, <2>1, <2>2 DEF TakenNow, Holding, Content, consumer, StagesInv
  <2> QED BY <2>1, <2>3, <2>4 DEF View, Arriving, FreeCount, queues
<1>6. CASE PushFilledCheck
  <2>1. /\ ppc = "pushCheck" /\ ppc' = "pushSlot" /\ UNCHANGED <<arriving, given>>
        /\ UNCHANGED <<queues, buffers, next_seq, next_offset, dropped_samples, consumer>>
    BY <1>6, <1>r DEF PushFilledCheck, Writing
  <2> QED BY <1>k, <2>1 DEF View, Arriving, FreeCount, Popping, Writing, queues, consumer
<1>7. CASE PushFilledSlot
  <2>1. /\ ppc = "pushSlot" /\ ppc' = "pushTail" /\ filled' = StoreSlot(filled, given) /\ given \in Indices
        /\ UNCHANGED <<free, buffers, next_seq, next_offset, dropped_samples, arriving, consumer>>
    BY <1>7, <1>i DEF PushFilledSlot, ProducerGoes, StagesInv, Writing
  <2>2. /\ filled'.head = filled.head /\ filled'.tail = filled.tail
        /\ \A p \in Slots : p # filled.tail => filled'.slots[p] = filled.slots[p]
        /\ filled.tail \notin Positions(filled)
    BY <2>1, <1>t, StoreQueue
  <2>3. Queued' = Queued
    BY <1>i, <1>t, <2>1, <2>2, QueuedKept DEF buffers
  <2> QED BY <2>1, <2>3 DEF View, Arriving, FreeCount, TakenNow, Holding, Content, Popping, Writing,
                            buffers, consumer
<1>8. CASE PushFilledTail
  <2>1. /\ ppc = "pushTail" /\ ppc' = "wakeLock" /\ filled' = StoreTail(filled) /\ ~Full(filled)
        /\ filled.slots[filled.tail] = given /\ given \in Indices /\ arriving # None /\ arriving' = None
        /\ UNCHANGED <<free, buffers, next_seq, next_offset, dropped_samples, consumer>>
    BY <1>8, <1>r, <1>i DEF PushFilledTail, ProducerGoes, StagesInv, Writing
  <2>2. /\ Length(filled') = Length(filled) + 1 /\ filled'.slots = filled.slots
        /\ NthOf(filled', Length(filled)) = filled.tail
        /\ \A n \in 1..Length(filled) : NthOf(filled', n - 1) = NthOf(filled, n - 1)
    BY <2>1, <1>t, PushQueue, NthPosition
  <2>3. Content(given) = [Arriving EXCEPT !.len = Fitting(arriving.len)]
    <3>1. arriving \in Stamps
      BY <2>1, <1>i DEF TypeOK
    <3>2. bytes[given] = arriving.seq /\ meta[given] = [arriving EXCEPT !.len = Fitting(arriving.len)]
      BY <2>1, <1>i DEF BuffersInv
    <3> QED BY <2>1, <3>1, <3>2 DEF Content, Arriving, Stamps
  <2>4. Queued' = Append(Queued, Content(given))
    <3>1. Queued' = [n \in 1..(Length(filled) + 1) |-> Content(filled.slots[NthOf(filled', n - 1)])]
      BY <2>1, <2>2 DEF Queued, Content, buffers
    <3>2. ASSUME NEW n \in 1..(Length(filled) + 1)
          PROVE  Content(filled.slots[NthOf(filled', n - 1)]) =
                   IF n <= Length(filled) THEN Queued[n] ELSE Content(given)
      <4>1. CASE n <= Length(filled)
        BY <4>1, <1>t, <2>2 DEF Queued
      <4>2. CASE n = Length(filled) + 1
        BY <4>2, <1>t, <2>1, <2>2
      <4> QED BY <4>1, <4>2, <1>t
    <3> DEFINE S == {Content(i) : i \in Indices}
    <3>3. Queued \in Seq(S) /\ Len(Queued) = Length(filled) /\ Content(given) \in S
      BY <1>i, <2>1, QueuedIsSeq
    <3>4. PICK t : t = Queued'
      OBVIOUS
    <3>5. ASSUME NEW n \in 1..(Length(filled) + 1)
          PROVE  t[n] = IF n <= Length(filled) THEN Queued[n] ELSE Content(given)
      BY <3>1, <3>2, <3>4
    <3>6. ASSUME NEW n \in 1..(Length(filled) + 1) PROVE t[n] \in S
      BY <3>3, <3>5, <1>t
    <3>7. t = [n \in 1..(Length(filled) + 1) |-> t[n]]
      BY <3>1, <3>4
    <3> HIDE DEF S
    <3>8. t \in Seq(S) /\ Len(t) = Length(filled) + 1
      <4>1. Length(filled) + 1 \in Nat
        BY <1>t
      <4>2. t \in [1..(Length(filled) + 1) -> S]
        BY <3>6, <3>7
      <4> QED BY <4>1, <4>2
    <3>9. t = Append(Queued, Content(given))
      BY <3>3, <3>5, <3>8, <1>t, AppendIs
    <3> QED BY <3>4, <3>9
  <2>5. Popping' = Popping /\ ~Popping /\ Writing /\ ~Writing' /\ FreeCount' = FreeCount
        /\ TakenNow' = TakenNow
    BY <2>1 DEF Popping, Writing, FreeCount, TakenNow, Holding, Content, consumer, buffers
  <2>6. Arriving' = None /\ Arriving.len = arriving.len
    <3>1. arriving \in Stamps
      BY <2>1, <1>i DEF TypeOK
    <3> QED BY <2>1, <3>1 DEF Arriving
  <2>7. Queue!Publish
    BY <2>1, <2>3, <2>4, <2>5, <2>6
       DEF Queue!Publish, Queue!None, Queue!Fitting, Fitting, None, Arriving, Popping, FreeCount,
           Queued, TakenNow
  <2> QED BY <2>7 DEF Queue!QueueNext
<1>9. CASE WakeSkip \/ WakeLock \/ Unpark
  <2>1. /\ ppc \in {"wakeLock", "unpark"} /\ ppc' \in {"idle", "unpark"}
        /\ UNCHANGED <<queues, buffers, next_seq, next_offset, dropped_samples, arriving, consumer>>
    BY <1>9 DEF WakeSkip, WakeLock, Unpark, ProducerGoes
  <2> QED BY <1>k, <2>1 DEF View, Arriving, FreeCount, Popping, Writing, queues, consumer
<1>10. \A len \in Lens : Arrive(len) => Queue!QueueNext
  BY <1>1 DEF Queue!QueueNext
<1> QED BY <1>2, <1>3, <1>4, <1>5, <1>6, <1>7, <1>8, <1>9, <1>10 DEF CallbackStep

(* The consumer's side: the store of filled's head takes a transfer, that of free's tail     *)
(* recycles its buffer.                                                                      *)
LEMMA ConsumerRefines ==
  ASSUME PoolInv, ConsumerStep \/ ParkTimeout
  PROVE  Queue!QueueNext \/ UNCHANGED View
<1>i. /\ TypeOK /\ StagesInv /\ CountInv /\ OneHolder /\ BuffersInv
  BY DEF PoolInv
<1>r. Holding => ~Full(free)
  BY <1>i, RoomForHeld
<1>t. /\ meta \in [Indices -> Stamps] /\ filled \in IndexQueue /\ free \in IndexQueue
      /\ Length(filled) \in Nat /\ Length(free) \in Nat /\ (Length(filled) = 0 <=> Empty(filled))
  BY <1>i, QueueLength DEF TypeOK
<1>k. ASSUME UNCHANGED <<filled, buffers>> PROVE Queued' = Queued
  BY <1>k, <1>i, QueuedKept DEF buffers
<1>1. CASE \/ TakeEmpty \/ TakeCheck \/ TakeSlot \/ TakeMeta
           \/ WaitLock \/ Register \/ WaitCheck \/ Unparked \/ ParkTimeout
  <2>1. /\ UNCHANGED <<queues, buffers, producer>>
        /\ \/ cpc = "takeMeta" /\ cpc' = "held" /\ index' = index
           \/ ~Holding /\ ~Holding'
    BY <1>1 DEF TakeEmpty, TakeCheck, TakeSlot, TakeMeta, WaitLock, Register, WaitCheck, Unparked,
                ParkTimeout, ConsumerGoes, Holding
  <2>2. TakenNow' = TakenNow
    BY <2>1 DEF TakenNow, Holding, Content, buffers
  <2> QED BY <1>k, <2>1, <2>2 DEF View, Arriving, FreeCount, Popping, Writing, queues, producer
<1>2. CASE DropCheck
  <2>1. /\ cpc = "held" /\ cpc' = "dropSlot" /\ UNCHANGED <<queues, buffers, producer, index>>
    BY <1>2, <1>r DEF DropCheck, Holding
  <2>2. TakenNow' = TakenNow
    BY <2>1 DEF TakenNow, Holding, Content, buffers
  <2> QED BY <1>k, <2>1, <2>2 DEF View, Arriving, FreeCount, Popping, Writing, queues, producer
<1>3. CASE DropSlot
  <2>1. /\ cpc = "dropSlot" /\ cpc' = "dropTail" /\ free' = StoreSlot(free, index) /\ index \in Indices
        /\ UNCHANGED <<filled, buffers, producer, index>>
    BY <1>3, <1>i DEF DropSlot, ConsumerGoes, StagesInv, Holding
  <2>2. Length(free') = Length(free)
    BY <2>1, <1>t, StoreQueue
  <2>3. TakenNow' = TakenNow
    BY <2>1 DEF TakenNow, Holding, Content, buffers
  <2> QED BY <1>k, <2>1, <2>2, <2>3 DEF View, Arriving, FreeCount, Popping, Writing, producer
<1>4. CASE TakeHead
  <2>1. /\ cpc = "takeHead" /\ cpc' = "takeMeta" /\ filled' = StoreHead(filled) /\ ~Empty(filled)
        /\ index = filled.slots[filled.head] /\ UNCHANGED <<free, buffers, producer, index>>
    BY <1>4, <1>i DEF TakeHead, ConsumerGoes, StagesInv
  <2>2. /\ Length(filled') = Length(filled) - 1 /\ filled'.slots = filled.slots
        /\ NthOf(filled, 0) = filled.head
        /\ \A n \in 1..(Length(filled) - 1) : NthOf(filled', n - 1) = NthOf(filled, n)
    BY <2>1, <1>t, PopQueue, NthPosition
  <2>3. Len(Queued) = Length(filled) /\ Length(filled) > 0
    BY <1>t, <2>1 DEF Queued
  <2>4. Queued # <<>> /\ Head(Queued) = Content(index)
    BY <2>1, <2>2, <2>3, <1>t DEF Queued
  <2>5. Queued' = Tail(Queued)
    <3>1. Queued' = [n \in 1..(Length(filled) - 1) |-> Content(filled.slots[NthOf(filled, n)])]
      BY <2>1, <2>2 DEF Queued, Content, buffers
    <3>2. \A n \in 1..(Length(filled) - 1) : Queued[n + 1] = Content(filled.slots[NthOf(filled, n)])
      BY <1>t DEF Queued
    <3> DEFINE S == {Content(i) : i \in Indices}
    <3>3. Queued \in Seq(S)
      BY <1>i, QueuedIsSeq
    <3>4. PICK t : t = Queued'
      OBVIOUS
    <3>5. \A n \in 1..(Length(filled) - 1) : t[n] = Queued[n + 1] /\ t[n] \in S
      BY <3>1, <3>2, <3>3, <3>4, <2>3, <1>t
    <3>6. t = [n \in 1..(Length(filled) - 1) |-> t[n]]
      BY <3>1, <3>4
    <3> HIDE DEF S
    <3>7. t \in Seq(S) /\ Len(t) = Length(filled) - 1
      BY <3>5, <3>6, <2>3, <1>t
    <3>8. t = Tail(Queued)
      BY <3>3, <3>5, <3>7, <2>3, <2>4, TailIs
    <3> QED BY <3>4, <3>8
  <2>6. /\ TakenNow = None /\ TakenNow' = Content(index)
    BY <2>1 DEF TakenNow, Holding, Content, buffers
  <2>7. /\ UNCHANGED <<next_seq, next_offset, dropped_samples, Arriving, FreeCount>>
        /\ (Writing \/ Popping)' = (Writing \/ Popping)
    BY <2>1 DEF Arriving, FreeCount, Writing, Popping, producer
  <2>8. Queue!Take
    BY <2>4, <2>5, <2>6, <2>7
       DEF Queue!Take, Queue!None, None, Arriving, Popping, FreeCount, Queued, TakenNow
  <2> QED BY <2>8 DEF Queue!QueueNext
<1>5. CASE DropTail
  <2>1. /\ cpc = "dropTail" /\ cpc' = "idle" /\ free' = StoreTail(free) /\ ~Full(free)
        /\ index \in Indices /\ UNCHANGED <<filled, buffers, producer>>
    BY <1>5, <1>r, <1>i DEF DropTail, ConsumerGoes, StagesInv, Holding
  <2>2. Length(free') = Length(free) + 1
    BY <2>1, <1>t, PushQueue
  <2>3. /\ TakenNow # None /\ TakenNow' = None
    BY <2>1, <1>t DEF TakenNow, Holding, Content, None, Stamps
  <2>4. /\ UNCHANGED <<next_seq, next_offset, dropped_samples, Arriving>>
        /\ (Writing \/ Popping)' = (Writing \/ Popping) /\ FreeCount' = FreeCount + 1
    BY <2>1, <2>2, <1>t DEF Arriving, FreeCount, Writing, Popping, producer
  <2>5. Queue!Recycle
    BY <1>k, <2>1, <2>3, <2>4
       DEF Queue!Recycle, Queue!None, None, Arriving, Popping, FreeCount, Queued, TakenNow
  <2> QED BY <2>5 DEF Queue!QueueNext
<1> QED BY <1>1, <1>2, <1>3, <1>4, <1>5 DEF ConsumerStep

LEMMA PoolRefinesInit == Init => Queue!QueueInit
<1> SUFFICES ASSUME Init PROVE Queue!QueueInit
  OBVIOUS
<1>1. Length(free) = Buffers /\ Length(filled) = 0
  BY DEF Init, Length
<1>2. Queued = <<>>
  BY <1>1 DEF Queued
<1>3. Arriving = None /\ ~Popping /\ ~Writing /\ FreeCount = Buffers /\ TakenNow = None
  BY <1>1 DEF Init, Arriving, Popping, Writing, FreeCount, TakenNow, Holding
<1> QED BY <1>2, <1>3 DEF Init, Queue!QueueInit, Queue!None, None, Arriving, Popping, FreeCount,
                          Queued, TakenNow

(* The pool implements the FIFO of whole transfers: transfers are numbered and stamped as     *)
(* they come, dropped only when every buffer is in use, and taken in the order accepted.     *)
THEOREM PoolImplementsQueue == Spec => ImplementsTransferQueue
<1>1. PoolInv /\ [Next]_vars => [Queue!QueueNext]_(Queue!queueVars)
  <2> SUFFICES ASSUME PoolInv, [Next]_vars PROVE Queue!QueueNext \/ UNCHANGED View
    BY ViewIs DEF View, Queue!queueVars, Arriving, Popping, FreeCount, Queued, TakenNow
  <2>1. CASE UNCHANGED vars
    BY <2>1 DEF vars, queues, buffers, producer, consumer, View, Arriving, FreeCount, Queued,
         TakenNow, Popping, Writing, Holding, Content, Length, NthOf
  <2> QED BY <2>1, CallbackRefines, ConsumerRefines DEF Next
<1> QED BY <1>1, PoolRefinesInit, PoolInvariant, PTL DEF Spec, ImplementsTransferQueue, Queue!QueueSpec
=============================================================================
