---------------------------- MODULE TransferPool ----------------------------
(***************************************************************************)
(* hk-core's source/hackrf/pool.rs: the buffers, the two index queues and  *)
(* the waiter slot through which the libusb callback (on_transfer) hands   *)
(* transfers to the capture thread (take, Taken, wait).  Each thread's     *)
(* atomics are steps of their own; a buffer's bytes are written in two     *)
(* steps, so that a reader in between would see a torn buffer.             *)
(***************************************************************************)
EXTENDS Integers

CONSTANTS Buffers, BufferLen, Lens, MaxTransfers

ASSUME PoolAssumption ==
  /\ Buffers \in Nat \ {0}
  /\ BufferLen \in Nat \ {0}
  /\ Lens \subseteq Nat
  /\ MaxTransfers \in Nat

VARIABLES
  free, filled,       \* IndexQueue: slots, head, tail
  meta, bytes,        \* Slot: the stamps and the buffer of each index
  next_seq, next_offset, dropped_samples,
  waiter_lock,        \* who holds the waiter mutex
  waiter,             \* the consumer's thread handle is registered
  token,              \* its park token
  ppc, arriving, given,        \* the callback: program counter, transfer, buffer index
  cpc, index, taken_meta       \* the consumer: program counter, buffer index, Taken::meta

queues == <<free, filled>>
buffers == <<meta, bytes>>
producer == <<next_seq, next_offset, dropped_samples, ppc, arriving, given>>
consumer == <<cpc, index, taken_meta>>
waiting == <<waiter_lock, waiter, token>>
vars == <<queues, buffers, producer, consumer, waiting>>

Indices == 0..(Buffers - 1)

NoIndex == Buffers

(* A payload is its transfer's number; a buffer half written holds no payload. *)
Torn == -1

None == [seq |-> -1]

Fitting(len) == IF len <= BufferLen THEN len ELSE BufferLen

-----------------------------------------------------------------------------
(* IndexQueue: Buffers + 1 slots, so that every index fits *)

Bug_Succ(p) == IF p >= Buffers - 1 THEN 0 ELSE p + 1

(* (p + 1) % slots.len() for a slot number p. *)
Succ(p) == IF p = Buffers THEN 0 ELSE p + 1

Empty(q) == q.head = q.tail

Full(q) == Succ(q.tail) = q.head

StoreSlot(q, value) == [q EXCEPT !.slots[q.tail] = value]

StoreTail(q) == [q EXCEPT !.tail = Succ(q.tail)]

StoreHead(q) == [q EXCEPT !.head = Succ(q.head)]

(* The slots between head and tail. *)
Positions(q) ==
  IF q.head <= q.tail THEN q.head..(q.tail - 1) ELSE (q.head..Buffers) \cup (0..(q.tail - 1))

(* IndexQueue::len *)
Length(q) == IF q.head <= q.tail THEN q.tail - q.head ELSE q.tail + (Buffers + 1) - q.head

Init ==
  /\ free = [slots |-> [p \in 0..Buffers |-> IF p < Buffers THEN p ELSE 0], head |-> 0, tail |-> Buffers]
  /\ filled = [slots |-> [p \in 0..Buffers |-> 0], head |-> 0, tail |-> 0]
  /\ meta = [i \in Indices |-> [seq |-> 0, offset |-> 0, len |-> 0]]
  /\ bytes = [i \in Indices |-> 0]
  /\ next_seq = 0 /\ next_offset = 0 /\ dropped_samples = 0
  /\ waiter_lock = "none" /\ waiter = FALSE /\ token = FALSE
  /\ ppc = "idle" /\ arriving = None /\ given = NoIndex
  /\ cpc = "idle" /\ index = NoIndex /\ taken_meta = None

-----------------------------------------------------------------------------
(* on_transfer *)

ProducerGoes(from, to) == ppc = from /\ ppc' = to

Arrive(len) ==
  /\ next_seq < MaxTransfers
  /\ ProducerGoes("idle", "popCheck")
  /\ next_seq' = next_seq + 1
  /\ next_offset' = next_offset + len
  /\ arriving' = [seq |-> next_seq, offset |-> next_offset, len |-> len]
  /\ UNCHANGED <<queues, buffers, dropped_samples, given, consumer, waiting>>

(* No free buffer: the transfer is dropped and counted. *)
DropTransfer ==
  /\ ProducerGoes("popCheck", "idle")
  /\ Empty(free)
  /\ dropped_samples' = dropped_samples + arriving.len
  /\ arriving' = None
  /\ UNCHANGED <<queues, buffers, next_seq, next_offset, given, consumer, waiting>>

PopFreeCheck ==
  /\ ProducerGoes("popCheck", "popSlot")
  /\ ~Empty(free)
  /\ UNCHANGED <<queues, buffers, next_seq, next_offset, dropped_samples, arriving, given, consumer, waiting>>

PopFreeSlot ==
  /\ ProducerGoes("popSlot", "popHead")
  /\ given' = free.slots[free.head]
  /\ UNCHANGED <<queues, buffers, next_seq, next_offset, dropped_samples, arriving, consumer, waiting>>

PopFreeHead ==
  /\ ProducerGoes("popHead", "copy")
  /\ free' = StoreHead(free)
  /\ UNCHANGED <<filled, buffers, next_seq, next_offset, dropped_samples, arriving, given, consumer, waiting>>

CopyBegin ==
  /\ ProducerGoes("copy", "copying")
  /\ bytes' = [bytes EXCEPT ![given] = Torn]
  /\ UNCHANGED <<queues, meta, next_seq, next_offset, dropped_samples, arriving, given, consumer, waiting>>

CopyEnd ==
  /\ ProducerGoes("copying", "stamp")
  /\ bytes' = [bytes EXCEPT ![given] = arriving.seq]
  /\ UNCHANGED <<queues, meta, next_seq, next_offset, dropped_samples, arriving, given, consumer, waiting>>

Bug_Stamp ==
  /\ ProducerGoes("stamp", "pushCheck")
  /\ meta' = [meta EXCEPT ![given] = arriving]
  /\ UNCHANGED <<queues, bytes, next_seq, next_offset, dropped_samples, arriving, given, consumer, waiting>>

Stamp ==
  /\ ProducerGoes("stamp", "pushCheck")
  /\ meta' = [meta EXCEPT ![given] = [arriving EXCEPT !.len = Fitting(arriving.len)]]
  /\ UNCHANGED <<queues, bytes, next_seq, next_offset, dropped_samples, arriving, given, consumer, waiting>>

(* A refused push would lose the index (the debug assertion that it is never refused). *)
PushFilledCheck ==
  /\ ppc = "pushCheck"
  /\ IF Full(filled)
     THEN ppc' = "wakeLock" /\ arriving' = None /\ given' = NoIndex
     ELSE ppc' = "pushSlot" /\ UNCHANGED <<arriving, given>>
  /\ UNCHANGED <<queues, buffers, next_seq, next_offset, dropped_samples, consumer, waiting>>

PushFilledSlot ==
  /\ ProducerGoes("pushSlot", "pushTail")
  /\ filled' = StoreSlot(filled, given)
  /\ UNCHANGED <<free, buffers, next_seq, next_offset, dropped_samples, arriving, given, consumer, waiting>>

PushFilledTail ==
  /\ ProducerGoes("pushTail", "wakeLock")
  /\ filled' = StoreTail(filled)
  /\ arriving' = None
  /\ given' = NoIndex
  /\ UNCHANGED <<free, buffers, next_seq, next_offset, dropped_samples, consumer, waiting>>

(* The consumer is registering itself: it will look at the queue before it parks. *)
WakeSkip ==
  /\ waiter_lock # "none"
  /\ ProducerGoes("wakeLock", "idle")
  /\ UNCHANGED <<queues, buffers, next_seq, next_offset, dropped_samples, arriving, given, consumer, waiting>>

WakeLock ==
  /\ waiter_lock = "none"
  /\ ProducerGoes("wakeLock", "unpark")
  /\ waiter_lock' = "callback"
  /\ UNCHANGED <<queues, buffers, next_seq, next_offset, dropped_samples, arriving, given, consumer, waiter, token>>

Unpark ==
  /\ ProducerGoes("unpark", "idle")
  /\ token' = (token \/ waiter)
  /\ waiter_lock' = "none"
  /\ UNCHANGED <<queues, buffers, next_seq, next_offset, dropped_samples, arriving, given, consumer, waiter>>

CallbackStep ==
  \/ DropTransfer \/ PopFreeCheck \/ PopFreeSlot \/ PopFreeHead
  \/ CopyBegin \/ CopyEnd \/ Stamp
  \/ PushFilledCheck \/ PushFilledSlot \/ PushFilledTail
  \/ WakeSkip \/ WakeLock \/ Unpark

-----------------------------------------------------------------------------
(* take, and the Taken guard *)

ConsumerGoes(from, to) == cpc = from /\ cpc' = to

TakeEmpty ==
  /\ ConsumerGoes("idle", "wait")
  /\ Empty(filled)
  /\ UNCHANGED <<queues, buffers, producer, index, taken_meta, waiting>>

TakeCheck ==
  /\ ConsumerGoes("idle", "takeSlot")
  /\ ~Empty(filled)
  /\ UNCHANGED <<queues, buffers, producer, index, taken_meta, waiting>>

TakeSlot ==
  /\ ConsumerGoes("takeSlot", "takeHead")
  /\ index' = filled.slots[filled.head]
  /\ UNCHANGED <<queues, buffers, producer, taken_meta, waiting>>

TakeHead ==
  /\ ConsumerGoes("takeHead", "takeMeta")
  /\ filled' = StoreHead(filled)
  /\ UNCHANGED <<free, buffers, producer, index, taken_meta, waiting>>

Bug_TakeMeta ==
  /\ ConsumerGoes("takeMeta", "held")
  /\ taken_meta' = meta[filled.slots[filled.head]]
  /\ UNCHANGED <<queues, buffers, producer, index, waiting>>

TakeMeta ==
  /\ ConsumerGoes("takeMeta", "held")
  /\ taken_meta' = meta[index]
  /\ UNCHANGED <<queues, buffers, producer, index, waiting>>

(* The guard drops: the caller has finished with Taken::bytes. *)
DropCheck ==
  /\ cpc = "held"
  /\ IF Full(free)
     THEN cpc' = "idle" /\ index' = NoIndex /\ taken_meta' = None
     ELSE cpc' = "dropSlot" /\ UNCHANGED <<index, taken_meta>>
  /\ UNCHANGED <<queues, buffers, producer, waiting>>

DropSlot ==
  /\ ConsumerGoes("dropSlot", "dropTail")
  /\ free' = StoreSlot(free, index)
  /\ UNCHANGED <<filled, buffers, producer, index, taken_meta, waiting>>

DropTail ==
  /\ ConsumerGoes("dropTail", "idle")
  /\ free' = StoreTail(free)
  /\ index' = NoIndex
  /\ taken_meta' = None
  /\ UNCHANGED <<filled, buffers, producer, waiting>>

-----------------------------------------------------------------------------
(* wait *)

WaitLock ==
  /\ waiter_lock = "none"
  /\ ConsumerGoes("wait", "register")
  /\ waiter_lock' = "consumer"
  /\ UNCHANGED <<queues, buffers, producer, index, taken_meta, waiter, token>>

Bug_Register ==
  /\ ConsumerGoes("register", "waitCheck")
  /\ waiter_lock' = "none"
  /\ UNCHANGED <<queues, buffers, producer, index, taken_meta, waiter, token>>

Register ==
  /\ ConsumerGoes("register", "waitCheck")
  /\ waiter' = TRUE
  /\ waiter_lock' = "none"
  /\ UNCHANGED <<queues, buffers, producer, index, taken_meta, token>>

Bug_WaitCheck ==
  /\ ConsumerGoes("waitCheck", "parked")
  /\ UNCHANGED <<queues, buffers, producer, index, taken_meta, waiting>>

WaitCheck ==
  /\ cpc = "waitCheck"
  /\ cpc' = IF Length(filled) = 0 THEN "parked" ELSE "idle"
  /\ UNCHANGED <<queues, buffers, producer, index, taken_meta, waiting>>

Unparked ==
  /\ token
  /\ ConsumerGoes("parked", "idle")
  /\ token' = FALSE
  /\ UNCHANGED <<queues, buffers, producer, index, taken_meta, waiter_lock, waiter>>

ParkTimeout ==
  /\ ConsumerGoes("parked", "idle")
  /\ UNCHANGED <<queues, buffers, producer, index, taken_meta, waiting>>

ConsumerStep ==
  \/ TakeEmpty \/ TakeCheck \/ TakeSlot \/ TakeHead \/ TakeMeta
  \/ DropCheck \/ DropSlot \/ DropTail
  \/ WaitLock \/ Register \/ WaitCheck \/ Unparked

Next ==
  \/ \E len \in Lens : Arrive(len)
  \/ CallbackStep
  \/ ConsumerStep \/ ParkTimeout

Spec == Init /\ [][Next]_vars

(* A callback that has begun runs to its end, whatever the capture thread does. *)
CallbackSpec == Spec /\ WF_vars(CallbackStep)

(* Both threads run; nothing obliges the driver to deliver or a park to time out. *)
FairSpec == CallbackSpec /\ WF_vars(ConsumerStep)

-----------------------------------------------------------------------------
(* Properties *)

Writing == ppc \in {"copy", "copying", "stamp", "pushCheck", "pushSlot", "pushTail"}

Holding == cpc \in {"takeMeta", "held", "dropSlot", "dropTail"}

(* The places buffer i is in. *)
Places(i) ==
  {<<"free", p>> : p \in {q \in Positions(free) : free.slots[q] = i}}
  \cup {<<"filled", p>> : p \in {q \in Positions(filled) : filled.slots[q] = i}}
  \cup (IF Writing /\ given = i THEN {<<"callback", 0>>} ELSE {})
  \cup (IF Holding /\ index = i THEN {<<"consumer", 0>>} ELSE {})

(* Every buffer index sits in exactly one queue or is held by exactly one side: the argument   *)
(* of pool.rs for the unsynchronised access to a buffer's bytes.  None is ever in two places   *)
(* and none is lost, so neither push is ever refused.                                          *)
OneHolder == \A i \in Indices : \E place \in Places(i) : Places(i) = {place}

(* The bytes and the stamps the capture thread has in hand are those of one transfer, whole. *)
TakenIsIntact ==
  cpc \in {"held", "dropSlot", "dropTail"} =>
    /\ bytes[index] = taken_meta.seq
    /\ meta[index] = taken_meta

(* A parked consumer with a transfer waiting has been unparked or is about to be: the          *)
(* callback's try_lock fails only while the consumer has yet to look at the queue.             *)
NoLostWakeup ==
  cpc = "parked" /\ ~Empty(filled) => token \/ ppc \in {"wakeLock", "unpark"}

Waiting(seq) == \E p \in Positions(filled) : meta[filled.slots[p]].seq = seq

(* Every transfer the pool accepted reaches the capture thread, with no help from the timeout  *)
(* of its park.                                                                                *)
AcceptedIsTaken ==
  \A seq \in 0..(MaxTransfers - 1) : Waiting(seq) ~> (cpc = "held" /\ taken_meta.seq = seq)

(* Refinement: a transfer is accepted when the free queue is seen to hold a buffer, published  *)
(* by the store of filled's tail, taken by the store of its head, and its buffer recycled by   *)
(* the store of free's tail.                                                                   *)
Content(i) == [seq |-> meta[i].seq, offset |-> meta[i].offset, len |-> meta[i].len, data |-> bytes[i]]

NthOf(q, n) == IF q.head + n <= Buffers THEN q.head + n ELSE q.head + n - (Buffers + 1)

Queue == INSTANCE TransferQueue WITH
  Payloads <- 0..(MaxTransfers - 1),
  arriving <- IF arriving = None THEN None
              ELSE [seq |-> arriving.seq, offset |-> arriving.offset, len |-> arriving.len,
                    data |-> arriving.seq],
  accepted <- Writing \/ ppc \in {"popSlot", "popHead"},
  free     <- Length(free) - (IF ppc \in {"popSlot", "popHead"} THEN 1 ELSE 0),
  filled   <- [n \in 1..Length(filled) |-> Content(filled.slots[NthOf(filled, n - 1)])],
  taken    <- IF Holding THEN Content(index) ELSE None

(* The pool is a FIFO of whole transfers that drops only when every buffer is in use. *)
ImplementsTransferQueue == Queue!QueueSpec
=============================================================================
