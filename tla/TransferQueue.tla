--------------------------- MODULE TransferQueue ---------------------------
(***************************************************************************)
(* What hk-core's source/hackrf/pool.rs promises to the two threads that   *)
(* share a TransferPool: a FIFO of whole transfers between the libusb      *)
(* callback and the capture thread.  A transfer that finds no free buffer  *)
(* is dropped, but still numbered, counted and part of the stream offset.  *)
(* TransferPool refines it; HackRfSource is built on it.                   *)
(***************************************************************************)
EXTENDS Integers, Sequences

CONSTANTS
  Buffers,       \* buffers in the pool
  BufferLen,     \* samples a buffer holds
  Lens,          \* samples per transfer the driver may deliver
  MaxTransfers,  \* bound: transfers in a behaviour
  Payloads       \* what a transfer's samples may be

ASSUME QueueAssumption ==
  /\ Buffers \in Nat \ {0}
  /\ BufferLen \in Nat \ {0}
  /\ Lens \subseteq Nat
  /\ MaxTransfers \in Nat

VARIABLES
  next_seq,         \* callbacks seen so far
  next_offset,      \* samples delivered by the driver so far, dropped ones included
  arriving,         \* the transfer in the callback's hands, or None
  accepted,         \* the callback has a buffer for it
  free,             \* buffers no side holds
  filled,           \* transfers waiting for the consumer, oldest first
  taken,            \* the transfer the consumer holds, or None
  dropped_samples   \* TransferCounters::dropped_samples

queueVars == <<next_seq, next_offset, arriving, accepted, free, filled, taken, dropped_samples>>

None == [seq |-> -1]

(* TransferMeta, with what the buffer holds. *)
Transfer(seq, offset, len, data) == [seq |-> seq, offset |-> offset, len |-> len, data |-> data]

(* The part of a transfer that fits a buffer. *)
Fitting(len) == IF len <= BufferLen THEN len ELSE BufferLen

QueueInit ==
  /\ next_seq = 0 /\ next_offset = 0
  /\ arriving = None /\ accepted = FALSE
  /\ free = Buffers
  /\ filled = <<>>
  /\ taken = None
  /\ dropped_samples = 0

-----------------------------------------------------------------------------
(* The callback *)

Arrive(len, data) ==
  /\ arriving = None
  /\ next_seq < MaxTransfers
  /\ arriving' = Transfer(next_seq, next_offset, len, data)
  /\ next_seq' = next_seq + 1
  /\ next_offset' = next_offset + len
  /\ UNCHANGED <<accepted, free, filled, taken, dropped_samples>>

Accept ==
  /\ arriving # None /\ ~accepted
  /\ free > 0
  /\ free' = free - 1
  /\ accepted' = TRUE
  /\ UNCHANGED <<next_seq, next_offset, arriving, filled, taken, dropped_samples>>

DropTransfer ==
  /\ arriving # None /\ ~accepted
  /\ free = 0
  /\ dropped_samples' = dropped_samples + arriving.len
  /\ arriving' = None
  /\ UNCHANGED <<next_seq, next_offset, accepted, free, filled, taken>>

Publish ==
  /\ accepted
  /\ filled' = Append(filled, [arriving EXCEPT !.len = Fitting(arriving.len)])
  /\ arriving' = None
  /\ accepted' = FALSE
  /\ UNCHANGED <<next_seq, next_offset, free, taken, dropped_samples>>

-----------------------------------------------------------------------------
(* The consumer *)

Take ==
  /\ taken = None
  /\ filled # <<>>
  /\ taken' = Head(filled)
  /\ filled' = Tail(filled)
  /\ UNCHANGED <<next_seq, next_offset, arriving, accepted, free, dropped_samples>>

Recycle ==
  /\ taken # None
  /\ taken' = None
  /\ free' = free + 1
  /\ UNCHANGED <<next_seq, next_offset, arriving, accepted, filled, dropped_samples>>

QueueNext ==
  \/ \E len \in Lens, data \in Payloads : Arrive(len, data)
  \/ Accept \/ DropTransfer \/ Publish
  \/ Take \/ Recycle

QueueSpec == QueueInit /\ [][QueueNext]_queueVars
=============================================================================
