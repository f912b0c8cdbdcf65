------------------------------ MODULE CaptureLog ------------------------------
(* What the disk ring of hk-store/src/iqbuffer.rs promises its readers: an     *)
(* ordered store of samples, dropped oldest first, of which those a checkpoint *)
(* made durable survive a crash.  IqBuffer implements it.                      *)
EXTENDS Integers

VARIABLES
  stored,     \* the stream indices a clip can select
  durable,    \* those of them a seal covers
  discarded,  \* those rolled back because they may never have reached the disk
  boots       \* how often the ring was opened

vars == <<stored, durable, discarded, boots>>

Before(S, T) == \A i \in S, j \in T : i < j

Init == stored = {} /\ durable = {} /\ discarded = {} /\ boots = 1

\* What leaves is older than what stays; what comes is newer than all there was.
Append ==
  /\ Before(stored \ stored', stored')
  /\ Before(stored \cup discarded, stored' \ stored)
  /\ durable' = durable \cap stored'
  /\ UNCHANGED <<discarded, boots>>

Seal == stored' = stored /\ durable' = stored /\ UNCHANGED <<discarded, boots>>

\* Only what no seal covers is ever given up, and it is the newest.
Discard ==
  /\ stored' = durable /\ durable' = durable
  /\ Before(durable, stored \ durable)
  /\ discarded' = discarded \cup (stored \ durable)
  /\ UNCHANGED boots

\* A crash keeps what was durable and never brings back what was discarded; it
\* may bring back what was evicted since the last seal.
Crash ==
  /\ boots' = boots + 1
  /\ durable \subseteq stored' /\ durable' = stored'
  /\ stored' \cap discarded = {}
  /\ UNCHANGED discarded

Next == Append \/ Seal \/ Discard \/ Crash

Spec == Init /\ [][Next]_vars
=============================================================================
