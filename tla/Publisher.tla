----------------------------- MODULE Publisher -----------------------------
(***************************************************************************)
(* One stream of hk-stream (publisher.rs): a producer offers records to    *)
(* every consumer without ever waiting for one, each consumer has a byte   *)
(* queue of fixed size drained by a thread of its own, and consumers come, *)
(* stall, leave and are closed by several threads at once.                 *)
(*                                                                         *)
(* Bytes are abstracted to units: a header frame and a drop marker are one *)
(* unit, a record is three, so that a pop can split it and a second one    *)
(* can find the queue full.  A unit says which sequence numbers it        *)
(* accounts for.  Each critical section of Consumer::inner and of          *)
(* Shared::list is one action; the notify that follows an unlock is part   *)
(* of the action that unlocks, except in Consumer::close, whose steps      *)
(* after the unlock are actions of their own.                              *)
(*                                                                         *)
(* A recorder's transport is a CaptureWriter of hk-store (decoded.rs): it  *)
(* counts what it parses, stores it in segments, and when it is dropped    *)
(* closes its books.  Of the store only these counts are kept; when a      *)
(* segment rolls, the quota is exceeded or the disk fails is its affair.   *)
(***************************************************************************)
EXTENDS Integers, Sequences, FiniteSets, SequencesExt

CONSTANTS Consumers,      \* would-be consumers
          Recorders,      \* those subscribed with subscribe_recorder
          MaxConsumers,   \* PublisherConfig::max_consumers
          QueueUnits,     \* queue_bytes
          Chunk,          \* WRITE_CHUNK
          MaxSeq          \* bound on the sequence numbers published, by how many have
                          \* subscribed: the more consumers, the fewer records

\* Publisher::with_mode refuses a queue without room for the header, one
\* record and two markers.
ASSUME PublisherConfig ==
    /\ IsFiniteSet(Consumers) /\ Recorders \subseteq Consumers
    /\ MaxConsumers \in Nat \ {0}
    /\ Chunk \in Nat \ {0}
    /\ QueueUnits \in Nat /\ QueueUnits >= 6
    /\ MaxSeq \in [0..Cardinality(Consumers) -> Nat]

VARIABLES
    gatedStream,  \* the stream has a SpectrumGate
    \* the producer: Publisher's own fields and the place it has reached
    pub,          \* "idle", "load", "refresh", "offer", "finish", "drain", "over"
    nextSeq, withheld, frame, snapshot, todo, stale, prune, dropped,
    \* Shared::list and Shared::generation
    active, closedForNew,
    newGeneration,  \* generation # seen_generation: the list changed since the producer looked
    \* per consumer: the subscriber, Inner, the closed flag, the close in progress
    sub, state, ring, pendingDrop, offered, closed, closing, closer,
    \* per consumer: its writer thread and what its transport has been given
    writer, inFlight, received, slot,
    capture,      \* per recorder: its CaptureWriter
    books,        \* history: what the books said when it closed them
    \* the drain watchdog and the other users of a handle
    watchdog, draining, pruning,
    \* history: the next sequence number when a subscription returned
    due

pubVars == <<pub, nextSeq, withheld, frame, snapshot, todo, stale, prune, dropped>>
listVars == <<active, closedForNew, newGeneration>>
innerVars == <<state, ring, pendingDrop, offered>>
closeVars == <<closed, closing, closer>>
writerVars == <<writer, inFlight, received, slot, capture, books>>
drainVars == <<watchdog, draining>>
transportVars == <<inFlight, received, slot, capture, books>>
consumerVars == <<sub, innerVars, closeVars, writerVars>>
otherVars == <<gatedStream, drainVars, pruning, due>>
vars == <<pubVars, listVars, consumerVars, otherVars>>

None == [first |-> 0, count |-> 0]      \* no DropMarker
NotTold == -1

Part == <<"head", "body", "tail">>
Header == [kind |-> "header", first |-> 0, last |-> 0]
Marker(m) == [kind |-> "marker", first |-> m.first, last |-> m.first + m.count - 1]
Record(s) == [i \in 1..3 |-> [kind |-> Part[i], first |-> s, last |-> s]]

\* The frame offered for units that account for count numbers from first on.
Frame(units, first, count) == [units |-> units, first |-> first, count |-> count]
NoFrame == Frame(<<>>, 0, 0)

Subscribed == Cardinality({c \in Consumers : sub[c] # "new"})
Free(c) == QueueUnits - Len(ring[c])
OpenCount == Cardinality({c \in active : ~closed[c]})
Waiting(c) == writer[c] = "wait"
Wake(w, c) == IF w[c] = "wait" THEN [w EXCEPT ![c] = "check"] ELSE w

----------------------------------------------------------------------------
\* Consumer::close: the part under the lock, for the thread named who.
\* Nothing happens to a consumer that is closed already.
Close(c, who) ==
    /\ IF state[c] = "Closed"
       THEN UNCHANGED <<state, ring, closing>>
       ELSE /\ state' = [state EXCEPT ![c] = "Closed"]
            /\ ring' = [ring EXCEPT ![c] = <<>>]
            /\ closing' = [closing EXCEPT ![c] = [by |-> who, step |-> "flag"]]
    /\ UNCHANGED <<pendingDrop, offered, closed, closer>>

\* The closed flag is stored and the writer notified ...
CloseFlag(c) ==
    /\ closing[c].step = "flag"
    /\ closed' = [closed EXCEPT ![c] = TRUE]
    /\ closing' = [closing EXCEPT ![c].step = "closer"]
    /\ writer' = Wake(writer, c)
    /\ UNCHANGED <<sub, closer, pubVars, otherVars, innerVars, transportVars, listVars>>

\* ... and then the closer, if it is still there, is run with the counters of
\* that moment: a recorder's stores them in the slot its writer reads.
CloseRunCloser(c) ==
    /\ closing[c].step = "closer"
    /\ closing' = [closing EXCEPT ![c].step = "done"]
    /\ closer' = [closer EXCEPT ![c] = IF @ = "held" THEN "ran" ELSE @]
    /\ slot' = IF closer[c] = "held" /\ c \in Recorders /\ writer[c] # "gone" THEN [slot EXCEPT ![c] = offered[c]] ELSE slot
    /\ UNCHANGED <<sub, closed, writer, inFlight, received, capture, books, pubVars, otherVars, innerVars,
                   listVars>>

\* A thread goes on when its own call of close has returned.
Returned(who) == \A c \in Consumers : closing[c].by = who => closing[c].step = "done"

\* Shared::prune
PruneList ==
    LET gone == {c \in active : closed[c]}
    IN  /\ active' = active \ gone
        /\ newGeneration' = (newGeneration \/ gone # {})
        /\ UNCHANGED closedForNew

----------------------------------------------------------------------------
(* Subscribing *)

\* The first check, under the list lock; the consumer it then creates is
\* private to the subscriber and its new writer thread.  Only a message stream
\* is recorded.
SubscribeCheck(c) ==
    /\ sub[c] = "new"
    /\ ~(c \in Recorders /\ gatedStream)
    /\ nextSeq - 1 <= MaxSeq[Subscribed + 1]
    /\ IF closedForNew \/ OpenCount >= MaxConsumers
       THEN /\ sub' = [sub EXCEPT ![c] = "refused"]
            /\ UNCHANGED <<closer, writer, innerVars>>
       ELSE /\ sub' = [sub EXCEPT ![c] = "created"]
            /\ state' = [state EXCEPT ![c] = "Open"]
            /\ ring' = [ring EXCEPT ![c] = <<Header>>]
            /\ closer' = [closer EXCEPT ![c] = "held"]
            /\ writer' = [writer EXCEPT ![c] = "check"]
            /\ UNCHANGED <<pendingDrop, offered>>
    /\ UNCHANGED <<closed, closing, pubVars, otherVars, transportVars, listVars>>

\* The second check, under the list lock, admits the consumer ...
Admit(c) ==
    /\ sub' = [sub EXCEPT ![c] = "in"]
    /\ active' = active \union {c}
    /\ newGeneration' = TRUE
    /\ due' = [due EXCEPT ![c] = nextSeq]
    /\ UNCHANGED <<gatedStream, closedForNew, pruning, pubVars, writerVars, innerVars, closeVars,
                   drainVars>>

\* Mutants: only one of the two conditions is checked again.
Bug_AdmitUncounted(c) == sub[c] = "created" /\ ~closedForNew /\ Admit(c)
Bug_AdmitLate(c) == sub[c] = "created" /\ OpenCount < MaxConsumers /\ Admit(c)

SubscribeAdmit(c) == sub[c] = "created" /\ ~closedForNew /\ OpenCount < MaxConsumers /\ Admit(c)

\* ... or refuses it: the closer is taken away ...
SubscribeRefuse(c) ==
    /\ sub[c] = "created"
    /\ closedForNew \/ OpenCount >= MaxConsumers
    /\ sub' = [sub EXCEPT ![c] = "refusing"]
    /\ closer' = [closer EXCEPT ![c] = "taken"]
    /\ UNCHANGED <<closed, closing, pubVars, writerVars, otherVars, innerVars, listVars>>

\* ... before the consumer is closed.
SubscribeClose(c) ==
    /\ sub[c] = "refusing"
    /\ sub' = [sub EXCEPT ![c] = "refused"]
    /\ Close(c, "subscriber")
    /\ UNCHANGED <<pubVars, writerVars, otherVars, listVars>>

----------------------------------------------------------------------------
(* Publishing *)

\* publish_binary refuses a row its SpectrumGate does not admit, and counts it.
Withhold ==
    /\ pub = "idle"
    /\ gatedStream
    /\ nextSeq <= MaxSeq[Subscribed]
    /\ nextSeq' = nextSeq + 1
    /\ withheld' = IF withheld = None THEN [first |-> nextSeq, count |-> 1]
                                      ELSE [withheld EXCEPT !.count = @ + 1]
    /\ UNCHANGED <<pub, frame, snapshot, todo, stale, prune, dropped, consumerVars, otherVars, listVars>>

\* publish_binary, publish_message: the record, behind the marker of a withheld run.
Publish ==
    /\ pub = "idle"
    /\ nextSeq <= MaxSeq[Subscribed]
    /\ nextSeq' = nextSeq + 1
    /\ withheld' = None
    /\ frame' = IF withheld = None THEN Frame(Record(nextSeq), nextSeq, 1)
                ELSE Frame(<<Marker(withheld)>> \o Record(nextSeq), withheld.first, withheld.count + 1)
    /\ pub' = "load"
    /\ UNCHANGED <<snapshot, todo, stale, prune, dropped, consumerVars, otherVars, listVars>>

\* The producer is dropped: a withheld run that no row followed is offered as
\* a marker of its own.
DropPublisher ==
    /\ pub = "idle"
    /\ dropped' = TRUE
    /\ withheld' = None
    /\ IF withheld = None
       THEN pub' = "finish" /\ UNCHANGED frame
       ELSE pub' = "load" /\ frame' = Frame(<<Marker(withheld)>>, withheld.first, withheld.count)
    /\ UNCHANGED <<nextSeq, snapshot, todo, stale, prune, consumerVars, otherVars, listVars>>

\* offer: the generation is loaded without the list lock ...
LoadGeneration ==
    /\ pub = "load"
    /\ pub' = IF newGeneration THEN "refresh" ELSE "offer"
    /\ newGeneration' = FALSE
    /\ todo' = snapshot
    /\ UNCHANGED <<nextSeq, withheld, frame, snapshot, stale, prune, dropped, active, closedForNew,
                   consumerVars, otherVars>>

\* ... and the snapshot taken under it, perhaps newer than that generation.
RefreshSnapshot ==
    /\ pub = "refresh"
    /\ pub' = "offer"
    /\ snapshot' = active
    /\ todo' = active
    /\ UNCHANGED <<nextSeq, withheld, frame, stale, prune, dropped, consumerVars, otherVars, listVars>>

\* The next consumer of the snapshot, when the last one is done with.
Offering(c) ==
    /\ pub = "offer"
    /\ c \in todo
    /\ stale = {}
    /\ Returned("publisher")
    /\ todo' = todo \ {c}
    /\ UNCHANGED <<pub, nextSeq, withheld, frame, snapshot, dropped, sub, otherVars, listVars,
                   closeVars>>

\* A consumer that is closed or draining is passed over.
OfferSkips(c) ==
    /\ Offering(c)
    /\ state[c] # "Open"
    /\ prune' = (prune \/ state[c] = "Closed")
    /\ UNCHANGED <<stale, writerVars, innerVars>>

\* What an accepted frame puts in the queue: a pending drop marker goes first.
Queued(c) == (IF pendingDrop[c] = None THEN <<>> ELSE <<Marker(pendingDrop[c])>>) \o frame.units

OfferEnqueues(c) ==
    /\ Offering(c)
    /\ state[c] = "Open"
    /\ Free(c) >= Len(Queued(c))
    /\ ring' = [ring EXCEPT ![c] = @ \o Queued(c)]
    /\ pendingDrop' = [pendingDrop EXCEPT ![c] = None]
    /\ offered' = [offered EXCEPT ![c] = @ + 1]
    /\ writer' = IF ring[c] = <<>> THEN Wake(writer, c) ELSE writer
    /\ UNCHANGED <<stale, prune, state, transportVars>>

\* The drop marker after the frame in hand is dropped too.
\* Mutant: whatever it accounts for, it counts as one.
Bug_Dropping(m) == IF m = None THEN [first |-> frame.first, count |-> 1] ELSE [m EXCEPT !.count = @ + 1]
Dropping(m) == IF m = None THEN [first |-> frame.first, count |-> frame.count]
                           ELSE [m EXCEPT !.count = @ + frame.count]

\* A queue without room: the numbers join the pending marker.  After
\* disconnect_after_drops in a row, or disconnect_after, neither of them
\* counted here, the consumer is stale, unless it is a recorder.
OfferDrops(c) ==
    /\ Offering(c)
    /\ state[c] = "Open"
    /\ Free(c) < Len(Queued(c))
    /\ pendingDrop' = [pendingDrop EXCEPT ![c] = Dropping(@)]
    /\ offered' = [offered EXCEPT ![c] = @ + 1]
    /\ stale' \in {{}, {c} \ Recorders}
    /\ UNCHANGED <<prune, state, ring, writerVars>>

\* The stale consumer is closed after its lock was released.
OfferCloses(c) ==
    /\ c \in stale
    /\ stale' = {}
    /\ prune' = (prune \/ state[c] # "Closed")
    /\ Close(c, "publisher")
    /\ UNCHANGED <<pub, nextSeq, withheld, frame, snapshot, todo, dropped, sub, writerVars, otherVars,
                   listVars>>

OfferEnds ==
    /\ pub = "offer"
    /\ todo = {}
    /\ stale = {}
    /\ Returned("publisher")
    /\ pub' = IF dropped THEN "finish" ELSE "idle"
    /\ frame' = NoFrame
    /\ prune' = FALSE
    /\ IF prune THEN PruneList ELSE UNCHANGED listVars
    /\ UNCHANGED <<nextSeq, withheld, snapshot, todo, stale, dropped, consumerVars, otherVars>>

----------------------------------------------------------------------------
(* Finishing: Shared::finish and its watchdog *)

FinishList ==
    /\ pub = "finish"
    /\ pub' = "drain"
    /\ closedForNew' = TRUE
    /\ todo' = active
    /\ snapshot' = {} /\ newGeneration' = FALSE     \* gone with the Publisher
    /\ UNCHANGED <<nextSeq, withheld, frame, stale, prune, dropped, active, consumerVars, otherVars>>

\* Mutant: draining without a notify.
Bug_FinishDrain(c) ==
    /\ pub = "drain"
    /\ c \in todo
    /\ todo' = todo \ {c}
    /\ IF state[c] = "Open"
       THEN /\ state' = [state EXCEPT ![c] = "Draining"]
            /\ draining' = draining \union {c}
       ELSE UNCHANGED <<state, draining>>
    /\ UNCHANGED writer
    /\ UNCHANGED <<gatedStream, pub, nextSeq, withheld, frame, snapshot, stale, prune, dropped, sub,
                   ring, pendingDrop, offered, watchdog, pruning, due, transportVars, listVars,
                   closeVars>>

FinishDrain(c) ==
    /\ pub = "drain"
    /\ c \in todo
    /\ todo' = todo \ {c}
    /\ IF state[c] = "Open"
       THEN /\ state' = [state EXCEPT ![c] = "Draining"]
            /\ draining' = draining \union {c}
       ELSE UNCHANGED <<state, draining>>
    /\ writer' = Wake(writer, c)
    /\ UNCHANGED <<gatedStream, pub, nextSeq, withheld, frame, snapshot, stale, prune, dropped, sub,
                   ring, pendingDrop, offered, watchdog, pruning, due, transportVars, listVars,
                   closeVars>>

FinishEnds ==
    /\ pub = "drain"
    /\ todo = {}
    /\ pub' = "over"
    /\ watchdog' = IF draining = {} THEN "over" ELSE "watch"
    /\ UNCHANGED <<gatedStream, nextSeq, withheld, frame, snapshot, todo, stale, prune, dropped,
                   draining, pruning, due, consumerVars, listVars>>

\* The watchdog stops watching when all have closed, or at drain_timeout.
WatchdogStops ==
    /\ watchdog = "watch"
    /\ watchdog' = "close"
    /\ UNCHANGED <<gatedStream, draining, pruning, due, consumerVars, pubVars, listVars>>

WatchdogCloses(c) ==
    /\ watchdog = "close"
    /\ c \in draining
    /\ Returned("watchdog")
    /\ draining' = draining \ {c}
    /\ Close(c, "watchdog")
    /\ UNCHANGED <<gatedStream, sub, watchdog, pruning, due, pubVars, writerVars, listVars>>

WatchdogPrunes ==
    /\ watchdog = "close"
    /\ draining = {}
    /\ Returned("watchdog")
    /\ watchdog' = "over"
    /\ PruneList
    /\ UNCHANGED <<gatedStream, draining, pruning, due, consumerVars, pubVars>>

(* PublisherHandle::close and peer_gone, by one other thread.  For a        *)
(* consumer that is closed already they would only prune.                  *)

HandleCloses(c) ==
    /\ ~pruning
    /\ sub[c] = "in"
    /\ state[c] # "Closed"
    /\ Close(c, "handle")
    /\ pruning' = TRUE
    /\ UNCHANGED <<gatedStream, sub, due, pubVars, writerVars, listVars, drainVars>>

HandlePrunes ==
    /\ pruning
    /\ Returned("handle")
    /\ pruning' = FALSE
    /\ PruneList
    /\ UNCHANGED <<gatedStream, due, consumerVars, pubVars, drainVars>>

----------------------------------------------------------------------------
(* CaptureWriter *)

\* The counts of a CaptureWriter.  A segment's are its frames and its
\* dropped_records together: counted in memory, entered in its catalogue entry
\* at the last commit; filed are those of the segments that have ended.
NewCapture == [open |-> FALSE,                          \* there is a segment
               counted |-> 0, frames |-> FALSE,         \* frames: it holds one
               entered |-> 0, enteredFrames |-> FALSE,
               filed |-> 0,
               parsed |-> 0,                            \* received + marked
               failed |-> FALSE]

Counts(k, n) == [k EXCEPT !.parsed = @ + n, !.counted = @ + n]
Opened(k) == [k EXCEPT !.open = TRUE]
Committed(k) == [k EXCEPT !.entered = k.counted, !.enteredFrames = k.frames]
\* roll: the segment ends with what it has counted, the next one starts empty.
Rolled(k) == [k EXCEPT !.filed = @ + k.counted, !.counted = 0, !.frames = FALSE,
                       !.entered = 0, !.enteredFrames = FALSE]

\* on_payload: what may become of the writer when unit u completes a payload.
\* A frame is stored, or dropped and counted when the store is over its quota;
\* a segment that holds a frame may roll before it.
Payload(k, u) ==
    CASE u.kind = "header" -> {Opened(k)}
      [] u.kind = "marker" -> {Counts(k, u.last - u.first + 1)}
      [] u.kind = "tail" -> LET before == {k} \union (IF k.frames THEN {Rolled(k)} ELSE {})
                            IN  {Counts(j, 1) : j \in before}
                                \union {[Counts(j, 1) EXCEPT !.frames = TRUE] : j \in before}
      [] OTHER -> {k}

\* The same when it fails: a segment cannot be opened, or its first commit
\* fails, or a roll cannot commit the segment that ends.  The frame a roll was
\* for has been received, and is neither stored nor counted as dropped.
FailedPayload(k, u) ==
    LET got == [k EXCEPT !.parsed = @ + 1]
    IN  CASE u.kind = "header" -> {k, Opened(k)}
          [] u.kind = "tail" /\ k.frames -> {got, Rolled(got), [Rolled(got) EXCEPT !.open = FALSE]}
          [] OTHER -> {}

Payloads(k, units) == FoldLeft(LAMBDA ks, u : UNION {Payload(j, u) : j \in ks}, {k}, units)

\* write: the payloads a chunk completes, then a commit; or a payload fails,
\* or the commit does.
CaptureWrites(k, units) == {Committed(j) : j \in Payloads(k, units)}
CaptureFails(k, units) ==
    {[j EXCEPT !.failed = TRUE] :
        j \in Payloads(k, units)
             \union UNION {UNION {FailedPayload(h, units[n]) : h \in Payloads(k, SubSeq(units, 1, n - 1))} :
                              n \in 1..Len(units)}}

\* Mutant: what was lost is added when the last segment has been committed.
Bug_WithLost(k, lost) == k

\* drop: the loss is added to the last segment, if there is one, before the
\* segment is finished ...
WithLost(k, lost) == IF k.open THEN [k EXCEPT !.counted = @ + lost] ELSE k

\* ... which commits it.  That can only fail after a write that failed; the
\* entry then keeps the counts of the last commit.  A capture without frames
\* is deleted.
Finished(k) == {TRUE} \union (IF k.failed THEN {FALSE} ELSE {})
Kept(k, committed) == k.open /\ (IF committed THEN k.frames ELSE k.enteredFrames)
Catalogued(k, committed) ==
    k.filed + (IF ~Kept(k, committed) THEN 0 ELSE IF committed THEN k.counted ELSE k.entered)

----------------------------------------------------------------------------
(* writer_loop *)

\* One turn of the loop, under the consumer's lock.
WriterTurn(c) ==
    /\ writer[c] = "check"
    /\ UNCHANGED <<sub, state, offered, received, slot, capture, books, pubVars, otherVars, listVars, closeVars>>

WriterGoes(c, place) == writer' = [writer EXCEPT ![c] = place]

WriterReturns(c) ==
    /\ WriterTurn(c)
    /\ state[c] = "Closed"
    /\ WriterGoes(c, "return")
    /\ UNCHANGED <<ring, pendingDrop, inFlight>>

WriterPops(c) ==
    /\ WriterTurn(c)
    /\ state[c] # "Closed"
    /\ ring[c] # <<>>
    /\ \E n \in 1..Chunk :
          /\ n = Chunk \/ n = Len(ring[c])
          /\ n <= Len(ring[c])
          /\ inFlight' = [inFlight EXCEPT ![c] = SubSeq(ring[c], 1, n)]
          /\ ring' = [ring EXCEPT ![c] = SubSeq(@, n + 1, Len(@))]
    /\ WriterGoes(c, "write")
    /\ UNCHANGED pendingDrop

WriterWaits(c) ==
    /\ WriterTurn(c)
    /\ state[c] = "Open"
    /\ ring[c] = <<>>
    /\ WriterGoes(c, "wait")
    /\ UNCHANGED <<ring, pendingDrop, inFlight>>

\* Drops just before the end still get their marker: it is queued and popped.
WriterLastMarker(c) ==
    /\ WriterTurn(c)
    /\ state[c] = "Draining"
    /\ ring[c] = <<>>
    /\ pendingDrop[c] # None
    /\ inFlight' = [inFlight EXCEPT ![c] = <<Marker(pendingDrop[c])>>]
    /\ pendingDrop' = [pendingDrop EXCEPT ![c] = None]
    /\ WriterGoes(c, "write")
    /\ UNCHANGED ring

WriterFlushes(c) ==
    /\ WriterTurn(c)
    /\ state[c] = "Draining"
    /\ ring[c] = <<>>
    /\ pendingDrop[c] = None
    /\ WriterGoes(c, "flush")
    /\ UNCHANGED <<ring, pendingDrop, inFlight>>

\* write_all returns.  How long it takes is the transport's affair.
WriteDone(c) ==
    /\ writer[c] = "write"
    /\ received' = [received EXCEPT ![c] = @ \o inFlight[c]]
    /\ inFlight' = [inFlight EXCEPT ![c] = <<>>]
    /\ WriterGoes(c, "check")
    /\ IF c \in Recorders
       THEN \E k \in CaptureWrites(capture[c], inFlight[c]) : capture' = [capture EXCEPT ![c] = k]
       ELSE UNCHANGED capture
    /\ UNCHANGED <<sub, slot, books, pubVars, otherVars, innerVars, listVars, closeVars>>

\* The write fails, or the last flush is done: the writer closes the consumer.
\* A CaptureWriter has nothing left to flush.
WriterCloses(c) ==
    /\ writer[c] \in {"write", "flush"}
    /\ Close(c, "writer")
    /\ WriterGoes(c, "close")
    /\ inFlight' = [inFlight EXCEPT ![c] = <<>>]
    /\ IF c \in Recorders /\ writer[c] = "write"
       THEN \E k \in CaptureFails(capture[c], inFlight[c]) : capture' = [capture EXCEPT ![c] = k]
       ELSE UNCHANGED capture
    /\ UNCHANGED <<sub, received, slot, books, pubVars, otherVars, listVars>>

WriterClosed(c) ==
    /\ writer[c] = "close"
    /\ closing[c].by = "writer" => closing[c].step = "done"
    /\ WriterGoes(c, "return")
    /\ UNCHANGED <<sub, pubVars, otherVars, innerVars, transportVars, listVars, closeVars>>

\* The thread returns and its transport is dropped.  A CaptureWriter closes its
\* books: it adds as lost what the slot says it was offered beyond what it
\* parsed.  What nobody will read again is forgotten.
WriterDropsTransport(c) ==
    /\ writer[c] = "return"
    /\ WriterGoes(c, "gone")
    /\ LET k == WithLost(capture[c], IF slot[c] > capture[c].parsed THEN slot[c] - capture[c].parsed ELSE 0)
       IN  IF c \notin Recorders THEN UNCHANGED books
           ELSE \E committed \in Finished(k) :
                  books' = [books EXCEPT ![c] =
                              [told |-> slot[c] # NotTold,
                               listed |-> Kept(k, committed),
                               committed |-> committed,
                               failed |-> k.failed,
                               missing |-> offered[c] - Catalogued(k, committed)]]
    /\ capture' = [capture EXCEPT ![c] = NewCapture]
    /\ received' = [received EXCEPT ![c] = <<>>]
    /\ pendingDrop' = [pendingDrop EXCEPT ![c] = None]
    /\ slot' = [slot EXCEPT ![c] = NotTold]
    /\ offered' = [offered EXCEPT ![c] = 0]
    /\ due' = [due EXCEPT ![c] = 0]
    /\ UNCHANGED <<gatedStream, sub, state, ring, inFlight, pruning, pubVars, listVars, closeVars,
                   drainVars>>

----------------------------------------------------------------------------
Init ==
    /\ gatedStream \in BOOLEAN
    /\ pub = "idle" /\ nextSeq = 1 /\ withheld = None /\ frame = NoFrame
    /\ snapshot = {} /\ todo = {} /\ stale = {} /\ prune = FALSE /\ dropped = FALSE
    /\ active = {} /\ closedForNew = FALSE /\ newGeneration = TRUE
    /\ sub = [c \in Consumers |-> "new"]
    /\ state = [c \in Consumers |-> "none"]
    /\ ring = [c \in Consumers |-> <<>>]
    /\ pendingDrop = [c \in Consumers |-> None]
    /\ offered = [c \in Consumers |-> 0]
    /\ closed = [c \in Consumers |-> FALSE]
    /\ closing = [c \in Consumers |-> [by |-> "nobody", step |-> "none"]]
    /\ closer = [c \in Consumers |-> "none"]
    /\ writer = [c \in Consumers |-> "none"]
    /\ inFlight = [c \in Consumers |-> <<>>]
    /\ received = [c \in Consumers |-> <<>>]
    /\ slot = [c \in Consumers |-> NotTold]
    /\ capture = [c \in Consumers |-> NewCapture]
    /\ books = [c \in Consumers |-> [told |-> FALSE, listed |-> FALSE, committed |-> FALSE,
                               failed |-> FALSE, missing |-> 0]]
    /\ watchdog = "none" /\ draining = {} /\ pruning = FALSE
    /\ due = [c \in Consumers |-> 0]

Subscriber(c) == SubscribeAdmit(c) \/ SubscribeRefuse(c) \/ SubscribeClose(c)
Closer(c) == CloseFlag(c) \/ CloseRunCloser(c)
Offer == LoadGeneration \/ RefreshSnapshot \/ OfferEnds
         \/ \E c \in Consumers : OfferSkips(c) \/ OfferEnqueues(c) \/ OfferDrops(c) \/ OfferCloses(c)
Finish == FinishList \/ FinishEnds \/ \E c \in Consumers : FinishDrain(c)
Watchdog == WatchdogStops \/ WatchdogPrunes \/ \E c \in Consumers : WatchdogCloses(c)
WriterRuns(c) == WriterReturns(c) \/ WriterPops(c) \/ WriterWaits(c) \/ WriterLastMarker(c)
                 \/ WriterFlushes(c) \/ WriterClosed(c) \/ WriterDropsTransport(c)

Next ==
    \/ Withhold \/ Publish \/ DropPublisher \/ Offer \/ Finish \/ Watchdog \/ HandlePrunes
    \/ \E c \in Consumers : SubscribeCheck(c) \/ Subscriber(c) \/ Closer(c) \/ HandleCloses(c)
                            \/ WriterRuns(c) \/ WriteDone(c) \/ WriterCloses(c)

\* Threads run, but a write may never return: only the closer of a socket makes
\* it.  Nobody has to publish, drop the producer or use a handle.
Fairness ==
    /\ WF_vars(Offer) /\ WF_vars(Finish) /\ WF_vars(Watchdog)
    /\ \A c \in Consumers :
          /\ WF_vars(Subscriber(c)) /\ WF_vars(Closer(c)) /\ WF_vars(WriterRuns(c))
          /\ WF_vars(c \notin Recorders /\ closer[c] = "ran" /\ WriterCloses(c))

Spec == Init /\ [][Next]_vars
FairSpec == Spec /\ Fairness

----------------------------------------------------------------------------
(* Properties *)

\* The first number not yet offered to c: that of the frame in hand until c's
\* turn in the snapshot is over, then the withheld run's or the next record's.
NextFor(c) ==
    IF pub \in {"load", "refresh"} \/ (pub = "offer" /\ c \in todo) THEN frame.first
    ELSE IF withheld # None THEN withheld.first ELSE nextSeq

\* b may come right after a: records whole, numbers without a gap or a repeat.
Follows(a, b) ==
    IF a.kind \in {"head", "body"}
    THEN b.first = a.first /\ b.kind = IF a.kind = "head" THEN "body" ELSE "tail"
    ELSE /\ b.kind \in {"head", "marker"}
         /\ a.kind # "header" => b.first = a.last + 1

WellFormed(s) == /\ s # <<>> => Head(s) = Header
                 /\ \A i \in 1..(Len(s) - 1) : Follows(s[i], s[i + 1])

\* Everything the transport has had or will have: a record that is neither
\* delivered nor queued is counted by the pending marker.
Stream(c) == received[c] \o inFlight[c] \o ring[c]
             \o (IF pendingDrop[c] = None THEN <<>> ELSE <<Marker(pendingDrop[c])>>)

\* An admitted consumer loses no sequence number: from the first one published
\* after subscribe returned to the last one offered, each is in exactly one
\* whole record or one marker, in order, across full queues, withheld rows,
\* split pops and snapshots taken while the list changes.  Whatever closes a
\* consumer, its transport has been given a prefix of such a stream.
StreamIsComplete ==
    /\ \A c \in Consumers :
        sub[c] = "in" /\ state[c] \in {"Open", "Draining"} =>
            LET s == Stream(c)
            IN  /\ s # <<>> /\ WellFormed(s)
                /\ IF Len(s) = 1 THEN NextFor(c) <= due[c]
                   ELSE s[2].first <= due[c] /\ Last(s).last = NextFor(c) - 1
    /\ \A c \in Consumers : WellFormed(received[c])

\* Subscribers that raced each other through the first check do not exceed
\* max_consumers together.
AtMostMaxConsumers == OpenCount <= MaxConsumers

\* A writer asleep has nothing to do, or a thread is about to notify it: offer
\* notifies only when the queue was empty.
SleepersHaveNothingToDo ==
    \A c \in Consumers :
        Waiting(c) => \/ state[c] = "Open" /\ ring[c] = <<>>
                      \/ closing[c].step = "flag"

\* The catalogue never counts more than a recorder was offered, in frames and
\* dropped records together.  When its closer ran before its writer thread
\* returned, and its last segment was committed and has an entry, it counts
\* exactly that, across full queues, drop markers, rolled segments, the quota
\* and what was thrown away with the queue; after a write that failed, the one
\* frame at which a roll failed may be missing.
BooksOnceTold ==
    \A c \in Recorders :
        /\ books[c].missing >= 0
        /\ books[c].told /\ books[c].listed /\ books[c].committed =>
             books[c].missing <= (IF books[c].failed THEN 1 ELSE 0)

\* When the producer has gone, every consumer it had is closed and its closer
\* run, though a recorder's write may never return, and the writer threads of
\* the sockets end, which only their closers can see to.
FinishClosesEveryone ==
    pub = "over" ~> \A c \in Consumers :
                        sub[c] = "in" => /\ closed[c]
                                         /\ closer[c] = "ran"
                                         /\ c \notin Recorders => writer[c] = "gone"

\* CaptureWriter::drop: "`frames + dropped_records` still adds up to what was
\* published and the loss is a measurement rather than a hole", for a capture
\* whose disk never failed and whose last segment has an entry.
BooksBalance ==
    \A c \in Recorders : books[c].listed /\ ~books[c].failed => books[c].missing = 0

=============================================================================
