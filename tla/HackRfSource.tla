---------------------------- MODULE HackRfSource ----------------------------
(***************************************************************************)
(* hk-core's HackRF source: control threads post settings to a mailbox     *)
(* (HackRfControl, ControlMailbox), the capture thread applies them to the *)
(* radio at a block boundary and reads blocks (HackRfSource::next_block),  *)
(* and the radio fills transfers that reach it through the pool            *)
(* (TransferQueue).  Knob values are abstract; what is kept is which       *)
(* settings were in force while a transfer was being filled.  The radio    *)
(* and libusb are external: a transfer is filled one after another, and a  *)
(* filled one waits for its callback, up to CallbackLag of them at once.   *)
(***************************************************************************)
EXTENDS TransferQueue

CONSTANTS
  Controllers,   \* threads that call SourceControl
  Operations,    \* SourceControl operations they use
  Values,        \* values of a knob
  GainChoices,   \* gains handed to set_gains
  MaxPosts,      \* bound: posts in a behaviour
  MaxFaults,     \* bound: device calls that fail
  Clips,         \* whether a block may clip past overload_clip_fraction
  CallbackLag    \* how many filled transfers may wait for their callback

ASSUME SourceAssumption ==
  /\ Controllers # {}
  /\ Operations \subseteq {"tune", "rate", "filter", "bias", "gains", "gain"}
  /\ Values \subseteq Nat /\ 0 \in Values
  /\ Clips \subseteq BOOLEAN /\ Clips # {}
  /\ MaxPosts \in Nat /\ MaxFaults \in Nat /\ CallbackLag \in Nat \ {0}

VARIABLES
  device,          \* the radio's settings
  filling,         \* settings in force since the transfer now filling began
  completed,       \* the same for filled transfers whose callback has not run
  requested, requested_lock,               \* HackRfControl::requested
  pending, generation, mailbox_lock,       \* ControlMailbox
  ctl, request, stopped,                   \* each control thread; HackRfControl::stopped
  tune,            \* the settings as the stream knows them (Tune and BiasTee)
  filter_explicit, overloaded, provenance,
  state, mailbox_seen, pending_flags, discard_below_seq, next_index, progress,
  pc, todo, before, failed,                \* the capture thread: where it is, device calls to make
  block,           \* the last block delivered, or None
  delivered_samples, discarded_samples,    \* HackRfStats
  held_back,       \* ghost: the filled transfers that waited when discard_below_seq was set
  lost_samples,    \* ghost: sum of the dropped_before delivered
  truncated,       \* ghost: samples that did not fit their buffer
  posted,          \* ghost: the value last posted to each knob
  posts, faults    \* counters of the bounds

radio == <<device, filling, completed>>
control == <<requested, requested_lock, ctl, request, stopped, posted, posts>>
mailbox == <<pending, generation, mailbox_lock>>
tuning == <<tune, filter_explicit, overloaded, provenance>>
stream == <<state, mailbox_seen, pending_flags, discard_below_seq, held_back, next_index, progress>>
frame == <<todo, before, failed>>
output == <<block, delivered_samples, discarded_samples, lost_samples>>
vars == <<queueVars, radio, control, mailbox, tuning, stream, pc, frame, output, truncated, faults>>

GainKnobs == {"lna", "vga", "amp"}

Knobs == {"rate", "filter", "freq", "bias"} \cup GainKnobs

Settings == [Knobs -> Values]

ASSUME GainAssumption == GainChoices \subseteq [GainKnobs -> Values]

NoChange == [k \in {} |-> 0]

Over(new, old) == [k \in DOMAIN new \cup DOMAIN old |-> IF k \in DOMAIN new THEN new[k] ELSE old[k]]

Gains(settings) == [k \in GainKnobs |-> settings[k]]

Nobody == "nobody"

ASSUME ControllerAssumption == Nobody \notin Controllers

(* compute_baseband_filter_bw(0.75 * rate): a function of the rate. *)
FilterFor(rate) == rate

(* Discontinuity::between *)
Between(prev, next) ==
  {f \in {"RETUNE", "RATE_CHANGE", "GAIN_CHANGE", "PROVENANCE_CHANGE"} :
     CASE f = "RETUNE" -> prev.tune["freq"] # next.tune["freq"]
       [] f = "RATE_CHANGE" -> prev.tune["rate"] # next.tune["rate"]
       [] f = "GAIN_CHANGE" -> Gains(prev.tune) # Gains(next.tune)
       [] OTHER -> prev # next}

Provenance(settings, overload) == [tune |-> settings, overload |-> overload]

Init ==
  /\ QueueInit
  /\ device = [k \in Knobs |-> 0]
  /\ filling = {device} /\ completed = <<>>
  /\ requested = Gains(device) /\ requested_lock = Nobody
  /\ pending = NoChange /\ generation = 0 /\ mailbox_lock = Nobody
  /\ ctl = [c \in Controllers |-> "idle"] /\ request = [c \in Controllers |-> NoChange]
  /\ stopped = FALSE
  /\ tune = device /\ filter_explicit \in BOOLEAN /\ overloaded = FALSE
  /\ provenance = Provenance(device, FALSE)
  /\ state = "Idle" /\ mailbox_seen = 0 /\ pending_flags = {"STREAM_START"}
  /\ discard_below_seq = 0 /\ held_back = 0 /\ next_index = 0 /\ progress = 0
  /\ pc = "caller" /\ todo = <<>> /\ before = device /\ failed = FALSE
  /\ block = None
  /\ delivered_samples = 0 /\ discarded_samples = 0 /\ lost_samples = 0 /\ truncated = 0
  /\ posted = NoChange /\ posts = 0 /\ faults = 0

-----------------------------------------------------------------------------
(* The radio and the callback *)

radioFrame == <<device, control, mailbox, tuning, stream, pc, frame, output, faults>>

CompleteTransfer ==
  /\ state = "Streaming"
  /\ Len(completed) < CallbackLag
  /\ next_seq + Len(completed) < MaxTransfers
  /\ completed' = Append(completed, filling)
  /\ filling' = {device}
  /\ UNCHANGED <<queueVars, radioFrame, truncated>>

(* What a transfer's samples are: the settings they were taken under, and how many samples     *)
(* before them the pool has lost.                                                              *)
Samples(settings) == [settings |-> settings, lost |-> dropped_samples + truncated]

(* The callback runs for the oldest filled transfer. *)
TransferArrives ==
  /\ state = "Streaming"
  /\ completed # <<>>
  /\ \E len \in Lens : Arrive(len, Samples(Head(completed)))
  /\ completed' = Tail(completed)
  /\ UNCHANGED <<radioFrame, filling, truncated>>

CallbackStep ==
  /\ Accept \/ DropTransfer \/ Publish
  /\ truncated' = IF accepted THEN truncated + (arriving.len - Fitting(arriving.len)) ELSE truncated
  /\ UNCHANGED <<radioFrame, filling, completed>>

-----------------------------------------------------------------------------
(* SourceControl: tune, set_sample_rate, set_baseband_filter, set_bias_tee, *)
(* set_gains and set_gain post one change; stop only sets a flag            *)

controlFrame == <<queueVars, radio, tuning, stream, pc, frame, output, truncated, faults>>

KnobOf(operation) ==
  CASE operation = "tune" -> "freq" [] operation = "rate" -> "rate"
    [] operation = "filter" -> "filter" [] operation = "bias" -> "bias"

RequestKnob(c, operation, value) ==
  /\ ctl[c] = "idle" /\ posts < MaxPosts
  /\ operation \in Operations \cap {"tune", "rate", "filter", "bias"}
  /\ request' = [request EXCEPT ![c] = [k \in {KnobOf(operation)} |-> value]]
  /\ ctl' = [ctl EXCEPT ![c] = "post"]
  /\ posts' = posts + 1
  /\ UNCHANGED <<controlFrame, mailbox, requested, requested_lock, stopped, posted>>

Bug_RequestGains(c, gains) ==
  /\ ctl[c] = "idle" /\ posts < MaxPosts
  /\ requested' = gains
  /\ request' = [request EXCEPT ![c] = gains]
  /\ ctl' = [ctl EXCEPT ![c] = "post"]
  /\ posts' = posts + 1
  /\ UNCHANGED <<controlFrame, mailbox, requested_lock, stopped, posted>>

(* The lock on the requested gains is held until the change is posted. *)
RequestGains(c, gains) ==
  /\ ctl[c] = "idle" /\ posts < MaxPosts
  /\ requested_lock = Nobody
  /\ requested_lock' = c
  /\ requested' = gains
  /\ request' = [request EXCEPT ![c] = gains]
  /\ ctl' = [ctl EXCEPT ![c] = "post"]
  /\ posts' = posts + 1
  /\ UNCHANGED <<controlFrame, mailbox, stopped, posted>>

SetGains(c, gains) == "gains" \in Operations /\ RequestGains(c, gains)

(* One named stage, merged into the gains last requested. *)
SetGain(c, stage, value) ==
  "gain" \in Operations /\ RequestGains(c, [requested EXCEPT ![stage] = value])

(* ControlMailbox::post, under its lock: the change first, then the generation. *)
Post(c) ==
  /\ ctl[c] = "post"
  /\ mailbox_lock = Nobody
  /\ mailbox_lock' = c
  /\ pending' = Over(request[c], pending)
  /\ posted' = [k \in DOMAIN posted \cup DOMAIN request[c] |->
                 IF k \in DOMAIN request[c] THEN request[c][k] ELSE posted[k]]
  /\ ctl' = [ctl EXCEPT ![c] = "bump"]
  /\ UNCHANGED <<controlFrame, generation, requested, requested_lock, request, stopped, posts>>

Bug_Bump(c) ==
  /\ ctl[c] = "bump"
  /\ mailbox_lock' = Nobody
  /\ requested_lock' = IF requested_lock = c THEN Nobody ELSE requested_lock
  /\ request' = [request EXCEPT ![c] = NoChange]
  /\ ctl' = [ctl EXCEPT ![c] = "idle"]
  /\ UNCHANGED <<controlFrame, pending, generation, requested, stopped, posted, posts>>

Bump(c) ==
  /\ ctl[c] = "bump"
  /\ generation' = generation + 1
  /\ mailbox_lock' = Nobody
  /\ requested_lock' = IF requested_lock = c THEN Nobody ELSE requested_lock
  /\ request' = [request EXCEPT ![c] = NoChange]
  /\ ctl' = [ctl EXCEPT ![c] = "idle"]
  /\ UNCHANGED <<controlFrame, pending, requested, stopped, posted, posts>>

Stop ==
  /\ ~stopped
  /\ stopped' = TRUE
  /\ UNCHANGED <<controlFrame, mailbox, requested, requested_lock, ctl, request, posted, posts>>

ControlStep(c) == Post(c) \/ Bump(c)

-----------------------------------------------------------------------------
(* HackRfSource::next_block *)

captureFrame == <<control, truncated>>

Goes(from, to) == pc = from /\ pc' = to

Call ==
  /\ Goes("caller", "top")
  /\ UNCHANGED <<captureFrame, queueVars, radio, mailbox, tuning, stream, frame, output, faults>>

(* finish: stop_rx returns when no callback is running. *)
Finish ==
  /\ arriving = None
  /\ state' = "Finished"
  /\ UNCHANGED <<captureFrame, queueVars, radio, mailbox, tuning, mailbox_seen, pending_flags,
                 discard_below_seq, held_back, next_index, progress, frame, output, faults>>

Bug_EndOfStream ==
  /\ Goes("top", "caller")
  /\ state = "Finished"
  /\ Finish

EndOfStream ==
  /\ Goes("top", "caller")
  /\ stopped \/ state = "Finished"
  /\ Finish

(* The caller drops the source. *)
Drop ==
  /\ Goes("caller", "caller")
  /\ state # "Finished"
  /\ Finish

Begin ==
  /\ Goes("top", "mailbox")
  /\ ~stopped /\ state = "Idle"
  /\ state' = "Streaming"
  /\ progress' = next_seq
  /\ UNCHANGED <<captureFrame, queueVars, radio, mailbox, tuning, mailbox_seen, pending_flags,
                 discard_below_seq, held_back, next_index, frame, output, faults>>

(* start_rx fails: the source stays idle and the caller has the error. *)
BeginFails ==
  /\ Goes("top", "caller")
  /\ ~stopped /\ state = "Idle"
  /\ faults < MaxFaults
  /\ faults' = faults + 1
  /\ UNCHANGED <<captureFrame, queueVars, radio, mailbox, tuning, stream, frame, output>>

Continue ==
  /\ Goes("top", "mailbox")
  /\ ~stopped /\ state = "Streaming"
  /\ UNCHANGED <<captureFrame, queueVars, radio, mailbox, tuning, stream, frame, output, faults>>

(* ControlMailbox::take: nothing new, or a control thread holds the lock. *)
NothingPosted ==
  /\ Goes("mailbox", "poll")
  /\ generation = mailbox_seen
  /\ UNCHANGED <<captureFrame, queueVars, radio, mailbox, tuning, stream, frame, output, faults>>

SomethingPosted ==
  /\ Goes("mailbox", "lock")
  /\ generation # mailbox_seen
  /\ UNCHANGED <<captureFrame, queueVars, radio, mailbox, tuning, stream, frame, output, faults>>

MailboxBusy ==
  /\ Goes("lock", "poll")
  /\ mailbox_lock # Nobody
  /\ UNCHANGED <<captureFrame, queueVars, radio, mailbox, tuning, stream, frame, output, faults>>

(* apply_change: the device calls a change asks for, in order. *)
DeviceCall(change, knob) ==
  IF knob \in DOMAIN change
  THEN <<[knob |-> knob, value |-> change[knob], explicit |-> knob = "filter"]>>
  ELSE <<>>

FilterAfterRate(change) ==
  IF "rate" \in DOMAIN change
  THEN <<[knob |-> "filter", explicit |-> FALSE,
          value |-> IF filter_explicit THEN tune["filter"] ELSE FilterFor(change["rate"])]>>
  ELSE <<>>

DeviceCalls(change) ==
  DeviceCall(change, "rate") \o FilterAfterRate(change) \o DeviceCall(change, "filter")
  \o DeviceCall(change, "lna") \o DeviceCall(change, "vga") \o DeviceCall(change, "amp")
  \o DeviceCall(change, "freq") \o DeviceCall(change, "bias")

TakePosted ==
  /\ Goes("lock", "apply")
  /\ mailbox_lock = Nobody
  /\ mailbox_seen' = generation
  /\ pending' = NoChange
  /\ todo' = DeviceCalls(pending)
  /\ before' = tune
  /\ UNCHANGED <<captureFrame, queueVars, radio, generation, mailbox_lock, tuning, state, pending_flags,
                 discard_below_seq, held_back, next_index, progress, failed, output, faults>>

ApplyCall ==
  /\ Goes("apply", "apply")
  /\ todo # <<>>
  /\ LET call == Head(todo) IN
       /\ device' = [device EXCEPT ![call.knob] = call.value]
       /\ tune' = [tune EXCEPT ![call.knob] = call.value]
       /\ filter_explicit' = (filter_explicit \/ call.explicit)
  /\ filling' = filling \cup {device'}
  /\ todo' = Tail(todo)
  /\ UNCHANGED <<captureFrame, queueVars, completed, mailbox, overloaded, provenance, stream, before,
                 failed, output, faults>>

ApplyFails ==
  /\ Goes("apply", "apply")
  /\ todo # <<>>
  /\ faults < MaxFaults
  /\ faults' = faults + 1
  /\ failed' = TRUE
  /\ todo' = <<>>
  /\ UNCHANGED <<captureFrame, queueVars, radio, mailbox, tuning, stream, before, output>>

Mint(flags, overload) ==
  /\ overloaded' = overload
  /\ provenance' = Provenance(tune, overload)
  /\ pending_flags' = flags \cup Between(provenance, provenance')

Bug_SettledSeq == next_seq

(* The transfers whose callback has run and the next one are to be discarded. *)
SettledSeq == next_seq + 1

(* The change is over, or has failed part way: what reached the device is the new provenance. *)
Settle ==
  /\ pc = "apply" /\ todo = <<>>
  /\ pc' = IF failed THEN "caller" ELSE "poll"
  /\ failed' = FALSE
  /\ discard_below_seq' = SettledSeq
  /\ held_back' = Len(completed)
  /\ IF tune # before
     THEN Mint(pending_flags, overloaded /\ \A k \in Knobs \ {"bias"} : tune[k] = before[k])
     ELSE UNCHANGED <<overloaded, provenance, pending_flags>>
  /\ before' = tune
  /\ UNCHANGED <<captureFrame, queueVars, radio, mailbox, tune, filter_explicit, state, mailbox_seen,
                 next_index, progress, todo, output, faults>>

TakeTransfer ==
  /\ Goes("poll", "process")
  /\ Take
  /\ UNCHANGED <<captureFrame, radio, mailbox, tuning, stream, frame, output, faults>>

NoTransfer ==
  /\ Goes("poll", "stall")
  /\ filled = <<>>
  /\ UNCHANGED <<captureFrame, queueVars, radio, mailbox, tuning, stream, frame, output, faults>>

(* check_stall, and a wait that ends with the next transfer or by itself. *)
CheckStall ==
  /\ Goes("stall", "top")
  /\ progress' = next_seq
  /\ UNCHANGED <<captureFrame, queueVars, radio, mailbox, tuning, state, mailbox_seen, pending_flags,
                 discard_below_seq, held_back, next_index, frame, output, faults>>

(* Nothing has arrived for STALL_TIMEOUT. *)
Stalled ==
  /\ Goes("stall", "caller")
  /\ next_seq = progress
  /\ faults < MaxFaults
  /\ faults' = faults + 1
  /\ UNCHANGED <<captureFrame, queueVars, radio, mailbox, tuning, stream, frame, output>>

Bug_Discard ==
  /\ Goes("process", "top")
  /\ taken.seq < discard_below_seq
  /\ discarded_samples' = discarded_samples + taken.len
  /\ pending_flags' = {}
  /\ Recycle
  /\ UNCHANGED <<captureFrame, radio, mailbox, tuning, state, mailbox_seen, discard_below_seq, held_back, next_index,
                 progress, frame, block, delivered_samples, lost_samples, faults>>

Discard ==
  /\ Goes("process", "top")
  /\ taken.seq < discard_below_seq
  /\ discarded_samples' = discarded_samples + taken.len
  /\ Recycle
  /\ UNCHANGED <<captureFrame, radio, mailbox, tuning, stream, frame, block, delivered_samples,
                 lost_samples, faults>>

SkipEmpty ==
  /\ Goes("process", "top")
  /\ taken.seq >= discard_below_seq /\ taken.len = 0
  /\ Recycle
  /\ UNCHANGED <<captureFrame, radio, mailbox, tuning, stream, frame, output, faults>>

Bug_Index == next_index

(* The block's place in the stream is its transfer's, drops and discards included. *)
Index == taken.offset

MissingBefore == IF Index > next_index THEN Index - next_index ELSE 0

Deliver ==
  /\ Goes("process", "caller")
  /\ taken.seq >= discard_below_seq /\ taken.len > 0
  /\ \E clipped \in Clips :
       /\ overloaded' = (overloaded \/ clipped)
       /\ provenance' = IF overloaded' # overloaded THEN Provenance(tune, TRUE) ELSE provenance
  /\ block' = [dropped_before |-> MissingBefore, provenance |-> provenance',
               data |-> taken.data, flags |-> pending_flags \cup Between(provenance, provenance')
                         \cup (IF MissingBefore > 0 THEN {"GAP"} ELSE {})]
  /\ pending_flags' = {}
  /\ next_index' = Index + taken.len
  /\ delivered_samples' = delivered_samples + taken.len
  /\ lost_samples' = lost_samples + MissingBefore
  /\ Recycle
  /\ UNCHANGED <<captureFrame, radio, mailbox, tune, filter_explicit, state, mailbox_seen,
                 discard_below_seq, held_back, progress, frame, discarded_samples, faults>>

CaptureStep ==
  \/ EndOfStream \/ Begin \/ Continue
  \/ NothingPosted \/ SomethingPosted \/ MailboxBusy \/ TakePosted
  \/ ApplyCall \/ Settle
  \/ TakeTransfer \/ NoTransfer \/ CheckStall
  \/ Discard \/ SkipEmpty \/ Deliver

Next ==
  \/ CompleteTransfer \/ TransferArrives \/ CallbackStep
  \/ \E c \in Controllers :
       \/ \E operation \in Operations, value \in Values : RequestKnob(c, operation, value)
       \/ \E gains \in GainChoices : SetGains(c, gains)
       \/ \E stage \in GainKnobs, value \in Values : SetGain(c, stage, value)
       \/ ControlStep(c)
  \/ Stop
  \/ Call \/ Drop \/ CaptureStep
  \/ BeginFails \/ ApplyFails \/ Stalled

Spec == Init /\ [][Next]_vars

(* The pipeline calls next_block again, its thread and a control thread inside a post run, and *)
(* a callback that has begun ends.  Nothing obliges the radio to deliver.                      *)
FairSpec ==
  Spec /\ WF_vars(Call) /\ WF_vars(CaptureStep) /\ WF_vars(CallbackStep)
       /\ \A c \in Controllers : WF_vars(ControlStep(c))

-----------------------------------------------------------------------------
(* Properties *)

(* Settling works but for the transfers that libusb held back: every sample of a block was     *)
(* taken under exactly the settings its provenance names, also after a change that failed part *)
(* way, unless the block is one of the first after the change, at most as many as there were    *)
(* filled transfers whose callback had not run when the change was made.                       *)
MixedOnlyIfHeldBack ==
  [][delivered_samples' # delivered_samples /\ taken.seq >= discard_below_seq + held_back
       => block'.data.settings = {block'.provenance.tune}]_vars

(* What the code says of it: "Transfers that arrived before the change finished, plus the one  *)
(* in flight, are discarded (settle), so no block mixes two settings".  What is counted as     *)
(* arrived is the callbacks that have run, so a transfer that waits for its own takes the      *)
(* place of the one in flight.                                                                 *)
NoBlockMixesSettings == block # None => block.data.settings = {block.provenance.tune}

(* The first block starts the stream; a block whose provenance is not the previous block's     *)
(* says how it differs, whatever was discarded, failed or overloaded in between; and a block   *)
(* is flagged GAP exactly when samples are missing before it.                                  *)
ChangesAreFlagged ==
  [][block' # block =>
       /\ block = None => "STREAM_START" \in block'.flags
       /\ block # None => Between(block.provenance, block'.provenance) \subseteq block'.flags
       /\ "GAP" \in block'.flags <=> block'.dropped_before > 0]_vars

(* The gaps are exact: the samples the blocks so far report missing are those the pool dropped *)
(* or cut off before this block and those discarded while settling; the sample counter and the *)
(* delivered samples say the same.                                                             *)
GapsAreExact ==
  [][block' # block =>
       /\ lost_samples' = taken.data.lost + discarded_samples
       /\ next_index' = delivered_samples' + lost_samples']_vars

Applied == pending = NoChange /\ pc # "apply" /\ faults = 0

(* With nothing left to apply and no device error the radio has the value last posted to each  *)
(* knob, the stream knows it, and two threads that changed gains, whole or by one stage, leave  *)
(* it with the gains the control handle says were last requested.                              *)
RadioIsAsRequested ==
  Applied => /\ device = tune
             /\ \A k \in DOMAIN posted : device[k] = posted[k]
             /\ (\A c \in Controllers : ctl[c] = "idle") => Gains(device) = requested

(* A posted change is taken up, whatever the radio delivers and whoever holds the mailbox when  *)
(* the capture thread looks, unless the stream ends.                                           *)
PostedIsApplied ==
  (pending # NoChange) ~> (pending = NoChange \/ state = "Finished")

(* stop ends the stream.                                                                       *)
StopEnds == stopped ~> (state = "Finished")
=============================================================================
