------------------------- MODULE HackRfSourceProofs -------------------------
(***************************************************************************)
(* Proofs about HackRfSource for any control threads, operations, knob     *)
(* values, transfers and device errors: what the radio is set to, what a   *)
(* block was taken under, and what blocks say of changes and gaps.         *)
(***************************************************************************)
EXTENDS HackRfSource, TLAPS

USE SourceAssumption, GainAssumption, ControllerAssumption

-----------------------------------------------------------------------------
(* Device calls *)

Changes == UNION {[S -> Values] : S \in SUBSET Knobs}

DeviceCallOf == [knob : Knobs, value : Values, explicit : BOOLEAN]

(* The calls of s set knob k last to v, or do not touch it. *)
Leaves(s, k, v) ==
  \E i \in 1..Len(s) : /\ s[i].knob = k /\ s[i].value = v
                       /\ \A j \in 1..Len(s) : i < j => s[j].knob # k

Without(s, k) == \A i \in 1..Len(s) : s[i].knob # k

Explicit(s) == \E i \in 1..Len(s) : s[i].explicit

LEMMA ChangeIs ==
  ASSUME NEW f \in Changes
  PROVE  /\ DOMAIN f \subseteq Knobs /\ f = [k \in DOMAIN f |-> f[k]]
         /\ \A k \in DOMAIN f : f[k] \in Values
<1>1. PICK S \in SUBSET Knobs : f \in [S -> Values]
  BY DEF Changes
<1> QED BY <1>1

LEMMA IsAChange ==
  ASSUME NEW S \in SUBSET Knobs, NEW f \in [S -> Values]
  PROVE  f \in Changes
  BY DEF Changes

LEMMA OverIs ==
  ASSUME NEW new \in Changes, NEW old \in Changes
  PROVE  /\ Over(new, old) \in Changes
         /\ DOMAIN Over(new, old) = DOMAIN new \cup DOMAIN old
         /\ \A k \in DOMAIN new : Over(new, old)[k] = new[k]
         /\ \A k \in DOMAIN old \ DOMAIN new : Over(new, old)[k] = old[k]
<1>1. /\ DOMAIN new \subseteq Knobs /\ \A k \in DOMAIN new : new[k] \in Values
      /\ DOMAIN old \subseteq Knobs /\ \A k \in DOMAIN old : old[k] \in Values
  BY ChangeIs
<1>2. DOMAIN new \cup DOMAIN old \in SUBSET Knobs
  BY <1>1
<1>3. Over(new, old) \in [DOMAIN new \cup DOMAIN old -> Values]
  BY <1>1 DEF Over
<1>4. Over(new, old) \in Changes
  BY <1>2, <1>3, IsAChange
<1> QED BY <1>3, <1>4 DEF Over

LEMMA NoChangeIs == NoChange \in Changes /\ DOMAIN NoChange = {}
<1>1. NoChange \in [{} -> Values] /\ DOMAIN NoChange = {}
  BY DEF NoChange
<1> QED BY <1>1, IsAChange

(* What comes later wins. *)
LEMMA Concatenated ==
  ASSUME NEW s \in Seq(DeviceCallOf), NEW t \in Seq(DeviceCallOf)
  PROVE  /\ s \o t \in Seq(DeviceCallOf)
         /\ \A k : Without(s, k) /\ Without(t, k) => Without(s \o t, k)
         /\ \A k, v : Leaves(s, k, v) /\ Without(t, k) => Leaves(s \o t, k, v)
         /\ \A k, v : Leaves(t, k, v) => Leaves(s \o t, k, v)
         /\ Explicit(t) => Explicit(s \o t)
         /\ Explicit(s) => Explicit(s \o t)
<1>1. /\ s \o t \in Seq(DeviceCallOf) /\ Len(s) \in Nat /\ Len(t) \in Nat
      /\ Len(s \o t) = Len(s) + Len(t)
      /\ \A i \in 1..Len(s) : (s \o t)[i] = s[i]
      /\ \A i \in 1..Len(t) : (s \o t)[Len(s) + i] = t[i]
  OBVIOUS
<1>2. \A i \in 1..Len(s \o t) : i \in 1..Len(s) \/ (i - Len(s) \in 1..Len(t) /\ i = Len(s) + (i - Len(s)))
  BY <1>1
<1> DEFINE st == s \o t
<1>3. /\ Len(s) \in Nat /\ Len(t) \in Nat /\ Len(st) = Len(s) + Len(t)
      /\ \A i \in 1..Len(s) : st[i] = s[i] /\ i \in 1..Len(st)
      /\ \A i \in 1..Len(t) : st[Len(s) + i] = t[i] /\ Len(s) + i \in 1..Len(st)
      /\ \A i \in 1..Len(st) : i \in 1..Len(s) \/ (i - Len(s) \in 1..Len(t) /\ i = Len(s) + (i - Len(s)))
  BY <1>1, <1>2
<1>a. \A i \in 1..Len(st) : (i \in 1..Len(s) /\ st[i] = s[i]) \/ \E j \in 1..Len(t) : st[i] = t[j]
  <2> SUFFICES ASSUME NEW i \in 1..Len(st), i \notin 1..Len(s) PROVE \E j \in 1..Len(t) : st[i] = t[j]
    BY <1>3
  <2>1. i - Len(s) \in 1..Len(t) /\ i = Len(s) + (i - Len(s))
    BY <1>3
  <2>2. st[Len(s) + (i - Len(s))] = t[i - Len(s)]
    BY <1>3, <2>1
  <2> QED BY <2>1, <2>2
<1> HIDE DEF st
<1>4. ASSUME NEW k, Without(s, k), Without(t, k) PROVE Without(st, k)
  BY <1>a, <1>4 DEF Without
<1>5. ASSUME NEW k, NEW v, Leaves(s, k, v), Without(t, k) PROVE Leaves(st, k, v)
  <2>1. PICK i \in 1..Len(s) : /\ s[i].knob = k /\ s[i].value = v
                               /\ \A j \in 1..Len(s) : i < j => s[j].knob # k
    BY <1>5 DEF Leaves
  <2>2. \A j \in 1..Len(st) : i < j => st[j].knob # k
    BY <1>a, <1>5, <2>1 DEF Without
  <2> QED BY <1>3, <2>1, <2>2 DEF Leaves
<1>6. ASSUME NEW k, NEW v, Leaves(t, k, v) PROVE Leaves(st, k, v)
  <2>1. PICK i \in 1..Len(t) : /\ t[i].knob = k /\ t[i].value = v
                               /\ \A j \in 1..Len(t) : i < j => t[j].knob # k
    BY <1>6 DEF Leaves
  <2>2. \A j \in 1..Len(st) : Len(s) + i < j => st[j].knob # k
    <3> SUFFICES ASSUME NEW j \in 1..Len(st), Len(s) + i < j PROVE st[j].knob # k
      OBVIOUS
    <3>1. j - Len(s) \in 1..Len(t) /\ i < j - Len(s) /\ j = Len(s) + (j - Len(s))
      BY <1>3
    <3>2. st[j] = t[j - Len(s)]
      BY <1>3, <3>1
    <3> QED BY <2>1, <3>1, <3>2
  <2> QED BY <1>3, <2>1, <2>2 DEF Leaves
<1>7. (Explicit(t) => Explicit(st)) /\ (Explicit(s) => Explicit(st))
  BY <1>3 DEF Explicit
<1> QED BY <1>1, <1>4, <1>5, <1>6, <1>7 DEF st

(* One call, or none. *)
LEMMA OneCall ==
  ASSUME NEW change \in Changes, NEW knob \in Knobs
  PROVE  /\ DeviceCall(change, knob) \in Seq(DeviceCallOf)
         /\ \A k \in Knobs \ {knob} : Without(DeviceCall(change, knob), k)
         /\ knob \notin DOMAIN change => Without(DeviceCall(change, knob), knob)
         /\ knob \in DOMAIN change => Leaves(DeviceCall(change, knob), knob, change[knob])
         /\ knob = "filter" /\ knob \in DOMAIN change => Explicit(DeviceCall(change, knob))
<1>1. CASE knob \in DOMAIN change
  <2> DEFINE call == [knob |-> knob, value |-> change[knob], explicit |-> knob = "filter"]
  <2>1. change[knob] \in Values
    BY <1>1, ChangeIs
  <2>2. call \in DeviceCallOf
    BY <2>1 DEF DeviceCallOf
  <2>3. DeviceCall(change, knob) = <<call>>
    BY <1>1 DEF DeviceCall
  <2>4. call.knob = knob /\ call.value = change[knob] /\ (knob = "filter" => call.explicit)
    OBVIOUS
  <2> HIDE DEF call
  <2>5. <<call>> \in Seq(DeviceCallOf) /\ Len(<<call>>) = 1 /\ <<call>>[1] = call
    BY <2>2
  <2>6. \A i \in 1..Len(<<call>>) : i = 1
    BY <2>5
  <2> QED BY <1>1, <2>3, <2>4, <2>5, <2>6 DEF Without, Leaves, Explicit
<1>2. CASE knob \notin DOMAIN change
  <2>1. DeviceCall(change, knob) = <<>>
    BY <1>2 DEF DeviceCall
  <2>2. <<>> \in Seq(DeviceCallOf) /\ \A i \in 1..Len(<<>>) : FALSE
    OBVIOUS
  <2> QED BY <1>2, <2>1, <2>2 DEF Without
<1> QED BY <1>1, <1>2

LEMMA RateCall ==
  ASSUME NEW change \in Changes, tune \in Settings
  PROVE  /\ FilterAfterRate(change) \in Seq(DeviceCallOf)
         /\ \A k \in Knobs \ {"filter"} : Without(FilterAfterRate(change), k)
         /\ "rate" \notin DOMAIN change => Without(FilterAfterRate(change), "filter")
         /\ "rate" \in DOMAIN change /\ filter_explicit
              => Leaves(FilterAfterRate(change), "filter", tune["filter"])
<1>1. CASE "rate" \in DOMAIN change
  <2> DEFINE call == [knob |-> "filter", explicit |-> FALSE,
                      value |-> IF filter_explicit THEN tune["filter"] ELSE FilterFor(change["rate"])]
  <2>1. change["rate"] \in Values /\ tune["filter"] \in Values
    BY <1>1, ChangeIs DEF Settings, Knobs
  <2>2. call.value \in Values /\ "filter" \in Knobs
    BY <2>1 DEF FilterFor, Knobs
  <2>3. call \in DeviceCallOf
    BY <2>2 DEF DeviceCallOf
  <2>4. FilterAfterRate(change) = <<call>>
    BY <1>1 DEF FilterAfterRate
  <2>5. call.knob = "filter" /\ (filter_explicit => call.value = tune["filter"])
    OBVIOUS
  <2> HIDE DEF call
  <2>6. <<call>> \in Seq(DeviceCallOf) /\ Len(<<call>>) = 1 /\ <<call>>[1] = call
    BY <2>3
  <2>7. \A i \in 1..Len(<<call>>) : i = 1
    BY <2>6
  <2> QED BY <1>1, <2>4, <2>5, <2>6, <2>7 DEF Without, Leaves
<1>2. CASE "rate" \notin DOMAIN change
  <2>1. FilterAfterRate(change) = <<>>
    BY <1>2 DEF FilterAfterRate
  <2>2. <<>> \in Seq(DeviceCallOf) /\ \A i \in 1..Len(<<>>) : FALSE
    OBVIOUS
  <2> QED BY <1>2, <2>1, <2>2 DEF Without
<1> QED BY <1>1, <1>2

(* What the calls of a change, up to those for the knobs of some set, leave behind. *)
CallsFor(change, s, done) ==
  /\ s \in Seq(DeviceCallOf)
  /\ \A k \in done \cap DOMAIN change : Leaves(s, k, change[k])
  /\ \A k \in Knobs \ {"filter"} : k \notin done \cap DOMAIN change => Without(s, k)
  /\ "filter" \notin DOMAIN change /\ "rate" \notin DOMAIN change => Without(s, "filter")
  /\ "filter" \notin DOMAIN change /\ "rate" \in DOMAIN change /\ filter_explicit
       => Leaves(s, "filter", tune["filter"])
  /\ "filter" \in DOMAIN change => Explicit(s)

LEMMA OneMoreCall ==
  ASSUME NEW change \in Changes, NEW s, NEW done \in SUBSET Knobs, CallsFor(change, s, done),
         NEW knob \in Knobs \ {"filter"}, knob \notin done
  PROVE  CallsFor(change, s \o DeviceCall(change, knob), done \cup {knob})
<1> DEFINE t == DeviceCall(change, knob)
           st == s \o t
<1>1. /\ s \in Seq(DeviceCallOf) /\ t \in Seq(DeviceCallOf)
      /\ \A k \in Knobs \ {knob} : Without(t, k)
      /\ knob \notin DOMAIN change => Without(t, knob)
      /\ knob \in DOMAIN change => Leaves(t, knob, change[knob])
  BY OneCall DEF CallsFor
<1>2. /\ st \in Seq(DeviceCallOf)
      /\ \A k : Without(s, k) /\ Without(t, k) => Without(st, k)
      /\ \A k, v : Leaves(s, k, v) /\ Without(t, k) => Leaves(st, k, v)
      /\ \A k, v : Leaves(t, k, v) => Leaves(st, k, v)
      /\ Explicit(s) => Explicit(st)
  BY <1>1, Concatenated
<1> HIDE DEF t, st
<1>3. DOMAIN change \subseteq Knobs /\ "filter" \in Knobs
  BY ChangeIs DEF Knobs
<1>4. \A k \in (done \cup {knob}) \cap DOMAIN change : Leaves(st, k, change[k])
  BY <1>1, <1>2, <1>3 DEF CallsFor
<1>5. \A k \in Knobs \ {"filter"} : k \notin (done \cup {knob}) \cap DOMAIN change => Without(st, k)
  BY <1>1, <1>2, <1>3 DEF CallsFor
<1>6. /\ "filter" \notin DOMAIN change /\ "rate" \notin DOMAIN change => Without(st, "filter")
      /\ "filter" \notin DOMAIN change /\ "rate" \in DOMAIN change /\ filter_explicit
           => Leaves(st, "filter", tune["filter"])
      /\ "filter" \in DOMAIN change => Explicit(st)
  BY <1>1, <1>2, <1>3 DEF CallsFor
<1> QED BY <1>2, <1>4, <1>5, <1>6 DEF CallsFor, t, st

(* The calls of a change leave each of its knobs at its value, and touch no other knob but the *)
(* filter, which a change of rate sets again to where it was if it was ever asked for.         *)
LEMMA CallsOfAChange ==
  ASSUME NEW change \in Changes, tune \in Settings
  PROVE  CallsFor(change, DeviceCalls(change), Knobs)
<1> DEFINE s1 == DeviceCall(change, "rate")
           s2 == FilterAfterRate(change)
           s3 == DeviceCall(change, "filter")
           s4 == (s1 \o s2) \o s3
           s5 == s4 \o DeviceCall(change, "lna")
           s6 == s5 \o DeviceCall(change, "vga")
           s7 == s6 \o DeviceCall(change, "amp")
           s8 == s7 \o DeviceCall(change, "freq")
<1>1. /\ {"rate", "filter", "freq", "bias", "lna", "vga", "amp"} = Knobs
      /\ DOMAIN change \subseteq Knobs
  BY ChangeIs DEF Knobs, GainKnobs
<1>2. CallsFor(change, s4, {"rate", "filter"})
  <2>1. /\ s1 \in Seq(DeviceCallOf) /\ \A k \in Knobs \ {"rate"} : Without(s1, k)
        /\ "rate" \notin DOMAIN change => Without(s1, "rate")
        /\ "rate" \in DOMAIN change => Leaves(s1, "rate", change["rate"])
    BY <1>1, OneCall
  <2>2. /\ s2 \in Seq(DeviceCallOf) /\ \A k \in Knobs \ {"filter"} : Without(s2, k)
        /\ "rate" \notin DOMAIN change => Without(s2, "filter")
        /\ "rate" \in DOMAIN change /\ filter_explicit => Leaves(s2, "filter", tune["filter"])
    BY RateCall
  <2>3. /\ s3 \in Seq(DeviceCallOf) /\ \A k \in Knobs \ {"filter"} : Without(s3, k)
        /\ "filter" \notin DOMAIN change => Without(s3, "filter")
        /\ "filter" \in DOMAIN change => Leaves(s3, "filter", change["filter"]) /\ Explicit(s3)
    BY <1>1, OneCall
  <2> HIDE DEF s1, s2, s3
  <2> DEFINE s12 == s1 \o s2
             s123 == s12 \o s3
  <2>4. /\ s12 \in Seq(DeviceCallOf)
        /\ \A k : Without(s1, k) /\ Without(s2, k) => Without(s12, k)
        /\ \A k, v : Leaves(s1, k, v) /\ Without(s2, k) => Leaves(s12, k, v)
        /\ \A k, v : Leaves(s2, k, v) => Leaves(s12, k, v)
    BY <2>1, <2>2, Concatenated
  <2> HIDE DEF s12
  <2>5. /\ s123 \in Seq(DeviceCallOf)
        /\ \A k : Without(s12, k) /\ Without(s3, k) => Without(s123, k)
        /\ \A k, v : Leaves(s12, k, v) /\ Without(s3, k) => Leaves(s123, k, v)
        /\ \A k, v : Leaves(s3, k, v) => Leaves(s123, k, v)
        /\ Explicit(s3) => Explicit(s123)
    BY <2>3, <2>4, Concatenated
  <2> HIDE DEF s123
  <2>6. "rate" \in DOMAIN change => Leaves(s12, "rate", change["rate"])
    BY <1>1, <2>1, <2>2, <2>4
  <2>7. \A k \in {"rate", "filter"} \cap DOMAIN change : Leaves(s123, k, change[k])
    BY <1>1, <2>3, <2>5, <2>6
  <2>8. \A k \in Knobs \ {"filter"} : k \notin {"rate", "filter"} \cap DOMAIN change => Without(s123, k)
    BY <1>1, <2>1, <2>2, <2>3, <2>4, <2>5
  <2>9. /\ "filter" \notin DOMAIN change /\ "rate" \notin DOMAIN change => Without(s123, "filter")
        /\ "filter" \notin DOMAIN change /\ "rate" \in DOMAIN change /\ filter_explicit
             => Leaves(s123, "filter", tune["filter"])
        /\ "filter" \in DOMAIN change => Explicit(s123)
    BY <1>1, <2>1, <2>2, <2>3, <2>4, <2>5
  <2> QED BY <2>5, <2>7, <2>8, <2>9 DEF CallsFor, s12, s123
<1> HIDE DEF s4
<1>3. CallsFor(change, s5, {"rate", "filter", "lna"})
  <2>1. CallsFor(change, s5, {"rate", "filter"} \cup {"lna"})
    BY <1>1, <1>2, OneMoreCall
  <2> QED BY <2>1
<1> HIDE DEF s5
<1>4. CallsFor(change, s6, {"rate", "filter", "lna"} \cup {"vga"})
  BY <1>1, <1>3, OneMoreCall
<1> HIDE DEF s6
<1>5. CallsFor(change, s7, ({"rate", "filter", "lna"} \cup {"vga"}) \cup {"amp"})
  BY <1>1, <1>4, OneMoreCall
<1> HIDE DEF s7
<1>6. CallsFor(change, s8, (({"rate", "filter", "lna"} \cup {"vga"}) \cup {"amp"}) \cup {"freq"})
  BY <1>1, <1>5, OneMoreCall
<1> HIDE DEF s8
<1>7. CallsFor(change, s8 \o DeviceCall(change, "bias"),
               ((({"rate", "filter", "lna"} \cup {"vga"}) \cup {"amp"}) \cup {"freq"}) \cup {"bias"})
  BY <1>1, <1>6, OneMoreCall
<1>8. ((({"rate", "filter", "lna"} \cup {"vga"}) \cup {"amp"}) \cup {"freq"}) \cup {"bias"} = Knobs
  BY <1>1
<1>9. DeviceCalls(change) = s8 \o DeviceCall(change, "bias")
  BY DEF DeviceCalls, s8, s7, s6, s5, s4
<1> QED BY <1>7, <1>8, <1>9

-----------------------------------------------------------------------------
(* The knobs *)

ControlType ==
  /\ requested \in [GainKnobs -> Values] /\ requested_lock \in Controllers \cup {Nobody}
  /\ ctl \in [Controllers -> {"idle", "post", "bump"}]
  /\ request \in [Controllers -> Changes]
  /\ pending \in Changes /\ posted \in Changes /\ faults \in Nat

(* The stream knows the radio's settings, between any two device calls. *)
TuneInv ==
  /\ device = tune /\ tune \in Settings /\ filter_explicit \in BOOLEAN
  /\ todo \in Seq(DeviceCallOf) /\ (todo # <<>> => pc = "apply")

(* What knob k will be when everything posted has been applied. *)
Becomes(k, v) ==
  \/ k \in DOMAIN pending /\ pending[k] = v
  \/ k \notin DOMAIN pending /\ Leaves(todo, k, v)
  \/ k \notin DOMAIN pending /\ Without(todo, k) /\ tune[k] = v

(* Unless a device call failed, each knob is on its way to the value last posted to it; and a *)
(* filter once asked for outlives a change of rate.                                            *)
PostedInv == faults = 0 =>
  /\ \A k \in DOMAIN posted : Becomes(k, posted[k])
  /\ "filter" \in DOMAIN posted =>
       filter_explicit \/ "filter" \in DOMAIN pending \/ Explicit(todo)

(* Whoever changes the requested gains keeps their lock until they are posted. *)
RequestedInv ==
  /\ requested_lock # Nobody => ctl[requested_lock] # "idle"
  /\ \A c \in Controllers : ctl[c] = "post" =>
       IF requested_lock = c THEN request[c] = requested ELSE DOMAIN request[c] \cap GainKnobs = {}
  /\ faults = 0 /\ (requested_lock # Nobody => ctl[requested_lock] = "bump") =>
       \A g \in GainKnobs : Becomes(g, requested[g])

KnobInv == ControlType /\ TuneInv /\ PostedInv /\ RequestedInv

(* A step that touches no knob, request or posted change. *)
Quiet ==
  /\ UNCHANGED <<device, tune, filter_explicit, todo, pending, posted>>
  /\ UNCHANGED <<requested, requested_lock, ctl, request>>
  /\ faults' \in {faults, faults + 1}
  /\ pc = "apply" /\ todo # <<>> => pc' = pc

LEMMA KnobSteps ==
  ASSUME [Next]_vars, ControlType
  PROVE  \/ \E c \in Controllers, operation \in Operations, value \in Values : RequestKnob(c, operation, value)
         \/ \E c \in Controllers, gains \in [GainKnobs -> Values] : RequestGains(c, gains)
         \/ \E c \in Controllers : Post(c) \/ Bump(c)
         \/ TakePosted \/ ApplyCall \/ ApplyFails
         \/ Quiet
<1>1. CASE CompleteTransfer \/ TransferArrives \/ CallbackStep
  BY <1>1 DEF CompleteTransfer, TransferArrives, CallbackStep, Quiet, radioFrame, control, mailbox,
              tuning, frame, ControlType
<1>2. CASE Stop \/ UNCHANGED vars
  BY <1>2 DEF Stop, vars, Quiet, controlFrame, control, mailbox, radio, tuning, frame, ControlType
<1>3. CASE Call \/ Drop \/ EndOfStream \/ Begin \/ BeginFails \/ Continue
  BY <1>3 DEF Call, Drop, EndOfStream, Finish, Begin, BeginFails, Continue, Goes, Quiet, captureFrame,
              control, mailbox, radio, tuning, frame, ControlType
<1>4. CASE NothingPosted \/ SomethingPosted \/ MailboxBusy \/ TakeTransfer \/ NoTransfer \/ CheckStall \/ Stalled
  BY <1>4 DEF NothingPosted, SomethingPosted, MailboxBusy, TakeTransfer, NoTransfer, CheckStall, Stalled,
              Goes, Quiet, captureFrame, control, mailbox, radio, tuning, frame, ControlType
<1>5. CASE Settle
  BY <1>5 DEF Settle, Mint, Quiet, captureFrame, control, mailbox, radio, tuning, ControlType
<1>6. CASE Discard \/ SkipEmpty \/ Deliver
  BY <1>6 DEF Discard, SkipEmpty, Deliver, Goes, Quiet, captureFrame, control, mailbox, radio, tuning,
              frame, ControlType
<1>7. ASSUME NEW c \in Controllers, NEW gains \in GainChoices, SetGains(c, gains)
      PROVE  \E g \in [GainKnobs -> Values] : RequestGains(c, g)
  BY <1>7 DEF SetGains
<1>8. ASSUME ControlType, NEW c \in Controllers, NEW stage \in GainKnobs, NEW value \in Values,
             SetGain(c, stage, value)
      PROVE  \E g \in [GainKnobs -> Values] : RequestGains(c, g)
  <2>1. [requested EXCEPT ![stage] = value] \in [GainKnobs -> Values]
    BY <1>8 DEF ControlType
  <2> QED BY <1>8, <2>1 DEF SetGain
<1> QED BY <1>1, <1>2, <1>3, <1>4, <1>5, <1>6, <1>7, <1>8 DEF Next, CaptureStep, ControlStep

(* Making one call of those left to make brings no knob anywhere else. *)
LEMMA CallMade ==
  ASSUME TuneInv, todo # <<>>, NEW k \in Knobs, NEW v, Becomes(k, v), ApplyCall, UNCHANGED pending
  PROVE  Becomes(k, v)'
<1> DEFINE call == Head(todo)
           rest == Tail(todo)
<1>1. /\ tune' = [tune EXCEPT ![call.knob] = call.value] /\ todo' = rest
  BY DEF ApplyCall
<1>2. /\ call = todo[1] /\ call.knob \in Knobs /\ Len(todo) \in Nat \ {0}
      /\ Len(rest) = Len(todo) - 1 /\ rest \in Seq(DeviceCallOf)
      /\ \A i \in 1..Len(rest) : rest[i] = todo[i + 1]
  <2>1. todo \in Seq(DeviceCallOf) /\ Len(todo) \in Nat \ {0}
    BY DEF TuneInv
  <2>2. call = todo[1] /\ call \in DeviceCallOf
    BY <2>1
  <2>3. call.knob \in Knobs
    BY <2>2 DEF DeviceCallOf
  <2>4. /\ Len(rest) = Len(todo) - 1 /\ rest \in Seq(DeviceCallOf)
        /\ \A i \in 1..Len(rest) : rest[i] = todo[i + 1]
    BY <2>1
  <2> QED BY <2>1, <2>2, <2>3, <2>4
<1> HIDE DEF call, rest
<1>3. CASE k \in DOMAIN pending
  BY <1>3 DEF Becomes
<1>4. ASSUME k \notin DOMAIN pending, Leaves(todo, k, v) PROVE Becomes(k, v)'
  <2>1. PICK i \in 1..Len(todo) : /\ todo[i].knob = k /\ todo[i].value = v
                                  /\ \A j \in 1..Len(todo) : i < j => todo[j].knob # k
    BY <1>4 DEF Leaves
  <2>2. \A j \in 1..Len(rest) : i < j + 1 => rest[j].knob # k
    BY <1>2, <2>1
  <2>3. CASE i = 1
    <3>1. Without(rest, k)
      BY <1>2, <2>2, <2>3 DEF Without
    <3>2. tune'[k] = v
      BY <1>1, <1>2, <2>1, <2>3 DEF TuneInv, Settings
    <3> QED BY <1>1, <1>4, <3>1, <3>2 DEF Becomes
  <2>4. CASE i # 1
    <3>1. i - 1 \in 1..Len(rest) /\ rest[i - 1] = todo[i]
      BY <1>2, <2>4
    <3>2. Leaves(rest, k, v)
      BY <1>2, <2>1, <2>2, <3>1 DEF Leaves
    <3> QED BY <1>1, <1>4, <3>2 DEF Becomes
  <2> QED BY <2>3, <2>4
<1>5. ASSUME k \notin DOMAIN pending, Without(todo, k), tune[k] = v PROVE Becomes(k, v)'
  <2>1. Without(rest, k) /\ call.knob # k
    BY <1>2, <1>5 DEF Without
  <2>2. tune'[k] = v
    BY <1>1, <1>2, <1>5, <2>1 DEF TuneInv, Settings
  <2> QED BY <1>1, <1>5, <2>1, <2>2 DEF Becomes
<1> QED BY <1>3, <1>4, <1>5 DEF Becomes

(* Taking up what is posted brings no knob anywhere else, but for a filter never asked for. *)
LEMMA ChangeTaken ==
  ASSUME ControlType, TuneInv, todo = <<>>, NEW k \in Knobs, NEW v, Becomes(k, v), TakePosted,
         k = "filter" => k \in DOMAIN pending \/ filter_explicit
  PROVE  Becomes(k, v)'
<1>1. /\ pending' = NoChange /\ todo' = DeviceCalls(pending) /\ UNCHANGED tune
      /\ DOMAIN pending' = {}
  BY NoChangeIs DEF TakePosted, tuning
<1>2. CallsFor(pending, DeviceCalls(pending), Knobs)
  BY CallsOfAChange DEF ControlType, TuneInv
<1>3. CASE k \in DOMAIN pending
  <2>1. pending[k] = v
    BY <1>3 DEF Becomes
  <2>2. Leaves(DeviceCalls(pending), k, v)
    BY <1>2, <1>3, <2>1 DEF CallsFor
  <2> QED BY <1>1, <2>2 DEF Becomes
<1>4. CASE k \notin DOMAIN pending
  <2>1. \A i \in 1..Len(todo) : FALSE
    OBVIOUS
  <2>2. tune[k] = v
    BY <1>4, <2>1 DEF Becomes, Leaves
  <2>3. CASE k = "filter" /\ "rate" \in DOMAIN pending
    BY <1>1, <1>2, <1>4, <2>2, <2>3 DEF CallsFor, Becomes
  <2>4. CASE ~(k = "filter" /\ "rate" \in DOMAIN pending)
    BY <1>1, <1>2, <1>4, <2>2, <2>4 DEF CallsFor, Becomes
  <2> QED BY <2>3, <2>4
<1> QED BY <1>3, <1>4

LEMMA RequestsStep ==
  ASSUME KnobInv, NEW c \in Controllers,
         \/ \E operation \in Operations, value \in Values : RequestKnob(c, operation, value)
         \/ \E gains \in [GainKnobs -> Values] : RequestGains(c, gains)
  PROVE  KnobInv'
<1>1. /\ UNCHANGED <<device, tune, filter_explicit, todo, pending, posted, pc, faults>>
      /\ ctl[c] = "idle" /\ ctl' = [ctl EXCEPT ![c] = "post"]
  BY DEF RequestKnob, RequestGains, controlFrame, mailbox, radio, tuning, frame
<1>2. /\ ControlType /\ (requested_lock # Nobody => ctl[requested_lock] # "idle") /\ requested_lock # c
      /\ c # Nobody
  BY <1>1 DEF KnobInv, RequestedInv
<1>3. TuneInv' /\ PostedInv' /\ \A k, v : Becomes(k, v)' = Becomes(k, v)
  BY <1>1 DEF KnobInv, TuneInv, PostedInv, Becomes
<1>4. CASE \E operation \in Operations, value \in Values : RequestKnob(c, operation, value)
  <2>1. PICK operation \in {"tune", "rate", "filter", "bias"}, value \in Values :
          request' = [request EXCEPT ![c] = [k \in {KnobOf(operation)} |-> value]]
    <3>1. PICK operation \in Operations, value \in Values : RequestKnob(c, operation, value)
      BY <1>4
    <3>2. /\ operation \in {"tune", "rate", "filter", "bias"}
          /\ request' = [request EXCEPT ![c] = [k \in {KnobOf(operation)} |-> value]]
      BY <3>1 DEF RequestKnob
    <3> QED BY <3>2
  <2>2. UNCHANGED <<requested, requested_lock>>
    BY <1>4 DEF RequestKnob
  <2>3. KnobOf(operation) \in Knobs \ GainKnobs
    BY <2>1 DEF KnobOf, Knobs, GainKnobs
  <2> DEFINE change == [k \in {KnobOf(operation)} |-> value]
  <2>4. DOMAIN change = {KnobOf(operation)} /\ change \in [{KnobOf(operation)} -> Values]
    BY <2>1
  <2>5. change \in Changes
    BY <2>3, <2>4, IsAChange
  <2>6. request'[c] = change /\ \A d \in Controllers \ {c} : request'[d] = request[d]
    BY <1>2, <2>1 DEF ControlType
  <2>7. ControlType'
    BY <1>1, <1>2, <2>1, <2>2, <2>5 DEF ControlType
  <2>8. DOMAIN request'[c] \cap GainKnobs = {}
    BY <2>3, <2>4, <2>6
  <2>9. RequestedInv'
    BY <1>1, <1>2, <1>3, <2>2, <2>6, <2>8 DEF KnobInv, RequestedInv, ControlType
  <2> QED BY <1>3, <2>7, <2>9 DEF KnobInv
<1>5. CASE \E gains \in [GainKnobs -> Values] : RequestGains(c, gains)
  <2>1. PICK gains \in [GainKnobs -> Values] : RequestGains(c, gains)
    BY <1>5
  <2>2. /\ requested_lock = Nobody /\ requested_lock' = c /\ requested' = gains
        /\ request' = [request EXCEPT ![c] = gains]
    BY <2>1 DEF RequestGains
  <2>3. gains \in Changes
    <3>1. GainKnobs \in SUBSET Knobs
      BY DEF Knobs
    <3> QED BY <3>1, IsAChange
  <2>4. ControlType'
    BY <1>1, <1>2, <2>2, <2>3 DEF ControlType
  <2>5. request'[c] = gains /\ \A d \in Controllers \ {c} : request'[d] = request[d] /\ ctl'[d] = ctl[d]
    BY <1>1, <1>2, <2>2 DEF ControlType
  <2>6. ctl'[c] = "post"
    BY <1>1, <1>2 DEF ControlType
  <2>7. RequestedInv'
    BY <1>2, <2>2, <2>5, <2>6 DEF KnobInv, RequestedInv
  <2> QED BY <1>3, <2>4, <2>7 DEF KnobInv
<1> QED BY <1>4, <1>5

LEMMA PostStep ==
  ASSUME KnobInv, NEW c \in Controllers, Post(c)
  PROVE  KnobInv'
<1>1. /\ UNCHANGED <<device, tune, filter_explicit, todo, pc, faults, requested, requested_lock, request>>
      /\ ctl[c] = "post" /\ ctl' = [ctl EXCEPT ![c] = "bump"]
      /\ pending' = Over(request[c], pending)
  BY DEF Post, controlFrame, radio, tuning, frame
<1>2. posted' = Over(request[c], posted)
  <2>1. DOMAIN posted \cup DOMAIN request[c] = DOMAIN request[c] \cup DOMAIN posted
    OBVIOUS
  <2> QED BY <2>1 DEF Post, Over
<1>3. /\ ControlType /\ TuneInv /\ PostedInv /\ RequestedInv
      /\ request[c] \in Changes /\ pending \in Changes /\ posted \in Changes
  BY DEF KnobInv, ControlType
<1>4. /\ pending' \in Changes /\ DOMAIN pending' = DOMAIN request[c] \cup DOMAIN pending
      /\ \A k \in DOMAIN request[c] : pending'[k] = request[c][k]
      /\ \A k \in DOMAIN pending \ DOMAIN request[c] : pending'[k] = pending[k]
  <2> DEFINE change == Over(request[c], pending)
  <2>1. /\ change \in Changes /\ DOMAIN change = DOMAIN request[c] \cup DOMAIN pending
        /\ \A k \in DOMAIN request[c] : change[k] = request[c][k]
        /\ \A k \in DOMAIN pending \ DOMAIN request[c] : change[k] = pending[k]
    BY <1>3, OverIs
  <2>2. pending' = change
    BY <1>1
  <2> QED BY <2>1, <2>2
<1>5. /\ posted' \in Changes /\ DOMAIN posted' = DOMAIN request[c] \cup DOMAIN posted
      /\ \A k \in DOMAIN request[c] : posted'[k] = request[c][k]
      /\ \A k \in DOMAIN posted \ DOMAIN request[c] : posted'[k] = posted[k]
  <2> DEFINE change == Over(request[c], posted)
  <2>1. /\ change \in Changes /\ DOMAIN change = DOMAIN request[c] \cup DOMAIN posted
        /\ \A k \in DOMAIN request[c] : change[k] = request[c][k]
        /\ \A k \in DOMAIN posted \ DOMAIN request[c] : change[k] = posted[k]
    BY <1>3, OverIs
  <2>2. posted' = change
    BY <1>2
  <2> QED BY <2>1, <2>2
<1>6. ControlType' /\ TuneInv'
  BY <1>1, <1>3, <1>4, <1>5 DEF ControlType, TuneInv
<1>7. \A k \in DOMAIN request[c] : Becomes(k, request[c][k])'
  BY <1>1, <1>4 DEF Becomes
<1>8. ASSUME NEW k, k \notin DOMAIN request[c], NEW v, Becomes(k, v) PROVE Becomes(k, v)'
  BY <1>1, <1>4, <1>8 DEF Becomes
<1>9. PostedInv'
  <2> SUFFICES ASSUME faults = 0
               PROVE  /\ \A k \in DOMAIN posted' : Becomes(k, posted[k])'
                      /\ "filter" \in DOMAIN posted' =>
                           filter_explicit \/ "filter" \in DOMAIN pending' \/ Explicit(todo)
    BY <1>1 DEF PostedInv
  <2>1. ASSUME NEW k \in DOMAIN posted' PROVE Becomes(k, posted[k])'
    <3>1. CASE k \in DOMAIN request[c]
      BY <1>1, <1>4, <1>5, <3>1 DEF Becomes
    <3>2. CASE k \notin DOMAIN request[c]
      <4>1. k \in DOMAIN posted /\ posted'[k] = posted[k] /\ Becomes(k, posted[k])
        BY <1>3, <1>5, <2>1, <3>2 DEF PostedInv
      <4> QED BY <1>1, <1>4, <3>2, <4>1 DEF Becomes
    <3> QED BY <3>1, <3>2
  <2> QED BY <1>3, <1>4, <1>5, <2>1 DEF PostedInv
<1>10. RequestedInv'
  <2>1. /\ \A d \in Controllers \ {c} : ctl'[d] = ctl[d]
        /\ ctl'[c] = "bump"
    BY <1>1, <1>3 DEF ControlType
  <2>2. ASSUME faults = 0, requested_lock # Nobody => ctl'[requested_lock] = "bump", NEW g \in GainKnobs
        PROVE  Becomes(g, requested[g])'
    <3>1. CASE requested_lock = c
      <4>1. request[c] = requested /\ g \in DOMAIN request[c]
        BY <1>1, <1>3, <3>1 DEF RequestedInv, ControlType
      <4> QED BY <1>1, <1>4, <4>1 DEF Becomes
    <3>2. CASE requested_lock # c
      <4>1. g \notin DOMAIN request[c]
        BY <1>1, <1>3, <3>2 DEF RequestedInv
      <4>2. requested_lock # Nobody => ctl[requested_lock] = "bump"
        BY <1>3, <2>1, <2>2, <3>2 DEF ControlType
      <4>3. Becomes(g, requested[g])
        BY <1>3, <2>2, <4>2 DEF RequestedInv
      <4> QED BY <1>1, <1>4, <4>1, <4>3 DEF Becomes
    <3> QED BY <3>1, <3>2
  <2> QED BY <1>1, <1>3, <2>1, <2>2 DEF RequestedInv, ControlType
<1> QED BY <1>6, <1>9, <1>10 DEF KnobInv

LEMMA BumpStep ==
  ASSUME KnobInv, NEW c \in Controllers, Bump(c)
  PROVE  KnobInv'
<1>1. /\ UNCHANGED <<device, tune, filter_explicit, todo, pc, faults, requested, pending, posted>>
      /\ ctl[c] = "bump" /\ ctl' = [ctl EXCEPT ![c] = "idle"]
      /\ requested_lock' = IF requested_lock = c THEN Nobody ELSE requested_lock
      /\ request' = [request EXCEPT ![c] = NoChange]
  BY DEF Bump, controlFrame, radio, tuning, frame
<1>2. ControlType /\ TuneInv /\ PostedInv /\ RequestedInv
  BY DEF KnobInv
<1>3. ControlType'
  BY <1>1, <1>2, NoChangeIs DEF ControlType
<1>4. TuneInv' /\ PostedInv' /\ \A k, v : Becomes(k, v)' = Becomes(k, v)
  BY <1>1, <1>2 DEF TuneInv, PostedInv, Becomes
<1>5. /\ \A d \in Controllers \ {c} : ctl'[d] = ctl[d] /\ request'[d] = request[d]
      /\ ctl'[c] = "idle"
  BY <1>1, <1>2 DEF ControlType
<1>6. ASSUME requested_lock' # Nobody => ctl'[requested_lock'] = "bump"
      PROVE  requested_lock # Nobody => ctl[requested_lock] = "bump"
  BY <1>1, <1>2, <1>5, <1>6 DEF ControlType
<1>7. RequestedInv'
  BY <1>1, <1>2, <1>4, <1>5, <1>6 DEF RequestedInv, ControlType
<1> QED BY <1>3, <1>4, <1>7 DEF KnobInv


LEMMA TakeStep ==
  ASSUME KnobInv, TakePosted
  PROVE  KnobInv'
<1>1. /\ UNCHANGED <<device, tune, filter_explicit, posted, faults>>
      /\ UNCHANGED <<requested, requested_lock, ctl, request>>
      /\ pc = "lock" /\ pc' = "apply" /\ pending' = NoChange /\ todo' = DeviceCalls(pending)
  BY DEF TakePosted, Goes, captureFrame, control, tuning, radio
<1>2. /\ ControlType /\ TuneInv /\ PostedInv /\ RequestedInv /\ todo = <<>>
      /\ \A i \in 1..Len(todo) : FALSE
  BY <1>1 DEF KnobInv, TuneInv
<1>3. CallsFor(pending, DeviceCalls(pending), Knobs)
  BY <1>2, CallsOfAChange DEF ControlType, TuneInv
<1>4. ControlType' /\ TuneInv'
  BY <1>1, <1>2, <1>3, NoChangeIs DEF ControlType, TuneInv, CallsFor
<1>5. DOMAIN posted \subseteq Knobs /\ GainKnobs \subseteq Knobs /\ "filter" \notin GainKnobs
  BY <1>2, ChangeIs DEF ControlType, Knobs, GainKnobs
<1>6. PostedInv'
  <2> SUFFICES ASSUME faults = 0
               PROVE  /\ \A k \in DOMAIN posted : Becomes(k, posted[k])'
                      /\ "filter" \in DOMAIN posted => filter_explicit \/ Explicit(todo')
    BY <1>1 DEF PostedInv
  <2>1. "filter" \in DOMAIN posted => filter_explicit \/ "filter" \in DOMAIN pending
    BY <1>2 DEF PostedInv, Explicit
  <2>2. ASSUME NEW k \in DOMAIN posted PROVE Becomes(k, posted[k])'
    <3>1. k \in Knobs /\ Becomes(k, posted[k]) /\ (k = "filter" => k \in DOMAIN pending \/ filter_explicit)
      BY <1>2, <1>5, <2>1 DEF PostedInv
    <3>v. PICK v : v = posted[k]
      OBVIOUS
    <3>2. Becomes(k, v)
      BY <3>1, <3>v
    <3>3. Becomes(k, v)'
      BY <1>2, <3>1, <3>2, ChangeTaken
    <3> QED BY <1>1, <3>v, <3>3 DEF Becomes
  <2>3. "filter" \in DOMAIN pending => Explicit(todo')
    BY <1>1, <1>3 DEF CallsFor
  <2> QED BY <2>1, <2>2, <2>3
<1>7. RequestedInv'
  <2>1. ASSUME faults = 0, requested_lock # Nobody => ctl[requested_lock] = "bump", NEW g \in GainKnobs
        PROVE  Becomes(g, requested[g])'
    <3>1. g \in Knobs /\ g # "filter" /\ Becomes(g, requested[g])
      BY <1>2, <1>5, <2>1 DEF RequestedInv
    <3>v. PICK v : v = requested[g]
      OBVIOUS
    <3>2. Becomes(g, v)
      BY <3>1, <3>v
    <3>3. Becomes(g, v)'
      BY <1>2, <3>1, <3>2, ChangeTaken
    <3> QED BY <1>1, <3>v, <3>3 DEF Becomes
  <2> QED BY <1>1, <1>2, <2>1 DEF RequestedInv
<1> QED BY <1>4, <1>6, <1>7 DEF KnobInv

LEMMA ApplyStep ==
  ASSUME KnobInv, ApplyCall
  PROVE  KnobInv'
<1>1. /\ UNCHANGED <<posted, faults, pending, requested, requested_lock, ctl, request>>
      /\ pc = "apply" /\ pc' = "apply" /\ todo # <<>> /\ todo' = Tail(todo)
      /\ filter_explicit' = (filter_explicit \/ Head(todo).explicit)
  BY DEF ApplyCall, Goes, captureFrame, control, mailbox
<1>2. ControlType /\ TuneInv /\ PostedInv /\ RequestedInv
  BY DEF KnobInv
<1>3. /\ Head(todo) \in DeviceCallOf /\ Tail(todo) \in Seq(DeviceCallOf)
      /\ \A i \in 1..Len(todo) : i = 1 \/ (i - 1 \in 1..Len(Tail(todo)) /\ Tail(todo)[i - 1] = todo[i])
      /\ Head(todo) = todo[1]
  <2>1. todo \in Seq(DeviceCallOf) /\ todo # <<>>
    BY <1>1, <1>2 DEF TuneInv
  <2>2. Len(todo) \in Nat \ {0} /\ Len(Tail(todo)) = Len(todo) - 1
    BY <2>1
  <2> QED BY <2>1, <2>2
<1>4. TuneInv'
  <2>1. Head(todo).knob \in Knobs /\ Head(todo).value \in Values /\ Head(todo).explicit \in BOOLEAN
    BY <1>3 DEF DeviceCallOf
  <2>2. /\ device' = [device EXCEPT ![Head(todo).knob] = Head(todo).value]
        /\ tune' = [tune EXCEPT ![Head(todo).knob] = Head(todo).value]
    BY DEF ApplyCall
  <2>3. tune' \in Settings /\ device' = tune'
    BY <1>2, <2>1, <2>2 DEF TuneInv, Settings
  <2> QED BY <1>1, <1>2, <1>3, <2>1, <2>3 DEF TuneInv
<1>5. ControlType'
  BY <1>1, <1>2 DEF ControlType
<1>6. DOMAIN posted \subseteq Knobs /\ GainKnobs \subseteq Knobs
  BY <1>2, ChangeIs DEF ControlType, Knobs, GainKnobs
<1>7. PostedInv'
  <2> SUFFICES ASSUME faults = 0
               PROVE  /\ \A k \in DOMAIN posted : Becomes(k, posted[k])'
                      /\ "filter" \in DOMAIN posted =>
                           filter_explicit' \/ "filter" \in DOMAIN pending \/ Explicit(todo')
    BY <1>1 DEF PostedInv
  <2>1. ASSUME NEW k \in DOMAIN posted PROVE Becomes(k, posted[k])'
    <3>v. PICK v : v = posted[k]
      OBVIOUS
    <3>1. k \in Knobs /\ Becomes(k, v)
      BY <1>2, <1>6, <2>1, <3>v DEF PostedInv
    <3>2. Becomes(k, v)'
      BY <1>1, <1>2, <3>1, CallMade
    <3> QED BY <1>1, <3>v, <3>2 DEF Becomes
  <2>2. Explicit(todo) => Head(todo).explicit \/ Explicit(Tail(todo))
    BY <1>3 DEF Explicit
  <2> QED BY <1>1, <1>2, <2>1, <2>2 DEF PostedInv
<1>8. RequestedInv'
  <2>1. ASSUME faults = 0, requested_lock # Nobody => ctl[requested_lock] = "bump", NEW g \in GainKnobs
        PROVE  Becomes(g, requested[g])'
    <3>v. PICK v : v = requested[g]
      OBVIOUS
    <3>1. g \in Knobs /\ Becomes(g, v)
      BY <1>2, <1>6, <2>1, <3>v DEF RequestedInv
    <3>2. Becomes(g, v)'
      BY <1>1, <1>2, <3>1, CallMade
    <3> QED BY <1>1, <3>v, <3>2 DEF Becomes
  <2> QED BY <1>1, <1>2, <2>1 DEF RequestedInv
<1> QED BY <1>4, <1>5, <1>7, <1>8 DEF KnobInv

LEMMA KnobStep == KnobInv /\ [Next]_vars => KnobInv'
<1> SUFFICES ASSUME KnobInv, [Next]_vars PROVE KnobInv'
  OBVIOUS
<1>1. CASE ApplyFails
  <2>1. /\ UNCHANGED <<device, tune, filter_explicit, posted, pending>>
        /\ UNCHANGED <<requested, requested_lock, ctl, request>>
        /\ faults' = faults + 1 /\ todo' = <<>>
    BY <1>1 DEF ApplyFails, captureFrame, control, mailbox, radio, tuning
  <2> QED BY <2>1 DEF KnobInv, ControlType, TuneInv, PostedInv, RequestedInv
<1>2. CASE Quiet
  <2>1. ControlType' /\ TuneInv' /\ (faults' = 0 => faults = 0)
    BY <1>2 DEF KnobInv, ControlType, TuneInv, Quiet
  <2>2. \A k, v : Becomes(k, v)' = Becomes(k, v)
    BY <1>2 DEF Becomes, Quiet
  <2>3. PostedInv' /\ RequestedInv'
    BY <1>2, <2>1, <2>2 DEF KnobInv, PostedInv, RequestedInv, Quiet
  <2> QED BY <2>1, <2>3 DEF KnobInv
<1>3. ControlType
  BY DEF KnobInv
<1> QED BY <1>1, <1>2, <1>3, KnobSteps, RequestsStep, PostStep, BumpStep, TakeStep, ApplyStep

LEMMA KnobInit == Init => KnobInv
<1> SUFFICES ASSUME Init PROVE KnobInv
  OBVIOUS
<1>1. device \in Settings /\ (\A k \in Knobs : device[k] = 0) /\ GainKnobs \subseteq Knobs
  BY DEF Init, Settings, Knobs
<1>2. requested \in [GainKnobs -> Values] /\ \A g \in GainKnobs : requested[g] = 0
  BY <1>1 DEF Init, Gains
<1>3. ControlType
  BY <1>2, NoChangeIs DEF Init, ControlType
<1>4. /\ todo = <<>> /\ todo \in Seq(DeviceCallOf) /\ \A i \in 1..Len(todo) : FALSE
      /\ pending = NoChange /\ posted = NoChange /\ tune = device
  BY DEF Init
<1>5. TuneInv
  BY <1>1, <1>4 DEF Init, TuneInv
<1>6. \A g \in GainKnobs : Becomes(g, requested[g])
  BY <1>1, <1>2, <1>4, NoChangeIs DEF Becomes, Without
<1>7. PostedInv /\ RequestedInv
  BY <1>4, <1>6, NoChangeIs DEF Init, PostedInv, RequestedInv
<1> QED BY <1>3, <1>5, <1>7 DEF KnobInv

(* Every setting that is posted gets to the radio, through later posts, calls under way and   *)
(* any number of control threads; the invariant of this section is inductive.                 *)
THEOREM KnobsAreOnTheirWay == Spec => []KnobInv
BY KnobInit, KnobStep, PTL DEF Spec

(* With nothing left to apply and no device error, the radio has what was last posted and the *)
(* gains last requested, for any control threads and any operations.                          *)
THEOREM RadioHasWhatWasAsked == Spec => []RadioIsAsRequested
<1>1. ASSUME KnobInv PROVE RadioIsAsRequested
  <2> SUFFICES ASSUME Applied
               PROVE  /\ device = tune
                      /\ \A k \in DOMAIN posted : device[k] = posted[k]
                      /\ (\A c \in Controllers : ctl[c] = "idle") => Gains(device) = requested
    BY DEF RadioIsAsRequested
  <2>1. ControlType /\ TuneInv /\ PostedInv /\ RequestedInv /\ faults = 0
    BY <1>1 DEF KnobInv, Applied
  <2>2. todo = <<>> /\ (\A i \in 1..Len(todo) : FALSE) /\ DOMAIN pending = {}
    BY <2>1, NoChangeIs DEF Applied, TuneInv
  <2>3. \A k, v : Becomes(k, v) => device[k] = v
    BY <2>1, <2>2 DEF Becomes, Leaves, TuneInv
  <2>4. ASSUME \A c \in Controllers : ctl[c] = "idle" PROVE Gains(device) = requested
    <3>1. requested_lock = Nobody
      BY <2>1, <2>4 DEF RequestedInv, ControlType
    <3>2. \A g \in GainKnobs : device[g] = requested[g]
      BY <2>1, <2>3, <3>1 DEF RequestedInv
    <3> QED BY <2>1, <3>2 DEF Gains, ControlType
  <2>5. \A k \in DOMAIN posted : device[k] = posted[k]
    BY <2>1, <2>3 DEF PostedInv
  <2> QED BY <2>1, <2>4, <2>5 DEF TuneInv
<1> QED BY <1>1, KnobsAreOnTheirWay, PTL


-----------------------------------------------------------------------------
(* The stream *)

TransferOf == [seq : Nat, offset : Nat, len : Nat, data : [settings : SUBSET Settings, lost : Nat]]

StreamType ==
  /\ next_seq \in Nat /\ next_offset \in Nat /\ dropped_samples \in Nat /\ truncated \in Nat
  /\ arriving \in TransferOf \cup {None} /\ taken \in TransferOf \cup {None}
  /\ filled \in Seq(TransferOf)
  /\ accepted \in BOOLEAN /\ (accepted => arriving # None)
  /\ filling \in SUBSET Settings /\ completed \in Seq(SUBSET Settings)
  /\ discard_below_seq \in Nat /\ held_back \in Nat /\ next_index \in Nat
  /\ delivered_samples \in Nat /\ discarded_samples \in Nat /\ lost_samples \in Nat

(* The transfers that have arrived and are not done with. *)
Pipeline == {t \in {taken, arriving} : t # None} \cup {filled[i] : i \in 1..Len(filled)}

(* The first transfer that began after the last change was made. *)
CleanFrom == discard_below_seq + held_back

(* Outside a change, every transfer that began after the last one was taken under the settings *)
(* of the stream: those that have arrived, those that wait for their callback and the one that *)
(* is filling.                                                                                 *)
SettingsInv ==
  /\ \A t \in Pipeline : t.seq < next_seq
  /\ pc # "apply" =>
       /\ \A t \in Pipeline : t.seq >= CleanFrom => t.data.settings = {tune}
       /\ \A i \in 1..Len(completed) : next_seq + i > CleanFrom => completed[i] = {tune}
       /\ next_seq + Len(completed) >= CleanFrom => filling = {tune}

ProvenanceInv == provenance.tune = IF pc = "apply" THEN before ELSE tune

(* What the next block has to say is waiting to be said. *)
FlagsInv ==
  /\ "GAP" \notin pending_flags
  /\ IF block = None THEN "STREAM_START" \in pending_flags
     ELSE Between(block.provenance, provenance) \subseteq pending_flags

(* A transfer's place in the stream, not counting what the pool had lost when it arrived. *)
Net(t) == t.offset - t.data.lost

Lost == dropped_samples + truncated

Done == delivered_samples + discarded_samples

Front == IF taken = None THEN Done ELSE Done + taken.len

Back == IF filled = <<>> THEN Front ELSE Net(filled[Len(filled)]) + filled[Len(filled)].len

(* Transfers follow one another without a hole, but for what the pool lost, and begin where   *)
(* the capture thread is.                                                                     *)
ChainInv ==
  /\ taken # None => Net(taken) = Done
  /\ filled # <<>> => Net(filled[1]) = Front
  /\ \A i, j \in 1..Len(filled) : j = i + 1 => Net(filled[j]) = Net(filled[i]) + filled[i].len
  /\ arriving # None => /\ Net(arriving) = Back /\ arriving.data.lost = Lost
                        /\ next_offset = arriving.offset + arriving.len
  /\ arriving = None => next_offset - Lost = Back

(* What the pool has lost only grows, and gaps already reported were lost or discarded. *)
LossInv ==
  /\ next_index = delivered_samples + lost_samples
  /\ lost_samples <= discarded_samples + Lost
  /\ \A t \in Pipeline : lost_samples <= discarded_samples + t.data.lost /\ t.data.lost <= Lost
  /\ \A i, j \in 1..Len(filled) : i <= j => filled[i].data.lost <= filled[j].data.lost
  /\ taken # None => \A i \in 1..Len(filled) : taken.data.lost <= filled[i].data.lost

(* A step that leaves the transfers, the settings and the stream alone. *)
Still ==
  /\ UNCHANGED <<queueVars, filling, completed, truncated>>
  /\ UNCHANGED <<device, tune, before, provenance, pending_flags, discard_below_seq, held_back>>
  /\ UNCHANGED <<next_index, block, delivered_samples, discarded_samples, lost_samples>>
  /\ pc' = "apply" <=> pc = "apply"

LEMMA StreamSteps ==
  ASSUME [Next]_vars
  PROVE  \/ CompleteTransfer \/ TransferArrives \/ CallbackStep
         \/ TakePosted \/ ApplyCall \/ Settle
         \/ TakeTransfer \/ Discard \/ SkipEmpty \/ Deliver
         \/ Still
<1>1. ASSUME NEW c \in Controllers,
             \/ \E operation \in Operations, value \in Values : RequestKnob(c, operation, value)
             \/ \E gains : RequestGains(c, gains)
             \/ Post(c) \/ Bump(c) \/ Stop
      PROVE  Still
  BY <1>1 DEF RequestKnob, RequestGains, Post, Bump, Stop, Still, controlFrame, radio, tuning, stream,
              frame, output
<1>2. CASE Call \/ Drop \/ EndOfStream \/ Begin \/ BeginFails \/ Continue
  BY <1>2 DEF Call, Drop, EndOfStream, Finish, Begin, BeginFails, Continue, Goes, Still, captureFrame,
              radio, tuning, stream, frame, output
<1>3. CASE NothingPosted \/ SomethingPosted \/ MailboxBusy \/ NoTransfer \/ CheckStall \/ Stalled
  BY <1>3 DEF NothingPosted, SomethingPosted, MailboxBusy, NoTransfer, CheckStall, Stalled,
              Goes, Still, captureFrame, radio, tuning, stream, frame, output
<1>4. CASE ApplyFails \/ Stop \/ UNCHANGED vars
  BY <1>4 DEF ApplyFails, Goes, Stop, vars, Still, captureFrame, controlFrame, radio, tuning, stream,
              frame, output
<1> QED BY <1>1, <1>2, <1>3, <1>4 DEF Next, CaptureStep, ControlStep, SetGains, SetGain

(* The parts of a queue. *)
LEMMA EmptyIs ==
  ASSUME NEW S, NEW s \in Seq(S)
  PROVE  s = <<>> <=> Len(s) = 0
OBVIOUS

LEMMA AppendIs ==
  ASSUME NEW S, NEW s \in Seq(S), NEW e \in S
  PROVE  /\ Append(s, e) \in Seq(S) /\ Append(s, e) # <<>> /\ Len(s) \in Nat
         /\ Len(Append(s, e)) = Len(s) + 1 /\ Append(s, e)[Len(s) + 1] = e
         /\ \A i \in 1..Len(s) : Append(s, e)[i] = s[i]
         /\ \A i \in 1..Len(Append(s, e)) : i \in 1..Len(s) \/ i = Len(s) + 1
         /\ s = <<>> <=> Len(s) = 0
<1>1. /\ Append(s, e) \in Seq(S) /\ Len(s) \in Nat
      /\ Len(Append(s, e)) = Len(s) + 1 /\ Append(s, e)[Len(s) + 1] = e
      /\ \A i \in 1..Len(s) : Append(s, e)[i] = s[i]
  OBVIOUS
<1>2. s = <<>> <=> Len(s) = 0
  BY EmptyIs
<1>3. Append(s, e) # <<>>
  <2>1. PICK t \in Seq(S) : t = Append(s, e)
    BY <1>1
  <2>2. Len(t) # 0
    BY <1>1, <2>1
  <2>3. t # <<>>
    BY <2>2, EmptyIs
  <2> QED BY <2>1, <2>3
<1>4. \A i \in 1..Len(Append(s, e)) : i \in 1..Len(s) \/ i = Len(s) + 1
  BY <1>1
<1> QED BY <1>1, <1>2, <1>3, <1>4

LEMMA TailIs ==
  ASSUME NEW S, NEW s \in Seq(S), s # <<>>
  PROVE  /\ Tail(s) \in Seq(S) /\ Len(s) \in Nat \ {0} /\ Head(s) = s[1] /\ s[1] \in S
         /\ Len(Tail(s)) = Len(s) - 1
         /\ \A i \in 1..Len(Tail(s)) : Tail(s)[i] = s[i + 1] /\ i + 1 \in 1..Len(s)
         /\ Tail(s) = <<>> <=> Len(s) = 1
<1>1. /\ Tail(s) \in Seq(S) /\ Len(s) \in Nat \ {0} /\ Head(s) = s[1] /\ s[1] \in S
      /\ Len(Tail(s)) = Len(s) - 1
  OBVIOUS
<1>2. \A i \in 1..Len(Tail(s)) : Tail(s)[i] = s[i + 1] /\ i + 1 \in 1..Len(s)
  BY <1>1
<1>3. PICK t \in Seq(S) : t = Tail(s)
  BY <1>1
<1>4. Len(t) = 0 <=> Len(s) = 1
  BY <1>1, <1>3
<1>5. t = <<>> <=> Len(s) = 1
  BY <1>4, EmptyIs
<1>6. Tail(s) = <<>> <=> Len(s) = 1
  BY <1>3, <1>5
<1> QED BY <1>1, <1>2, <1>6

(* What may be in the pipeline after a step. *)
LEMMA PipelineType ==
  ASSUME StreamType
  PROVE  /\ \A t \in Pipeline : t \in TransferOf
         /\ taken # None => taken \in Pipeline
         /\ arriving # None => arriving \in Pipeline
         /\ \A i \in 1..Len(filled) : filled[i] \in Pipeline
         /\ \A t \in Pipeline : \/ t = taken /\ taken # None
                                \/ t = arriving /\ arriving # None
                                \/ \E i \in 1..Len(filled) : t = filled[i]
<1>1. \A i \in 1..Len(filled) : filled[i] \in TransferOf
  BY DEF StreamType
<1> QED BY <1>1 DEF StreamType, Pipeline

LEMMA TransferIs ==
  ASSUME NEW t \in TransferOf
  PROVE  /\ t # None
         /\ t.seq \in Nat /\ t.offset \in Nat /\ t.len \in Nat
         /\ t.data.settings \in SUBSET Settings /\ t.data.lost \in Nat
         /\ Net(t) \in Int
<1>1. /\ t.seq \in Nat /\ t.offset \in Nat /\ t.len \in Nat
      /\ t.data \in [settings : SUBSET Settings, lost : Nat]
  BY DEF TransferOf
<1>2. t # None
  BY <1>1 DEF None
<1> QED BY <1>1, <1>2 DEF Net


-----------------------------------------------------------------------------
(* What blocks say of changes *)

LEMMA BetweenIs ==
  ASSUME NEW a, NEW b, NEW f
  PROVE  f \in Between(a, b) <=> \/ f = "RETUNE" /\ a.tune["freq"] # b.tune["freq"]
                                 \/ f = "RATE_CHANGE" /\ a.tune["rate"] # b.tune["rate"]
                                 \/ f = "GAIN_CHANGE" /\ Gains(a.tune) # Gains(b.tune)
                                 \/ f = "PROVENANCE_CHANGE" /\ a # b
<1>1. CASE f \in {"RETUNE", "RATE_CHANGE", "GAIN_CHANGE", "PROVENANCE_CHANGE"}
  BY <1>1 DEF Between
<1>2. CASE f \notin {"RETUNE", "RATE_CHANGE", "GAIN_CHANGE", "PROVENANCE_CHANGE"}
  BY <1>2 DEF Between
<1> QED BY <1>1, <1>2

(* A difference between two provenances shows on the way from one to the other. *)
LEMMA BetweenThree ==
  ASSUME NEW a, NEW b, NEW c
  PROVE  Between(a, c) \subseteq Between(a, b) \cup Between(b, c)
<1> SUFFICES ASSUME NEW f \in Between(a, c), f \notin Between(b, c) PROVE f \in Between(a, b)
  OBVIOUS
<1>1. \/ f = "RETUNE" /\ a.tune["freq"] # b.tune["freq"]
      \/ f = "RATE_CHANGE" /\ a.tune["rate"] # b.tune["rate"]
      \/ f = "GAIN_CHANGE" /\ Gains(a.tune) # Gains(b.tune)
      \/ f = "PROVENANCE_CHANGE" /\ a # b
  BY BetweenIs
<1> QED BY <1>1, BetweenIs

LEMMA BetweenSame == \A a : Between(a, a) = {}
BY BetweenIs

LEMMA BetweenNoGap == \A a, b : "GAP" \notin Between(a, b)
BY BetweenIs

LEMMA FlagsStep ==
  ASSUME FlagsInv, ProvenanceInv, [Next]_vars
  PROVE  FlagsInv' /\ ProvenanceInv'
<1>1. CASE CompleteTransfer \/ TransferArrives \/ CallbackStep \/ TakeTransfer \/ Still
  BY <1>1 DEF CompleteTransfer, TransferArrives, CallbackStep, TakeTransfer, Still, Goes, captureFrame,
              radioFrame, tuning, stream, frame, output, FlagsInv, ProvenanceInv
<1>2. CASE Discard \/ SkipEmpty \/ TakePosted \/ ApplyCall
  BY <1>2 DEF Discard, SkipEmpty, TakePosted, ApplyCall, Goes, captureFrame, tuning, stream, frame,
              output, FlagsInv, ProvenanceInv
<1>3. CASE Settle
  <2>1. pc = "apply" /\ pc' # "apply" /\ UNCHANGED <<block, tune>>
    BY <1>3 DEF Settle, output
  <2>2. CASE tune = before
    BY <1>3, <2>1, <2>2 DEF Settle, FlagsInv, ProvenanceInv
  <2>3. CASE tune # before
    <3>1. /\ pending_flags' = pending_flags \cup Between(provenance, provenance')
          /\ provenance'.tune = tune
      BY <1>3, <2>3 DEF Settle, Mint, Provenance
    <3>2. "GAP" \notin pending_flags'
      BY <3>1, BetweenNoGap DEF FlagsInv
    <3>3. block # None => Between(block.provenance, provenance') \subseteq pending_flags'
      BY <3>1, BetweenThree DEF FlagsInv
    <3> QED BY <2>1, <3>1, <3>2, <3>3 DEF FlagsInv, ProvenanceInv
  <2> QED BY <2>2, <2>3
<1>4. CASE Deliver
  <2>1. /\ pc = "process" /\ pc' = "caller" /\ pending_flags' = {} /\ UNCHANGED tune
        /\ provenance'.tune \in {provenance.tune, tune}
        /\ block'.provenance = provenance'
    BY <1>4 DEF Deliver, Goes, Provenance
  <2>2. block' # None
    <3>1. "dropped_before" \in DOMAIN block' /\ "dropped_before" \notin DOMAIN None
      BY <1>4 DEF Deliver, None
    <3> QED BY <3>1
  <2> QED BY <2>1, <2>2, BetweenSame DEF FlagsInv, ProvenanceInv
<1> QED BY <1>1, <1>2, <1>3, <1>4, StreamSteps

LEMMA FlagsInit == Init => FlagsInv /\ ProvenanceInv
BY DEF Init, FlagsInv, ProvenanceInv, Provenance

(* A delivered block's fields, and that nothing else delivers one. *)
LEMMA BlockIs ==
  ASSUME [Next]_vars, block' # block
  PROVE  /\ Deliver
         /\ block'.flags = pending_flags \cup Between(provenance, provenance')
                             \cup (IF MissingBefore > 0 THEN {"GAP"} ELSE {})
         /\ block'.provenance = provenance' /\ block'.dropped_before = MissingBefore
         /\ block'.data = taken.data
<1>1. Deliver
  BY StreamSteps DEF CompleteTransfer, TransferArrives, CallbackStep, TakePosted, ApplyCall, Settle,
     TakeTransfer, Discard, SkipEmpty, Still, captureFrame, radioFrame, output
<1> QED BY <1>1 DEF Deliver

(* The first block starts the stream, each says what is new about it, however many transfers  *)
(* were discarded and changes failed in between, and GAP is its word for missing samples.     *)
THEOREM BlocksTellChanges == Spec => ChangesAreFlagged
<1>1. Spec => [](FlagsInv /\ ProvenanceInv)
  <2>1. FlagsInv /\ ProvenanceInv /\ [Next]_vars => (FlagsInv /\ ProvenanceInv)'
    BY FlagsStep
  <2> QED BY <2>1, FlagsInit, PTL DEF Spec
<1>2. ASSUME FlagsInv, [Next]_vars, block' # block
      PROVE  /\ block = None => "STREAM_START" \in block'.flags
             /\ block # None => Between(block.provenance, block'.provenance) \subseteq block'.flags
             /\ "GAP" \in block'.flags <=> block'.dropped_before > 0
  <2>1. /\ block'.flags = pending_flags \cup Between(provenance, provenance')
                            \cup (IF MissingBefore > 0 THEN {"GAP"} ELSE {})
        /\ block'.provenance = provenance' /\ block'.dropped_before = MissingBefore
    BY <1>2, BlockIs
  <2>2. "GAP" \in block'.flags <=> MissingBefore > 0
    BY <1>2, <2>1, BetweenNoGap DEF FlagsInv
  <2>3. block # None => Between(block.provenance, block'.provenance) \subseteq block'.flags
    BY <1>2, <2>1, BetweenThree DEF FlagsInv
  <2> QED BY <1>2, <2>1, <2>2, <2>3 DEF FlagsInv
<1>3. ASSUME FlagsInv
      PROVE  [Next]_vars =>
        [block' # block =>
           /\ block = None => "STREAM_START" \in block'.flags
           /\ block # None => Between(block.provenance, block'.provenance) \subseteq block'.flags
           /\ "GAP" \in block'.flags <=> block'.dropped_before > 0]_vars
  BY <1>2, <1>3
<1> QED BY <1>1, <1>3, PTL DEF Spec, ChangesAreFlagged


-----------------------------------------------------------------------------
(* Every sample is delivered or counted as missing *)

AccountInv == StreamType /\ ChainInv /\ LossInv

(* A step that takes no transfer further. *)
LEMMA AccountStays ==
  ASSUME AccountInv, StreamType',
         UNCHANGED <<next_offset, arriving, filled, taken, dropped_samples, truncated>>,
         UNCHANGED <<next_index, delivered_samples, discarded_samples, lost_samples>>
  PROVE  AccountInv'
BY DEF AccountInv, ChainInv, LossInv, Net, Lost, Done, Front, Back, Pipeline

LEMMA ArriveStep ==
  ASSUME AccountInv, device \in Settings, TransferArrives
  PROVE  AccountInv'
<1>1. PICK len \in Nat, settings \in SUBSET Settings : Arrive(len, Samples(settings))
  <2>1. Head(completed) \in SUBSET Settings
    BY TailIs DEF TransferArrives, AccountInv, StreamType
  <2> QED BY <2>1, QueueAssumption DEF TransferArrives
<1> DEFINE new == Transfer(next_seq, next_offset, len, Samples(settings))
<1>2. /\ arriving = None /\ arriving' = new
      /\ next_seq' = next_seq + 1 /\ next_offset' = next_offset + len
      /\ UNCHANGED <<accepted, free, filled, taken, dropped_samples>>
  BY <1>1 DEF Arrive
<1>3. /\ UNCHANGED <<device, truncated, discard_below_seq, held_back, next_index>>
      /\ UNCHANGED <<delivered_samples, discarded_samples, lost_samples>>
      /\ filling' \in SUBSET Settings /\ completed' \in Seq(SUBSET Settings)
  <2>1. Tail(completed) \in Seq(SUBSET Settings)
    BY TailIs DEF TransferArrives, AccountInv, StreamType
  <2> QED BY <2>1 DEF TransferArrives, AccountInv, StreamType, radioFrame, output, stream
<1>4. StreamType /\ ChainInv /\ LossInv /\ Lost \in Nat
  BY DEF AccountInv, StreamType, Lost
<1>5. /\ new \in TransferOf /\ new.offset = next_offset /\ new.len = len /\ new.data.lost = Lost
      /\ new.seq = next_seq
  BY <1>4 DEF Transfer, TransferOf, Samples, StreamType, Lost
<1> HIDE DEF new
<1>6. new # None /\ Net(new) = next_offset - Lost
  BY <1>5, TransferIs DEF Net
<1>7. StreamType'
  BY <1>2, <1>3, <1>4, <1>5, <1>6 DEF StreamType
<1>8. Lost' = Lost /\ Done' = Done /\ Front' = Front /\ Back' = Back
  BY <1>2, <1>3 DEF Lost, Done, Front, Back, Net
<1>9. ChainInv'
  BY <1>2, <1>4, <1>5, <1>6, <1>8 DEF ChainInv, Net
<1>10. \A t \in Pipeline' : t \in Pipeline \/ t = new
  BY <1>2 DEF Pipeline
<1>11. LossInv'
  <2>1. lost_samples <= discarded_samples + new.data.lost /\ new.data.lost <= Lost
    BY <1>4, <1>5 DEF LossInv
  <2> QED BY <1>2, <1>3, <1>4, <1>8, <1>10, <2>1 DEF LossInv
<1> QED BY <1>7, <1>9, <1>11 DEF AccountInv

LEMMA CallbackAccounts ==
  ASSUME AccountInv, CallbackStep
  PROVE  AccountInv'
<1>1. /\ UNCHANGED <<filling, completed, discard_below_seq, held_back, next_index>>
      /\ UNCHANGED <<delivered_samples, discarded_samples, lost_samples>>
  BY DEF CallbackStep, radioFrame, output, stream
<1>2. StreamType /\ ChainInv /\ LossInv /\ Lost \in Nat
  BY DEF AccountInv, StreamType, Lost
<1>3. CASE Accept
  <2>1. /\ UNCHANGED <<next_seq, next_offset, arriving, filled, taken, dropped_samples, truncated>>
        /\ accepted' \in BOOLEAN /\ arriving # None
    BY <1>3 DEF Accept, CallbackStep
  <2> QED BY <1>1, <1>2, <2>1, AccountStays DEF StreamType
<1>4. CASE DropTransfer
  <2>1. /\ arriving # None /\ ~accepted /\ arriving' = None
        /\ dropped_samples' = dropped_samples + arriving.len
        /\ UNCHANGED <<next_seq, next_offset, accepted, filled, taken, truncated>>
    BY <1>4 DEF DropTransfer, CallbackStep
  <2>2. arriving \in TransferOf /\ arriving.len \in Nat /\ arriving.offset \in Nat /\ arriving.data.lost \in Nat
    BY <1>2, <2>1, TransferIs DEF StreamType
  <2>3. StreamType'
    BY <1>1, <1>2, <2>1, <2>2 DEF StreamType
  <2>4. Lost' = Lost + arriving.len /\ Done' = Done /\ Front' = Front /\ Back' = Back
    BY <1>1, <1>2, <2>1, <2>2 DEF Lost, Done, Front, Back, Net, StreamType
  <2>5. ChainInv'
    <3>1. next_offset - Lost' = Back
      <4>1. next_offset = arriving.offset + arriving.len /\ Back = arriving.offset - Lost
        BY <1>2, <2>1 DEF ChainInv, Net
      <4>2. \A a, b, c \in Nat : (a + b) - (c + b) = a - c
        OBVIOUS
      <4> QED BY <1>2, <2>2, <2>4, <4>1, <4>2
    <3> QED BY <1>2, <2>1, <2>4, <3>1 DEF ChainInv, Net
  <2>6. \A t \in Pipeline' : t \in Pipeline
    BY <2>1 DEF Pipeline
  <2>7. \A t \in Pipeline : t.data.lost \in Nat
    BY <1>2, PipelineType, TransferIs
  <2>8. LossInv'
    <3>1. Lost' \in Nat /\ Lost <= Lost'
      BY <1>2, <2>2, <2>4
    <3>2. lost_samples <= discarded_samples + Lost'
      <4>1. lost_samples <= discarded_samples + Lost /\ lost_samples \in Nat /\ discarded_samples \in Nat
        BY <1>2 DEF LossInv, StreamType
      <4>2. \A a, b, c, d \in Nat : a <= b + c /\ c <= d => a <= b + d
        OBVIOUS
      <4> QED BY <1>2, <3>1, <4>1, <4>2
    <3>3. \A t \in Pipeline' : lost_samples <= discarded_samples + t.data.lost /\ t.data.lost <= Lost'
      <4> SUFFICES ASSUME NEW t \in Pipeline'
                   PROVE  lost_samples <= discarded_samples + t.data.lost /\ t.data.lost <= Lost'
        OBVIOUS
      <4>1. t \in Pipeline /\ t.data.lost \in Nat
        BY <2>6, <2>7
      <4>2. lost_samples <= discarded_samples + t.data.lost /\ t.data.lost <= Lost
        BY <1>2, <4>1 DEF LossInv
      <4>3. \A a, b, c \in Nat : a <= b /\ b <= c => a <= c
        OBVIOUS
      <4> QED BY <1>2, <3>1, <4>1, <4>2, <4>3
    <3> QED BY <1>1, <1>2, <2>1, <3>2, <3>3 DEF LossInv
  <2> QED BY <2>3, <2>5, <2>8 DEF AccountInv
<1>5. CASE Publish
  <2> DEFINE kept == [arriving EXCEPT !.len = Fitting(arriving.len)]
             n == Len(filled)
  <2>1. /\ accepted /\ arriving # None /\ arriving' = None /\ accepted' = FALSE
        /\ filled' = Append(filled, kept)
        /\ truncated' = truncated + (arriving.len - Fitting(arriving.len))
        /\ UNCHANGED <<next_seq, next_offset, taken, dropped_samples>>
    BY <1>2, <1>5 DEF Publish, CallbackStep, StreamType
  <2>2. arriving \in TransferOf /\ arriving.len \in Nat /\ arriving.offset \in Nat /\ arriving.data.lost \in Nat
    BY <1>2, <2>1, TransferIs DEF StreamType
  <2>3. /\ Fitting(arriving.len) \in Nat /\ arriving.len - Fitting(arriving.len) \in Nat
    BY <2>2, QueueAssumption DEF Fitting
  <2>4. /\ kept \in TransferOf /\ kept.offset = arriving.offset /\ kept.data = arriving.data
        /\ kept.seq = arriving.seq /\ kept.len = Fitting(arriving.len)
    BY <2>2, <2>3 DEF TransferOf
  <2> HIDE DEF kept
  <2>5. /\ filled' \in Seq(TransferOf) /\ filled' # <<>> /\ n \in Nat
        /\ Len(filled') = n + 1 /\ filled'[n + 1] = kept
        /\ \A i \in 1..n : filled'[i] = filled[i]
        /\ \A i \in 1..Len(filled') : i \in 1..n \/ i = n + 1
        /\ filled = <<>> <=> n = 0
    BY <1>2, <2>1, <2>4, AppendIs DEF StreamType
  <2> HIDE DEF n
  <2>6. StreamType'
    <3>1. truncated' \in Nat
      BY <1>2, <2>1, <2>3 DEF StreamType
    <3>2. filled' \in Seq(TransferOf) /\ accepted' = FALSE /\ arriving' = None
      BY <2>1, <2>5
    <3> QED BY <1>1, <1>2, <2>1, <3>1, <3>2 DEF StreamType
  <2>7. /\ Net(kept) = Back /\ Net(kept) = Net(arriving)
    BY <1>2, <2>1, <2>4 DEF ChainInv, Net
  <2>8. /\ Done' = Done /\ Front' = Front /\ Lost' = Lost + (arriving.len - Fitting(arriving.len))
        /\ Back' = Net(kept) + Fitting(arriving.len)
    <3>1. filled'[Len(filled')] = kept
      BY <2>5
    <3>2. Done' = Done /\ Front' = Front
      BY <1>1, <2>1 DEF Done, Front
    <3>3. Lost' = Lost + (arriving.len - Fitting(arriving.len))
      BY <1>2, <2>1, <2>2, <2>3 DEF Lost, StreamType
    <3>4. Back' = Net(kept) + kept.len
      BY <2>5, <3>1 DEF Back, Net
    <3> QED BY <2>4, <3>2, <3>3, <3>4
  <2>9. \A i \in 1..n : filled[i] \in TransferOf /\ filled[i].len \in Nat /\ filled[i].data.lost \in Nat
    BY <1>2, TransferIs DEF StreamType, n
  <2>10. ChainInv'
    <3>1. next_offset' - Lost' = Back'
      <4>1. next_offset' = arriving.offset + arriving.len /\ Net(kept) = arriving.offset - Lost
        BY <1>2, <2>1, <2>4 DEF ChainInv, Net
      <4> HIDE DEF Lost, Back
      <4>2. Lost' = Lost + (arriving.len - Fitting(arriving.len)) /\ Back' = Net(kept) + Fitting(arriving.len)
        BY <2>8
      <4> QED BY <1>2, <2>2, <2>3, <4>1, <4>2
    <3>2. filled' # <<>> => Net(filled[1])' = Front'
      <4>1. CASE n = 0
        BY <2>5, <2>7, <2>8, <4>1 DEF Back, Net
      <4>2. CASE n # 0
        <5>1. 1 \in 1..n /\ Net(filled[1]) = Front
          BY <1>2, <2>5, <4>2 DEF ChainInv
        <5> QED BY <2>5, <2>8, <5>1 DEF Net
      <4> QED BY <4>1, <4>2
    <3>3. ASSUME NEW i \in 1..Len(filled'), NEW j \in 1..Len(filled'), j = i + 1
          PROVE  Net(filled[j])' = Net(filled[i])' + filled'[i].len
      <4>1. i \in 1..n /\ filled'[i] = filled[i]
        BY <2>5, <3>3
      <4>2. CASE j \in 1..n
        <5>1. filled'[j] = filled[j] /\ Net(filled[j]) = Net(filled[i]) + filled[i].len
          BY <1>2, <2>5, <3>3, <4>1, <4>2 DEF ChainInv, n
        <5> QED BY <4>1, <5>1 DEF Net
      <4>3. CASE j = n + 1
        <5>1. i = n /\ filled # <<>> /\ Back = Net(filled[i]) + filled[i].len
          BY <2>5, <3>3, <4>1, <4>3 DEF Back, n
        <5> QED BY <2>5, <2>7, <4>1, <4>3, <5>1 DEF Net
      <4> QED BY <2>5, <4>2, <4>3
    <3>4. taken' # None => Net(taken)' = Done'
      BY <1>2, <2>1, <2>8 DEF ChainInv, Net
    <3> QED BY <2>1, <3>1, <3>2, <3>3, <3>4 DEF ChainInv
  <2>11. LossInv'
    <3>1. Lost <= Lost' /\ Lost' \in Nat
      BY <1>2, <2>3, <2>8
    <3>2. /\ kept.data.lost \in Nat /\ lost_samples <= discarded_samples + kept.data.lost
          /\ kept.data.lost = Lost
      BY <1>2, <2>1, <2>2, <2>4, PipelineType DEF LossInv, ChainInv
    <3>3. \A t \in Pipeline' : t \in Pipeline \/ t = kept
      <4>1. \A i \in 1..Len(filled') : filled'[i] \in Pipeline \/ filled'[i] = kept
        BY <1>2, <2>5, PipelineType DEF n
      <4> QED BY <2>1, <4>1 DEF Pipeline
    <3>4. \A t \in Pipeline : /\ lost_samples <= discarded_samples + t.data.lost
                              /\ t.data.lost <= Lost /\ t.data.lost \in Nat
      BY <1>2, PipelineType, TransferIs DEF LossInv
    <3>5. \A t \in Pipeline' : lost_samples <= discarded_samples + t.data.lost /\ t.data.lost <= Lost'
      BY <1>2, <3>1, <3>2, <3>3, <3>4
    <3>6. \A i \in 1..n : filled[i].data.lost <= kept.data.lost /\ filled[i].data.lost \in Nat
      BY <1>2, <3>2, <3>4, PipelineType DEF n
    <3>7. \A i, j \in 1..Len(filled') : i <= j => filled'[i].data.lost <= filled'[j].data.lost
      <4> SUFFICES ASSUME NEW i \in 1..Len(filled'), NEW j \in 1..Len(filled'), i <= j
                   PROVE  filled'[i].data.lost <= filled'[j].data.lost
        OBVIOUS
      <4>1. CASE j \in 1..n
        <5>1. i \in 1..n /\ filled'[i] = filled[i] /\ filled'[j] = filled[j]
          BY <2>5, <4>1
        <5> QED BY <1>2, <4>1, <5>1 DEF LossInv, n
      <4>2. CASE j = n + 1
        BY <2>5, <3>2, <3>6, <4>2
      <4> QED BY <2>5, <4>1, <4>2
    <3>8. taken # None => \A i \in 1..Len(filled') : taken.data.lost <= filled'[i].data.lost
      <4> SUFFICES ASSUME taken # None, NEW i \in 1..Len(filled')
                   PROVE  taken.data.lost <= filled'[i].data.lost
        OBVIOUS
      <4>1. taken.data.lost <= kept.data.lost
        BY <1>2, <3>2, <3>4, PipelineType
      <4>2. i \in 1..n => taken.data.lost <= filled[i].data.lost
        BY <1>2 DEF LossInv, n
      <4> QED BY <2>5, <4>1, <4>2
    <3>9. lost_samples <= discarded_samples + Lost'
      BY <1>2, <3>1 DEF LossInv, StreamType
    <3> QED BY <1>1, <1>2, <2>1, <3>5, <3>7, <3>8, <3>9 DEF LossInv
  <2> QED BY <2>6, <2>10, <2>11 DEF AccountInv
<1> QED BY <1>3, <1>4, <1>5 DEF CallbackStep


LEMMA TakeAccounts ==
  ASSUME AccountInv, TakeTransfer
  PROVE  AccountInv'
<1> DEFINE rest == Tail(filled)
           first == filled[1]
           n == Len(filled)
<1>1. /\ taken = None /\ filled # <<>> /\ taken' = Head(filled) /\ filled' = rest
      /\ UNCHANGED <<next_seq, next_offset, arriving, accepted, dropped_samples, truncated>>
      /\ UNCHANGED <<filling, completed, discard_below_seq, held_back, next_index>>
      /\ UNCHANGED <<delivered_samples, discarded_samples, lost_samples>>
  BY DEF TakeTransfer, Take, captureFrame, radio, stream, output
<1>2. StreamType /\ ChainInv /\ LossInv
  BY DEF AccountInv
<1>3. /\ rest \in Seq(TransferOf) /\ n \in Nat \ {0} /\ taken' = first /\ first \in TransferOf
      /\ Len(rest) = n - 1
      /\ \A i \in 1..Len(rest) : rest[i] = filled[i + 1] /\ i + 1 \in 1..n
      /\ rest = <<>> <=> n = 1
  BY <1>1, <1>2, TailIs DEF StreamType
<1>4. first # None /\ Net(first) = Done /\ Done \in Nat /\ first.len \in Nat
  <2>1. first # None /\ first.len \in Nat
    BY <1>3, TransferIs
  <2>2. Net(first) = Front /\ Front = Done
    BY <1>1, <1>2 DEF ChainInv, Front
  <2>3. Done \in Nat
    BY <1>2 DEF Done, StreamType
  <2> QED BY <2>1, <2>2, <2>3
<1>5. StreamType'
  BY <1>1, <1>2, <1>3 DEF StreamType
<1>6. Lost' = Lost /\ Done' = Done /\ Front' = Done + first.len
  BY <1>1, <1>3, <1>4 DEF Lost, Done, Front
<1>7. Back' = Back
  <2>1. CASE n = 1
    BY <1>1, <1>3, <1>4, <1>6, <2>1 DEF Back
  <2>2. CASE n # 1
    <3>1. rest[Len(rest)] = filled[n] /\ rest # <<>>
      BY <1>3, <2>2
    <3> QED BY <1>1, <3>1 DEF Back, Net
  <2> QED BY <2>1, <2>2
<1>8. ChainInv'
  <2>1. filled' # <<>> => Net(filled[1])' = Front'
    <3> SUFFICES ASSUME rest # <<>> PROVE Net(rest[1]) = Done + first.len
      BY <1>1, <1>6 DEF Net
    <3>1. 1 \in 1..Len(rest) /\ 1 \in 1..n /\ 2 \in 1..n /\ rest[1] = filled[2]
      BY <1>3
    <3>2. Net(filled[2]) = Net(filled[1]) + filled[1].len
      BY <1>2, <3>1 DEF ChainInv
    <3> QED BY <1>4, <3>1, <3>2
  <2>2. ASSUME NEW i \in 1..Len(rest), NEW j \in 1..Len(rest), j = i + 1
        PROVE  Net(rest[j]) = Net(rest[i]) + rest[i].len
    <3>1. i + 1 \in 1..n /\ j + 1 \in 1..n /\ j + 1 = (i + 1) + 1
      BY <1>3, <2>2
    <3>2. Net(filled[j + 1]) = Net(filled[i + 1]) + filled[i + 1].len
      BY <1>2, <3>1 DEF ChainInv
    <3> QED BY <1>3, <3>2
  <2>3. Net(taken)' = Done'
    BY <1>3, <1>4, <1>6 DEF Net
  <2> QED BY <1>1, <1>2, <1>6, <1>7, <2>1, <2>2, <2>3 DEF ChainInv, Net
<1>9. LossInv'
  <2>1. \A t \in Pipeline' : t \in Pipeline
    <3>1. taken' \in Pipeline
      BY <1>2, <1>3, PipelineType
    <3>2. \A i \in 1..Len(rest) : rest[i] \in Pipeline
      BY <1>2, <1>3, PipelineType
    <3> QED BY <1>1, <1>2, <3>1, <3>2, PipelineType DEF Pipeline
  <2>2. \A i, j \in 1..Len(rest) : i <= j => rest[i].data.lost <= rest[j].data.lost
    <3> SUFFICES ASSUME NEW i \in 1..Len(rest), NEW j \in 1..Len(rest), i <= j
                 PROVE  filled[i + 1].data.lost <= filled[j + 1].data.lost
      BY <1>3
    <3>1. i + 1 \in 1..n /\ j + 1 \in 1..n /\ i + 1 <= j + 1
      BY <1>3
    <3> QED BY <1>2, <3>1 DEF LossInv
  <2>3. \A i \in 1..Len(rest) : first.data.lost <= rest[i].data.lost
    <3> SUFFICES ASSUME NEW i \in 1..Len(rest) PROVE filled[1].data.lost <= filled[i + 1].data.lost
      BY <1>3
    <3>1. 1 \in 1..n /\ i + 1 \in 1..n /\ 1 <= i + 1
      BY <1>3
    <3> QED BY <1>2, <3>1 DEF LossInv
  <2> QED BY <1>1, <1>2, <1>3, <1>6, <2>1, <2>2, <2>3 DEF LossInv
<1> QED BY <1>5, <1>8, <1>9 DEF AccountInv

(* A transfer is done with, and its samples are delivered or discarded. *)
LEMMA RecycleKeepsChain ==
  ASSUME AccountInv, Recycle, UNCHANGED truncated, Done' = Done + taken.len
  PROVE  /\ ChainInv' /\ Lost' = Lost
         /\ \A t \in Pipeline' : t \in Pipeline
         /\ taken \in TransferOf /\ taken # None /\ taken' = None
<1>1. /\ taken # None /\ taken' = None
      /\ UNCHANGED <<next_seq, next_offset, arriving, accepted, filled, dropped_samples, truncated>>
  BY DEF Recycle
<1>2. StreamType /\ ChainInv /\ LossInv
  BY DEF AccountInv
<1>3. Lost' = Lost /\ Front' = Front
  BY <1>1 DEF Lost, Front
<1>4. Back' = Back
  BY <1>1, <1>3 DEF Back, Net
<1>5. ChainInv'
  BY <1>1, <1>2, <1>3, <1>4 DEF ChainInv, Net
<1>6. \A t \in Pipeline' : t \in Pipeline
  BY <1>1 DEF Pipeline
<1> QED BY <1>1, <1>2, <1>3, <1>5, <1>6 DEF StreamType

LEMMA DiscardAccounts ==
  ASSUME AccountInv, Discard \/ SkipEmpty
  PROVE  AccountInv'
<1>1. /\ Recycle /\ discarded_samples' = discarded_samples + taken.len
      /\ UNCHANGED <<filling, completed, truncated, discard_below_seq, held_back, next_index>>
      /\ UNCHANGED <<delivered_samples, lost_samples>>
  <2>1. CASE Discard
    BY <2>1 DEF Discard, captureFrame, radio, stream
  <2>2. CASE SkipEmpty
    <3>1. /\ Recycle /\ taken.len = 0 /\ UNCHANGED discarded_samples
          /\ UNCHANGED <<filling, completed, truncated, discard_below_seq, held_back, next_index>>
          /\ UNCHANGED <<delivered_samples, lost_samples>>
      BY <2>2 DEF SkipEmpty, captureFrame, radio, stream, output
    <3> QED BY <3>1 DEF AccountInv, StreamType
  <2> QED BY <2>1, <2>2
<1>2. StreamType /\ ChainInv /\ LossInv
  BY DEF AccountInv
<1>3. /\ taken # None /\ taken' = None /\ taken \in TransferOf /\ taken.len \in Nat
      /\ UNCHANGED <<next_seq, next_offset, arriving, accepted, filled, dropped_samples>>
  BY <1>1, <1>2, TransferIs DEF Recycle, StreamType
<1>4. Done' = Done + taken.len
  BY <1>1, <1>2, <1>3 DEF Done, StreamType
<1>5. ChainInv' /\ Lost' = Lost /\ \A t \in Pipeline' : t \in Pipeline
  BY <1>1, <1>4, RecycleKeepsChain
<1>6. StreamType'
  BY <1>1, <1>2, <1>3 DEF StreamType
<1>7. LossInv'
  <2>1. discarded_samples <= discarded_samples' /\ discarded_samples' \in Nat
    BY <1>1, <1>2, <1>3 DEF StreamType
  <2>2. Lost \in Nat /\ lost_samples \in Nat /\ discarded_samples \in Nat
    BY <1>2 DEF StreamType, Lost
  <2>3. lost_samples <= discarded_samples' + Lost
    <3>1. lost_samples <= discarded_samples + Lost
      BY <1>2 DEF LossInv
    <3>2. \A a, b, c, d \in Nat : a <= b + c /\ b <= d => a <= d + c
      OBVIOUS
    <3> QED BY <2>1, <2>2, <3>1, <3>2
  <2>4. \A t \in Pipeline : t.data.lost \in Nat
    BY <1>2, PipelineType, TransferIs
  <2>5. \A t \in Pipeline' : lost_samples <= discarded_samples' + t.data.lost /\ t.data.lost <= Lost
    BY <1>2, <1>5, <2>1, <2>2, <2>4 DEF LossInv
  <2> QED BY <1>1, <1>2, <1>3, <1>5, <2>3, <2>5 DEF LossInv
<1> QED BY <1>5, <1>6, <1>7 DEF AccountInv

(* The gap a block reports is what has gone missing since the block before it. *)
LEMMA DeliverAccounts ==
  ASSUME AccountInv, Deliver
  PROVE  /\ AccountInv'
         /\ lost_samples' = taken.data.lost + discarded_samples
         /\ next_index' = delivered_samples' + lost_samples'
<1>1. /\ Recycle /\ delivered_samples' = delivered_samples + taken.len
      /\ next_index' = taken.offset + taken.len /\ lost_samples' = lost_samples + MissingBefore
      /\ UNCHANGED <<filling, completed, truncated, discard_below_seq, held_back, discarded_samples>>
  BY DEF Deliver, Index, captureFrame, radio
<1>2. StreamType /\ ChainInv /\ LossInv
  BY DEF AccountInv
<1>3. /\ taken # None /\ taken' = None /\ taken \in TransferOf
      /\ taken.len \in Nat /\ taken.offset \in Nat /\ taken.data.lost \in Nat
      /\ UNCHANGED <<next_seq, next_offset, arriving, accepted, filled, dropped_samples>>
  BY <1>1, <1>2, TransferIs DEF Recycle, StreamType
<1>4. /\ delivered_samples \in Nat /\ discarded_samples \in Nat /\ lost_samples \in Nat /\ next_index \in Nat
      /\ Lost \in Nat
  BY <1>2 DEF StreamType, Lost
<1>5. Done' = Done + taken.len
  BY <1>1, <1>2, <1>3, <1>4 DEF Done
<1>6. ChainInv' /\ Lost' = Lost /\ \A t \in Pipeline' : t \in Pipeline
  BY <1>1, <1>5, RecycleKeepsChain
<1>7. /\ taken.offset - taken.data.lost = delivered_samples + discarded_samples
      /\ next_index = delivered_samples + lost_samples
      /\ lost_samples <= discarded_samples + taken.data.lost
  BY <1>2, <1>3, PipelineType DEF ChainInv, LossInv, Net, Done
<1>8. MissingBefore = taken.offset - next_index
  BY <1>3, <1>4, <1>7 DEF MissingBefore, Index
<1>9. /\ lost_samples' = taken.data.lost + discarded_samples
      /\ next_index' = delivered_samples' + lost_samples'
  BY <1>1, <1>3, <1>4, <1>7, <1>8
<1>10. StreamType'
  <2>1. delivered_samples' \in Nat /\ next_index' \in Nat /\ lost_samples' \in Nat
    BY <1>1, <1>3, <1>4, <1>9
  <2> QED BY <1>1, <1>2, <1>3, <2>1 DEF StreamType
<1>11. LossInv'
  <2>1. taken.data.lost <= Lost /\ \A t \in Pipeline : t.data.lost \in Nat
    BY <1>2, <1>3, PipelineType, TransferIs DEF LossInv
  <2>2. \A t \in Pipeline' : taken.data.lost <= t.data.lost
    <3>1. \A t \in Pipeline' : (t = arriving /\ arriving # None) \/ \E i \in 1..Len(filled) : t = filled[i]
      BY <1>3 DEF Pipeline
    <3>2. arriving # None => arriving.data.lost = Lost
      BY <1>2 DEF ChainInv
    <3> QED BY <1>2, <1>3, <2>1, <3>1, <3>2 DEF LossInv
  <2>3. lost_samples' <= discarded_samples' + Lost'
    BY <1>1, <1>3, <1>4, <1>6, <1>9, <2>1
  <2>4. \A t \in Pipeline' : lost_samples' <= discarded_samples' + t.data.lost /\ t.data.lost <= Lost'
    <3> SUFFICES ASSUME NEW t \in Pipeline'
                 PROVE  lost_samples' <= discarded_samples' + t.data.lost /\ t.data.lost <= Lost'
      OBVIOUS
    <3>1. t \in Pipeline /\ t.data.lost \in Nat /\ taken.data.lost <= t.data.lost
      BY <1>6, <2>1, <2>2
    <3>2. t.data.lost <= Lost'
      BY <1>2, <1>6, <3>1 DEF LossInv
    <3>3. discarded_samples' = discarded_samples
      BY <1>1
    <3>4. \A a, b, d \in Nat : a <= b => a + d <= d + b
      OBVIOUS
    <3> QED BY <1>3, <1>4, <1>9, <3>1, <3>2, <3>3, <3>4
  <2> QED BY <1>2, <1>3, <1>9, <2>3, <2>4 DEF LossInv
<1> QED BY <1>6, <1>9, <1>10, <1>11 DEF AccountInv

LEMMA AccountStep ==
  ASSUME TuneInv, TuneInv', AccountInv, [Next]_vars
  PROVE  AccountInv'
<1>1. CASE CompleteTransfer
  <2>1. /\ UNCHANGED <<queueVars, truncated, discard_below_seq, held_back, next_index>>
        /\ UNCHANGED <<delivered_samples, discarded_samples, lost_samples>>
        /\ completed' = Append(completed, filling) /\ filling' = {device}
    BY <1>1 DEF CompleteTransfer, radioFrame, stream, output
  <2>2. StreamType'
    <3>1. completed' \in Seq(SUBSET Settings) /\ filling' \in SUBSET Settings
      BY <2>1, AppendIs DEF AccountInv, StreamType, TuneInv
    <3> QED BY <2>1, <3>1 DEF AccountInv, StreamType, queueVars
  <2> QED BY <2>1, <2>2, AccountStays DEF queueVars
<1>2. CASE ApplyCall
  <2>1. /\ UNCHANGED <<queueVars, truncated, completed, discard_below_seq, held_back, next_index>>
        /\ UNCHANGED <<delivered_samples, discarded_samples, lost_samples>>
        /\ filling' = filling \cup {device'}
    BY <1>2 DEF ApplyCall, captureFrame, stream, output
  <2>2. StreamType'
    BY <2>1 DEF AccountInv, StreamType, TuneInv, queueVars
  <2> QED BY <2>1, <2>2, AccountStays DEF queueVars
<1>3. CASE Settle
  <2>1. /\ UNCHANGED <<queueVars, truncated, filling, completed, next_index>>
        /\ UNCHANGED <<delivered_samples, discarded_samples, lost_samples>>
        /\ discard_below_seq' = next_seq + 1 /\ held_back' = Len(completed)
    BY <1>3 DEF Settle, SettledSeq, captureFrame, radio, output
  <2>2. StreamType'
    BY <2>1 DEF AccountInv, StreamType, queueVars
  <2> QED BY <2>1, <2>2, AccountStays DEF queueVars
<1>4. CASE TakePosted \/ Still
  <2>1. /\ UNCHANGED <<queueVars, truncated, filling, completed, discard_below_seq, held_back, next_index>>
        /\ UNCHANGED <<delivered_samples, discarded_samples, lost_samples>>
    BY <1>4 DEF TakePosted, Still, captureFrame, radio, output
  <2>2. StreamType'
    BY <2>1 DEF AccountInv, StreamType, queueVars
  <2> QED BY <2>1, <2>2, AccountStays DEF queueVars
<1>5. device \in Settings
  BY DEF TuneInv
<1> QED BY <1>1, <1>2, <1>3, <1>4, <1>5, StreamSteps, ArriveStep, CallbackAccounts, TakeAccounts,
           DiscardAccounts, DeliverAccounts

LEMMA AccountInit == Init => AccountInv
<1> SUFFICES ASSUME Init PROVE AccountInv
  OBVIOUS
<1>1. /\ filled = <<>> /\ filled \in Seq(TransferOf) /\ (\A i \in 1..Len(filled) : FALSE)
      /\ taken = None /\ arriving = None /\ accepted = FALSE
      /\ next_seq = 0 /\ next_offset = 0 /\ dropped_samples = 0 /\ truncated = 0
      /\ completed = <<>> /\ completed \in Seq(SUBSET Settings)
      /\ discard_below_seq = 0 /\ held_back = 0 /\ next_index = 0
      /\ delivered_samples = 0 /\ discarded_samples = 0 /\ lost_samples = 0
  BY DEF Init, QueueInit
<1>2. filling \in SUBSET Settings
  BY KnobInit DEF Init, KnobInv, TuneInv
<1>3. StreamType
  BY <1>1, <1>2 DEF StreamType
<1>4. ChainInv
  BY <1>1 DEF ChainInv, Back, Front, Done, Lost
<1>5. LossInv
  BY <1>1 DEF LossInv, Lost, Pipeline
<1> QED BY <1>3, <1>4, <1>5 DEF AccountInv

LEMMA Accounted == Spec => [](TuneInv /\ AccountInv)
<1>1. KnobInv => TuneInv
  BY DEF KnobInv
<1>2. TuneInv /\ TuneInv' /\ AccountInv /\ [Next]_vars => AccountInv'
  BY AccountStep
<1> QED BY <1>1, <1>2, AccountInit, KnobsAreOnTheirWay, PTL DEF Spec

(* The gaps that blocks report are what the pool dropped or cut off and what was discarded,   *)
(* no more and no less, for every pool, every transfer length and every error.                *)
THEOREM GapsAreCounted == Spec => GapsAreExact
<1>1. ASSUME AccountInv, [Next]_vars, block' # block
      PROVE  /\ lost_samples' = taken.data.lost + discarded_samples
             /\ next_index' = delivered_samples' + lost_samples'
  BY <1>1, BlockIs, DeliverAccounts
<1>2. ASSUME AccountInv
      PROVE  [Next]_vars =>
        [block' # block =>
           /\ lost_samples' = taken.data.lost + discarded_samples
           /\ next_index' = delivered_samples' + lost_samples']_vars
  BY <1>1, <1>2
<1> QED BY <1>2, Accounted, PTL DEF Spec, GapsAreExact


-----------------------------------------------------------------------------
(* What a block was taken under *)

LEMMA CallbackPipeline ==
  ASSUME StreamType, CallbackStep
  PROVE  \A t \in Pipeline' : \E u \in Pipeline : t.seq = u.seq /\ t.data = u.data
<1>1. CASE Accept
  BY <1>1 DEF Accept, Pipeline
<1>2. CASE DropTransfer
  BY <1>2 DEF DropTransfer, Pipeline
<1>3. CASE Publish
  <2> DEFINE kept == [arriving EXCEPT !.len = Fitting(arriving.len)]
  <2>1. /\ arriving # None /\ arriving \in TransferOf /\ arriving' = None /\ UNCHANGED taken
        /\ filled' = Append(filled, kept)
    BY <1>3 DEF Publish, StreamType
  <2>2. kept.seq = arriving.seq /\ kept.data = arriving.data /\ arriving \in Pipeline
    BY <2>1, PipelineType DEF TransferOf
  <2> HIDE DEF kept
  <2>3. \A i \in 1..Len(filled') : (i \in 1..Len(filled) /\ filled'[i] = filled[i]) \/ filled'[i] = kept
    <3>1. filled \in Seq(TransferOf)
      BY DEF StreamType
    <3> DEFINE all == TransferOf \cup {kept}
    <3>2. filled \in Seq(all) /\ kept \in all
      BY <3>1
    <3> HIDE DEF all
    <3> QED BY <2>1, <3>2, AppendIs
  <2>4. \A i \in 1..Len(filled) : filled[i] \in Pipeline
    BY PipelineType
  <2>5. ASSUME NEW t \in Pipeline'
        PROVE  t \in Pipeline \/ t = kept
    BY <2>1, <2>3, <2>4, <2>5 DEF Pipeline
  <2> QED BY <2>2, <2>5
<1> QED BY <1>1, <1>2, <1>3 DEF CallbackStep

LEMMA SettingsStep ==
  ASSUME TuneInv, StreamType, SettingsInv, [Next]_vars
  PROVE  SettingsInv'
<1> /\ next_seq \in Nat /\ CleanFrom \in Nat /\ completed \in Seq(SUBSET Settings)
    /\ Len(completed) \in Nat
  BY DEF StreamType, CleanFrom
<1>1. CASE CompleteTransfer
  <2>1. /\ UNCHANGED <<next_seq, taken, arriving, filled, pc, tune, discard_below_seq, held_back>>
        /\ completed' = Append(completed, filling) /\ filling' = {tune}
    BY <1>1 DEF CompleteTransfer, queueVars, radioFrame, tuning, stream, TuneInv
  <2>2. UNCHANGED CleanFrom /\ Pipeline' = Pipeline
    BY <2>1 DEF CleanFrom, Pipeline
  <2>3. ASSUME pc # "apply", NEW i \in 1..Len(completed'), next_seq + i > CleanFrom
        PROVE  completed'[i] = {tune}
    <3>1. i \in 1..Len(completed) \/ i = Len(completed) + 1
      BY <2>1, AppendIs DEF StreamType
    <3>2. CASE i \in 1..Len(completed)
      BY <2>1, <2>3, <3>2, AppendIs DEF StreamType, SettingsInv
    <3>3. CASE i = Len(completed) + 1
      <4>1. completed'[i] = filling
        BY <2>1, <3>3, AppendIs DEF StreamType
      <4>2. next_seq + Len(completed) >= CleanFrom
        BY <2>3, <3>3
      <4> QED BY <2>3, <4>1, <4>2 DEF SettingsInv
    <3> QED BY <3>1, <3>2, <3>3
  <2> QED BY <2>1, <2>2, <2>3 DEF SettingsInv
<1>2. CASE TransferArrives
  <2>1. PICK len : Arrive(len, Samples(Head(completed)))
    BY <1>2 DEF TransferArrives
  <2> DEFINE new == Transfer(next_seq, next_offset, len, Samples(Head(completed)))
  <2>2. /\ arriving' = new /\ next_seq' = next_seq + 1 /\ UNCHANGED <<filled, taken>>
        /\ UNCHANGED <<pc, tune, discard_below_seq, held_back, filling>>
        /\ completed # <<>> /\ completed' = Tail(completed)
    BY <1>2, <2>1 DEF Arrive, TransferArrives, radioFrame, tuning, stream
  <2>3. new.seq = next_seq /\ new.data.settings = Head(completed)
    BY DEF Transfer, Samples
  <2> HIDE DEF new
  <2>4. \A t \in Pipeline' : t \in Pipeline \/ t = new
    BY <2>2 DEF Pipeline
  <2>5. \A t \in Pipeline : t.seq \in Nat
    BY PipelineType, TransferIs
  <2>6. \A t \in Pipeline' : t.seq < next_seq'
    <3>1. \A t \in Pipeline : t.seq < next_seq + 1
      BY <2>5 DEF SettingsInv
    <3> QED BY <2>2, <2>3, <2>4, <3>1
  <2>7. UNCHANGED CleanFrom
    BY <2>2 DEF CleanFrom
  <2>8. /\ Len(completed) \in Nat \ {0} /\ Head(completed) = completed[1]
        /\ Len(completed') = Len(completed) - 1
        /\ \A i \in 1..Len(completed') : completed'[i] = completed[i + 1] /\ i + 1 \in 1..Len(completed)
    BY <2>2, TailIs
  <2>9. ASSUME pc # "apply"
        PROVE  /\ new.seq >= CleanFrom => new.data.settings = {tune}
               /\ \A i \in 1..Len(completed') : next_seq' + i > CleanFrom => completed'[i] = {tune}
               /\ next_seq' + Len(completed') >= CleanFrom => filling = {tune}
    <3>1. new.seq >= CleanFrom => new.data.settings = {tune}
      <4>1. 1 \in 1..Len(completed)
        BY <2>8
      <4>2. next_seq + 1 > CleanFrom => completed[1] = {tune}
        BY <2>9, <4>1 DEF SettingsInv
      <4> QED BY <2>3, <2>8, <4>2
    <3>2. ASSUME NEW i \in 1..Len(completed'), next_seq' + i > CleanFrom
          PROVE  completed'[i] = {tune}
      <4>1. next_seq + (i + 1) > CleanFrom
        BY <2>2, <3>2
      <4> QED BY <2>8, <2>9, <4>1 DEF SettingsInv
    <3>3. next_seq' + Len(completed') = next_seq + Len(completed)
      BY <2>2, <2>8
    <3> QED BY <2>9, <3>1, <3>2, <3>3 DEF SettingsInv
  <2>10. ASSUME pc # "apply", NEW t \in Pipeline', t.seq >= CleanFrom
         PROVE  t.data.settings = {tune}
    BY <2>4, <2>9, <2>10 DEF SettingsInv
  <2> QED BY <2>2, <2>6, <2>7, <2>9, <2>10 DEF SettingsInv
<1>3. CASE CallbackStep
  <2>1. UNCHANGED <<next_seq, filling, completed, pc, tune, discard_below_seq, held_back>>
    BY <1>3 DEF CallbackStep, Accept, DropTransfer, Publish, radioFrame, tuning, stream
  <2>2. UNCHANGED CleanFrom
    BY <2>1 DEF CleanFrom
  <2> QED BY <1>3, <2>1, <2>2, CallbackPipeline DEF SettingsInv
<1>4. CASE TakePosted \/ ApplyCall
  <2>1. UNCHANGED queueVars /\ pc' = "apply"
    BY <1>4 DEF TakePosted, ApplyCall, Goes
  <2> QED BY <2>1 DEF SettingsInv, queueVars, Pipeline
<1>5. CASE Settle
  <2>1. /\ UNCHANGED <<queueVars, completed>>
        /\ discard_below_seq' = next_seq + 1 /\ held_back' = Len(completed)
    BY <1>5 DEF Settle, SettledSeq, captureFrame, radio
  <2>2. Pipeline' = Pipeline /\ \A t \in Pipeline : t.seq \in Nat
    BY <2>1, PipelineType, TransferIs DEF Pipeline, queueVars
  <2>3. CleanFrom' = next_seq + 1 + Len(completed)
    BY <2>1 DEF CleanFrom
  <2>4. \A t \in Pipeline : ~(t.seq >= CleanFrom')
    BY <2>2, <2>3 DEF SettingsInv
  <2>5. \A i \in 1..Len(completed) : ~(next_seq + i > CleanFrom')
    BY <2>3
  <2>6. ~(next_seq + Len(completed) >= CleanFrom')
    BY <2>3
  <2> QED BY <2>1, <2>2, <2>4, <2>5, <2>6 DEF SettingsInv, queueVars
<1>6. CASE TakeTransfer \/ Discard \/ SkipEmpty \/ Deliver
  <2>1. /\ UNCHANGED <<next_seq, filling, completed, tune, discard_below_seq, held_back>>
        /\ pc # "apply" /\ (Take \/ Recycle)
    BY <1>6 DEF TakeTransfer, Discard, SkipEmpty, Deliver, Take, Recycle, Goes, captureFrame, radio,
                tuning, stream
  <2>2. \A t \in Pipeline' : t \in Pipeline
    <3>1. CASE Recycle
      BY <3>1 DEF Recycle, Pipeline
    <3>2. CASE Take
      <4>1. /\ filled # <<>> /\ taken' = Head(filled) /\ filled' = Tail(filled) /\ UNCHANGED arriving
            /\ filled \in Seq(TransferOf)
        BY <3>2 DEF Take, StreamType
      <4>2. taken' \in Pipeline /\ \A i \in 1..Len(filled') : filled'[i] \in Pipeline
        <5>1. 1 \in 1..Len(filled)
          BY <4>1, TailIs
        <5> QED BY <4>1, <5>1, TailIs, PipelineType
      <4> QED BY <4>1, <4>2, PipelineType DEF Pipeline
    <3> QED BY <2>1, <3>1, <3>2
  <2>3. UNCHANGED CleanFrom
    BY <2>1 DEF CleanFrom
  <2> QED BY <2>1, <2>2, <2>3 DEF SettingsInv
<1>7. CASE Still
  BY <1>7 DEF Still, SettingsInv, Pipeline, queueVars, CleanFrom
<1> QED BY <1>1, <1>2, <1>3, <1>4, <1>5, <1>6, <1>7, StreamSteps

LEMMA SettingsInit == Init => SettingsInv
<1> SUFFICES ASSUME Init PROVE SettingsInv
  OBVIOUS
<1>1. /\ filled = <<>> /\ (\A i \in 1..Len(filled) : FALSE) /\ taken = None /\ arriving = None
      /\ completed = <<>> /\ (\A i \in 1..Len(completed) : FALSE)
      /\ filling = {tune}
  BY DEF Init, QueueInit
<1>2. \A t \in Pipeline : FALSE
  BY <1>1 DEF Pipeline
<1> QED BY <1>1, <1>2 DEF SettingsInv

(* A step that delivers samples is a delivery. *)
LEMMA DeliveredIs ==
  ASSUME [Next]_vars, delivered_samples' # delivered_samples
  PROVE  Deliver
BY StreamSteps DEF CompleteTransfer, TransferArrives, CallbackStep, TakePosted, ApplyCall, Settle,
   TakeTransfer, Discard, SkipEmpty, Still, captureFrame, radioFrame, output

(* However many filled transfers libusb holds back, only as many blocks after a change can    *)
(* have samples taken under settings other than those they name, for any changes, errors half *)
(* way through one, pools and transfers: what had arrived when the last device call was made  *)
(* is discarded, and one more.  When none is held back, that one is the transfer being filled, *)
(* and no block mixes two settings.                                                           *)
THEOREM BlocksKeepOneSetting == Spec => MixedOnlyIfHeldBack
<1>1. Spec => [](SettingsInv /\ ProvenanceInv)
  <2>1. TuneInv /\ AccountInv /\ SettingsInv /\ [Next]_vars => SettingsInv'
    BY SettingsStep DEF AccountInv
  <2>2. FlagsInv /\ ProvenanceInv /\ [Next]_vars => (FlagsInv /\ ProvenanceInv)'
    BY FlagsStep
  <2> QED BY <2>1, <2>2, SettingsInit, FlagsInit, Accounted, PTL DEF Spec
<1>2. ASSUME AccountInv, SettingsInv, ProvenanceInv, ProvenanceInv', [Next]_vars,
             delivered_samples' # delivered_samples, taken.seq >= discard_below_seq + held_back
      PROVE  block'.data.settings = {block'.provenance.tune}
  <2>1. Deliver
    BY <1>2, DeliveredIs
  <2>2. /\ pc = "process" /\ pc' = "caller" /\ UNCHANGED tune /\ taken # None
        /\ block'.provenance = provenance' /\ block'.data = taken.data
    BY <2>1 DEF Deliver, Goes, Recycle
  <2>3. provenance'.tune = tune
    BY <1>2, <2>2 DEF ProvenanceInv
  <2>4. taken.data.settings = {tune}
    BY <1>2, <2>2, PipelineType DEF SettingsInv, AccountInv, CleanFrom
  <2> QED BY <2>2, <2>3, <2>4
<1>3. ASSUME AccountInv, SettingsInv, ProvenanceInv, ProvenanceInv'
      PROVE  [Next]_vars =>
        [delivered_samples' # delivered_samples /\ taken.seq >= discard_below_seq + held_back
           => block'.data.settings = {block'.provenance.tune}]_vars
  BY <1>2, <1>3
<1> QED BY <1>1, <1>3, Accounted, PTL DEF Spec, MixedOnlyIfHeldBack

=============================================================================
