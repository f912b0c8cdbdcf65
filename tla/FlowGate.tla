------------------------------ MODULE FlowGate ------------------------------
(***************************************************************************)
(* hk-pipeline/src/gate.rs over the ring of RingLog: in lossless replay    *)
(* the capture thread holds a block back until the slowest reader has room *)
(* for it, and never consults a reader otherwise.  Readers register on     *)
(* their own threads, chains attach behind the readers with history to     *)
(* read, claims are loaded one by one, and stop lets the writer through.   *)
(*                                                                         *)
(* A push and a read of the ring are one step each here (RingSeqlock and   *)
(* RingReader have their accesses); a read delivers the rest of a block.   *)
(***************************************************************************)
EXTENDS RingLog

CONSTANTS
  AlwaysOn,   \* reader threads: spectrum, detect, history, survey, IQ buffer...
  Early,      \* those registered before the capture thread starts (the IQ buffer)
  Chains,     \* chains, recorders and listeners, attached while the run is going
  Gaps        \* source-gap lengths before a block (0: none)

ASSUME GateAssumption ==
  /\ Early \subseteq AlwaysOn
  /\ AlwaysOn \cap Chains = {}
  /\ Gaps \subseteq Nat

Readers == AlwaysOn \cup Chains

VARIABLES
  cursors,           \* FlowGate.cursors: who is registered (each thread registers once)
  claim,             \* the cell each GateCursor shares with the gate
  holding,           \* FlowGate.holding
  rpc, pos,          \* each reader's thread and next sample
  spared,            \* ghost: the first sample a reader could have had when it registered
  cpc,               \* the capture thread
  offer,             \* the block to write: its first index and length
  view,              \* the ring's oldest and next sample, read before the wait
  scan, low,         \* min_needed: cells still to load, least claim so far
  waited,            \* wait_for_block's own flag
  stop               \* Shared.stop

claims  == <<cursors, claim>>
readers == <<rpc, pos, spared>>
waiting == <<offer, view, waited>>
scanner == <<scan, low>>
vars == <<ringVars, claims, holding, readers, cpc, waiting, scanner, stop>>

Released == MaxIndex + 1   \* u64::MAX as a claim
NoBlock  == [first |-> 0, len |-> 0]
NoView   == [oldest |-> {}, next |-> {}]

Bug_slack == SampleCap

slack == IF SampleCap < 2 THEN 1 ELSE SampleCap \div 2

-----------------------------------------------------------------------------
(* The ring as its handles see it *)

MaxOf(a, b) == IF a >= b THEN a ELSE b

(* next_sample: the end of the newest committed block, or nothing. *)
next_sample == IF meta_head = 0 THEN {} ELSE {EndOf(Meta(meta_head - 1))}

(* Committed blocks with a sample at or after i. *)
Ahead(i) == {b \in 0..(meta_head - 1) : EndOf(Meta(b)) > i}

First(blocks) == CHOOSE b \in blocks : \A c \in blocks : b <= c

(* oldest_sample: locate(oldest_valid_sample) over the retained records. *)
Retained == {b \in Ahead(oldest_valid_sample) : b >= oldest_valid_block}
oldest_sample ==
  IF Retained = {} THEN {}
  ELSE {MaxOf(Meta(First(Retained)).first_sample, oldest_valid_sample)}

Start(i) == MaxOf(Meta(First(Ahead(i))).first_sample, i)

Lapped(i) == First(Ahead(i)) < oldest_valid_block \/ Start(i) < oldest_valid_sample

-----------------------------------------------------------------------------
(* Registration *)

Unlocked == cpc # "scan"   \* min_needed holds the cursors' mutex while it loads

(* What the ring has dropped, and what the block already let through is about to drop. *)
Dropped ==
  IF cpc = "push"
  THEN MaxOf(oldest_valid_sample, SatSub(offer.first + offer.len, SampleCap))
  ELSE oldest_valid_sample

Register(r, from) ==
  /\ cursors' = {c \in cursors : claim[c] # Released} \cup {r}
  /\ claim' = [claim EXCEPT ![r] = from]
  /\ spared' = [spared EXCEPT ![r] = Dropped]

(* A reader thread: reader_at(0), then register(0). *)
Begin(r) ==
  /\ r \in AlwaysOn /\ rpc[r] = "new" /\ Unlocked
  /\ Register(r, 0)
  /\ rpc' = [rpc EXCEPT ![r] = "reading"]
  /\ UNCHANGED <<ringVars, holding, pos, cpc, waiting, scanner, stop>>

(* The control thread claims a chain's first sample, in what some reader has read. *)
Attach(r, start) ==
  /\ r \in Chains /\ rpc[r] = "new" /\ Unlocked
  /\ \E a \in AlwaysOn : start <= pos[a]
  /\ Register(r, start)
  /\ pos' = [pos EXCEPT ![r] = start]
  /\ rpc' = [rpc EXCEPT ![r] = "claimed"]
  /\ UNCHANGED <<ringVars, holding, cpc, waiting, scanner, stop>>

(* ChainReader::new, on the chain's thread. *)
StartChain(r) ==
  /\ rpc[r] = "claimed"
  /\ LET start == IF oldest_sample = {} THEN pos[r]
                  ELSE MaxOf(pos[r], First(oldest_sample))
     IN  /\ claim' = [claim EXCEPT ![r] = start]
         /\ pos' = [pos EXCEPT ![r] = start]
  /\ rpc' = [rpc EXCEPT ![r] = "reading"]
  /\ UNCHANGED <<ringVars, cursors, holding, spared, cpc, waiting, scanner, stop>>

-----------------------------------------------------------------------------
(* Reading *)

(* A chain reads nothing more of a stopped segment; an always-on reader drains it. *)
Reads(r) == rpc[r] = "reading" /\ Ahead(pos[r]) # {} /\ (stop => r \in AlwaysOn)

(* The rest of the block at pos; the claim follows when the chunk has been processed. *)
Bug_Read(r) ==
  /\ Reads(r) /\ ~Lapped(pos[r])
  /\ claim' = [claim EXCEPT ![r] = EndOf(Meta(meta_head - 1))]
  /\ pos' = [pos EXCEPT ![r] = EndOf(Meta(First(Ahead(pos[r]))))]
  /\ spared' = [spared EXCEPT ![r] = IF pos'[r] >= @ THEN 0 ELSE @]
  /\ rpc' = [rpc EXCEPT ![r] = "read"]
  /\ UNCHANGED <<ringVars, cursors, holding, cpc, waiting, scanner, stop>>

Read(r) ==
  /\ Reads(r) /\ ~Lapped(pos[r])
  /\ pos' = [pos EXCEPT ![r] = EndOf(Meta(First(Ahead(pos[r]))))]
  /\ spared' = [spared EXCEPT ![r] = IF pos'[r] >= @ THEN 0 ELSE @]
  /\ rpc' = [rpc EXCEPT ![r] = "read"]
  /\ UNCHANGED <<ringVars, claims, holding, cpc, waiting, scanner, stop>>

(* cursor.set(chunk.end_sample()) *)
SetCursor(r) ==
  /\ rpc[r] = "read"
  /\ claim' = [claim EXCEPT ![r] = pos[r]]
  /\ rpc' = [rpc EXCEPT ![r] = "reading"]
  /\ UNCHANGED <<ringVars, cursors, holding, pos, spared, cpc, waiting, scanner, stop>>

(* A lapped reader resumes where its policy says; some readers move their claim, some do not. *)
Overrun(r) ==
  /\ Reads(r) /\ Lapped(pos[r])
  /\ \E resume \in oldest_sample \cup {Meta(meta_head - 1).first_sample} :
       /\ pos' = [pos EXCEPT ![r] = resume]
       /\ spared' = [spared EXCEPT ![r] = IF resume >= @ THEN 0 ELSE @]
       /\ claim' \in {claim, [claim EXCEPT ![r] = resume]}
  /\ UNCHANGED <<ringVars, cursors, holding, rpc, cpc, waiting, scanner, stop>>

(* The reader ends and drops its GateCursor: the ring is closed and drained, or a chain is done. *)
Drop(r) ==
  /\ rpc[r] = "reading"
  /\ r \in Chains \/ (closed /\ Ahead(pos[r]) = {})
  /\ claim' = [claim EXCEPT ![r] = Released]
  /\ rpc' = [rpc EXCEPT ![r] = "done"]
  /\ UNCHANGED <<ringVars, cursors, holding, pos, spared, cpc, waiting, scanner, stop>>

ReadStep(r) == StartChain(r) \/ Read(r) \/ SetCursor(r) \/ Overrun(r)

-----------------------------------------------------------------------------
(* The capture thread *)

(* A block read from the source; the ring's span is read once, before the wait. *)
Offer(gap, n) ==
  /\ cpc = "source" /\ ~closed /\ ~stop
  /\ n > 0
  /\ LET first == MaxOf(StreamEnd, 0) + gap
     IN  first + n <= MaxIndex /\ offer' = [first |-> first, len |-> n]
  /\ view' = [oldest |-> oldest_sample, next |-> next_sample]
  /\ cpc' = "poll"
  /\ UNCHANGED <<ringVars, claims, holding, readers, waited, scanner, stop>>

(* min_needed takes the lock ... *)
Poll ==
  /\ cpc = "poll"
  /\ scan' = cursors
  /\ low' = Released
  /\ cpc' = "scan"
  /\ UNCHANGED <<ringVars, claims, holding, readers, waiting, stop>>

(* ... and loads the cells one by one; nothing depends on their order, so here it is any. *)
Load ==
  /\ cpc = "scan"
  /\ \E r \in scan :
       /\ low' = IF claim[r] < low THEN claim[r] ELSE low
       /\ scan' = scan \ {r}
  /\ UNCHANGED <<ringVars, claims, holding, readers, cpc, waiting, stop>>

Bug_admits(min) ==
  \/ min = Released
  \/ view.next = {}
  \/ \E oldest \in view.oldest :
       offer.first + offer.len <= MaxOf(min, oldest) + slack

admits(min) ==
  \/ min = Released
  \/ view.next = {}
  \/ \E oldest \in view.oldest, next \in view.next :
       \/ MaxOf(min, oldest) >= next
       \/ offer.first + offer.len <= MaxOf(min, oldest) + slack

Pass == admits(low) \/ stop

Scanned == cpc = "scan" /\ scan = {}

Hold ==
  /\ Scanned /\ ~Pass
  /\ holding' = IF waited THEN holding ELSE holding + 1
  /\ waited' = TRUE
  /\ cpc' = "poll"
  /\ UNCHANGED <<ringVars, claims, readers, offer, view, scanner, stop>>

Admit ==
  /\ Scanned /\ Pass
  /\ holding' = IF waited THEN holding - 1 ELSE holding
  /\ cpc' = "push"
  /\ view' = NoView /\ waited' = FALSE /\ low' = Released   \* locals, dead from here on
  /\ UNCHANGED <<ringVars, claims, readers, offer, scan, stop>>

(* writer.push, all four of RingLog's steps, or its refusal; either way the loop goes on. *)
Push ==
  /\ cpc = "push"
  /\ PushError(offer.first, offer.len, StreamEnd) = "Ok"
  /\ \E p \in Provenances :
       log' = Append(log, [first_sample |-> offer.first, len |-> offer.len,
                           gaps_total |-> GapsBefore(offer.first), provenance |-> p])
  /\ sample_write_end' = offer.first + offer.len
  /\ sample_commit_end' = offer.first + offer.len
  /\ meta_head' = Len(log')
  /\ cpc' = "source" /\ offer' = NoBlock
  /\ UNCHANGED <<phase, closed, claims, holding, readers, view, waited, scanner, stop>>

PushRefused ==
  /\ cpc = "push"
  /\ PushError(offer.first, offer.len, StreamEnd) # "Ok"
  /\ cpc' = "source" /\ offer' = NoBlock
  /\ UNCHANGED <<ringVars, claims, holding, readers, view, waited, scanner, stop>>

(* The source ends, or stop is seen at the top of the loop. *)
End ==
  /\ cpc = "source"
  /\ Close
  /\ UNCHANGED <<claims, holding, readers, cpc, waiting, scanner, stop>>

CaptureStep == Poll \/ Load \/ Hold \/ Admit \/ Push \/ PushRefused

SetStop ==
  /\ ~stop
  /\ stop' = TRUE
  /\ UNCHANGED <<ringVars, claims, holding, readers, cpc, waiting, scanner>>

-----------------------------------------------------------------------------

Init ==
  /\ RingInit
  /\ cursors = Early
  /\ claim = [r \in Readers |-> IF r \in Early THEN 0 ELSE Released]
  /\ holding = 0
  /\ rpc = [r \in Readers |-> IF r \in Early THEN "reading" ELSE "new"]
  /\ pos = [r \in Readers |-> 0]
  /\ spared = [r \in Readers |-> 0]
  /\ cpc = "source"
  /\ offer = NoBlock
  /\ view = NoView
  /\ scan = {} /\ low = Released
  /\ waited = FALSE
  /\ stop = FALSE

Next ==
  \/ \E gap \in Gaps, n \in BlockLens : Offer(gap, n)
  \/ CaptureStep \/ End \/ SetStop
  \/ \E r \in Readers :
       \/ Begin(r)
       \/ \E start \in 0..MaxIndex : Attach(r, start)
       \/ ReadStep(r)
       \/ Drop(r)

Spec == Init /\ [][Next]_vars

-----------------------------------------------------------------------------
(* Properties *)

Registered(r) == rpc[r] \in {"claimed", "reading", "read"}

Held(i) == \E b \in oldest_valid_block..(Len(log) - 1) :
  Meta(b).first_sample <= i /\ i < EndOf(Meta(b)) /\ i >= oldest_valid_sample

Unread(r) == {i \in MaxOf(pos[r], spared[r])..(StreamEnd - 1) :
                \E b \in 1..Len(log) : log[b].first_sample <= i /\ i < EndOf(log[b])}

(* gate.rs:122, "keeps every cursor's needed samples in the ring": until stop, no block ever *)
(* overwrites a sample a registered reader has yet to read, except what was gone, or let      *)
(* through, before it registered.                                                             *)
ClaimsAreKept ==
  ~stop => \A r \in Readers : Registered(r) => \A i \in Unread(r) : Held(i)

(* No source gap and no block longer than the slack, in flight or written, ends after s. *)
Ordinary(s) ==
  /\ cpc = "push" => offer.len <= slack /\ StreamEnd \in {-1, offer.first}
  /\ \A b \in 1..Len(log) : EndOf(log[b]) > s =>
       log[b].len <= slack /\ (b > 1 => log[b].first_sample = EndOf(log[b - 1]))

(* gate.rs:50, "a chain can still attach with up to half a ring of pre-trigger history behind *)
(* the slowest reader": a chain that claims no further back than that misses nothing, even    *)
(* when it registers after the gate has let the next block through.                           *)
AttachWithinSlackIsKept ==
  [][\A c \in Chains, e \in Early :
       /\ ~stop /\ rpc[c] = "new" /\ rpc'[c] = "claimed"
       /\ Registered(e) /\ pos'[c] + slack >= claim[e]
       /\ Ordinary(pos'[c])
       => spared'[c] <= MaxOf(pos'[c], IF log = <<>> THEN offer.first ELSE stream_start)]_vars

MinNeeded ==
  LET needed == {claim[r] : r \in cursors}
  IN  CHOOSE m \in needed \cup {Released} : \A n \in needed : m <= n

(* A held writer always has somebody to wait for: a reader with samples yet to read or a claim *)
(* yet to set.  Once every reader has caught up the block is admitted, over a source gap and   *)
(* when it is longer than the slack too (gate.rs:16); otherwise capture and readers would wait *)
(* for each other for ever.  And holding() is seen true only while it waits (gate.rs:172,      *)
(* "While this is true no sample can arrive for anybody").                                     *)
HoldHasACause ==
  /\ holding > 0 => waited /\ cpc \in {"poll", "scan"}
  /\ cpc = "poll" /\ waited =>
       \/ stop \/ admits(MinNeeded)
       \/ \E r \in Readers : Registered(r) /\ (rpc[r] # "reading" \/ Ahead(pos[r]) # {})

=============================================================================
