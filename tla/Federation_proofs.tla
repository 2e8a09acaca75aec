-------------------------- MODULE Federation_proofs --------------------------
(***************************************************************************)
(* For every value of the constants. First of FederationSender alone, for  *)
(* any number of peers, events and replicas and any delays: types, what    *)
(* may be lost, when a peer is suspended, and how much still goes out to   *)
(* it then.                                                                *)
(*                                                                         *)
(* Then Federation implements both of its parts: what it does to the       *)
(* origin's variables FederationSender does, so what is proved of the      *)
(* sender alone holds in the composition; and its peers do with an         *)
(* envelope what Inbox says. Last what only the composition has: its       *)
(* types, and that a peer's final state of an event is kept, which rests   *)
(* on payloads being inserted once and on a sender waiting for one request *)
(* at a time.                                                              *)
(***************************************************************************)
EXTENDS Federation, FiniteSetTheorems, TLAPS

----------------------------------------------------------------------------
(* The sender: types *)

\* The wait of an overdue row is a rank among finitely many rows: a number.
LEMMA AgedIsInt ==
    ASSUME TypeOK, NEW k \in Keys
    PROVE  Aged(k) \in Int
<1>1. box[k].wait \in Int
  BY DEF TypeOK, Row
<1>2. IsFiniteSet(Keys)
  BY PeersAssumption, FS_Product DEF Keys
<1>3. IsFiniteSet(DueAfter(k))
  BY <1>2, FS_Subset DEF DueAfter
<1>4. Cardinality(DueAfter(k)) \in Nat
  BY <1>3, FS_CardinalityType
<1>5. QED
  BY <1>1, <1>4 DEF Aged

\* The capped backoff is a positive number of ticks.
LEMMA NextWaitIsNat ==
    ASSUME NEW attempts \in Nat
    PROVE  NextWait(attempts) \in Nat
<1>1. Least(attempts, 16) \in 0..16
  BY DEF Least
<1>2. BaseDelay * 2^Least(attempts, 16) \in Nat
  BY <1>1, PowersAssumption
<1>3. QED
  BY <1>2, DelaysAssumption DEF NextWait

\* A snapshot of a queued row is an item.
LEMMA DueIsItem ==
    ASSUME TypeOK, NEW item \in Due
    PROVE  /\ item \in Item
           /\ Queued(item.peer, item.event)
           /\ item.id = box[<<item.peer, item.event>>].id
           /\ item.payload = box[<<item.peer, item.event>>].payload
<1>1. PICK k \in Keys : Queued(k[1], k[2]) /\ item = ItemOf(k[1], k[2])
  BY DEF Due, DueRows
<1>2. k = <<k[1], k[2]>> /\ k[1] \in Peers /\ k[2] \in Events
  BY DEF Keys
<1>3. box[k[1], k[2]] \in Row
  BY <1>2 DEF TypeOK, Keys
<1>4. QED
  BY <1>1, <1>2, <1>3 DEF ItemOf, Item, Row, Queued

-----------------------------------------------------------------------------
(* Type correctness, one step per action *)

LEMMA TypeInit == Init => TypeOK
  BY DelaysAssumption DEF Init, TypeOK, Row, NoRow, Keys, NoRun, Outcomes

LEMMA TypePublish ==
    ASSUME TypeOK, NEW e \in Events, PublishEvent(e)
    PROVE  TypeOK'
<1>1. OutboundPeers \subseteq Peers
  BY DEF OutboundPeers
<1>2. jobs' \subseteq Job
  BY <1>1 DEF TypeOK, PublishEvent, Job
<1>3. published' \in [Events -> Nat]
  BY DEF TypeOK, PublishEvent
<1>4. QED
  BY <1>2, <1>3 DEF TypeOK, PublishEvent, peerVars, senderVars, history

LEMMA TypeEnqueue ==
    ASSUME TypeOK, NEW j \in jobs, EnqueueNext(j)
    PROVE  TypeOK'
<1>1. PICK p \in j.left :
        /\ EnqueueDelivery(p, j.event, j.payload)
        /\ jobs' = (jobs \ {j}) \cup Rest(j, p)
        /\ UNCHANGED <<peerVars, senderVars, published, crashes, answered, sinceReached, overrun>>
  BY DEF EnqueueNext
<1>2. j \in Job /\ p \in Peers /\ <<p, j.event>> \in Keys
  BY DEF TypeOK, Job, Keys
<1>3. box' \in [Keys -> Row]
  <2> DEFINE row == [id |-> IF Queued(p, j.event) THEN box[<<p, j.event>>].id ELSE j.payload,
                     payload |-> j.payload, wait |-> 0, attempts |-> 0]
  <2>1. box[<<p, j.event>>] \in Row /\ j.payload \in Nat
    BY <1>2 DEF TypeOK, Job
  <2>2. row \in Row
    BY <2>1 DEF Row
  <2>3. box' = [box EXCEPT ![<<p, j.event>>] = row]
    BY <1>1 DEF EnqueueDelivery
  <2>4. QED
    BY <1>2, <2>2, <2>3 DEF TypeOK
<1>4. queued' \in [Keys -> Nat]
  BY <1>1, <1>2 DEF TypeOK, EnqueueDelivery, Job
<1>5. overtaken' \in [Keys -> BOOLEAN]
  BY <1>1, <1>2 DEF TypeOK, EnqueueDelivery
<1>6. jobs' \subseteq Job
  BY <1>1, <1>2 DEF TypeOK, Rest, Job
<1>7. QED
  BY <1>1, <1>3, <1>4, <1>5, <1>6 DEF TypeOK, peerVars, senderVars

LEMMA TypeSenderStep ==
    ASSUME TypeOK, NEW s \in Senders, SenderStep(s)
    PROVE  TypeOK'
<1>1. CASE StartPass(s)
  <2>1. batch' \in [Senders -> SUBSET Item]
    BY <1>1, DueIsItem DEF TypeOK, StartPass, DueDeliveries
  <2>2. QED
    BY <1>1, <2>1 DEF TypeOK, StartPass, peerVars, publisherVars, history
<1>2. CASE Post(s)
  <2>1. PICK item \in batch[s] :
          /\ batch' = [batch EXCEPT ![s] = @ \ {item}]
          /\ flight' = [flight EXCEPT ![s] = item]
          /\ overrun' = IF suspended[item.peer]
                        THEN [overrun EXCEPT ![item.peer] = @ + 1] ELSE overrun
    BY <1>2 DEF Post
  <2>2. item \in Item
    BY DEF TypeOK
  <2>3. overrun' \in [Peers -> Nat]
    BY <2>1, <2>2 DEF TypeOK, Item
  <2>4. step' \in [Senders -> {"ready", "posted", "answered", "recorded"}]
    BY <1>2 DEF TypeOK, Post
  <2>5. batch' \in [Senders -> SUBSET Item] /\ flight' \in [Senders -> Item \cup {NoItem}]
    BY <2>1, <2>2 DEF TypeOK
  <2>6. \A t \in Senders : step'[t] # "ready" => flight'[t] \in Item
    BY <1>2, <2>1, <2>2 DEF TypeOK, Post
  <2>7. QED
    BY <1>2, <2>3, <2>4, <2>5, <2>6 DEF TypeOK, Post, peerVars, publisherVars
<1>3. ASSUME NEW o \in Outcomes, Answer(s, o)
      PROVE  TypeOK'
  <2>1. flight[s] \in Item
    BY <1>3 DEF TypeOK, Answer
  <2>2. answered' \in [Keys -> SUBSET Nat]
    BY <1>3, <2>1 DEF TypeOK, Answer, Item, Keys
  <2>3. QED
    BY <1>3, <2>2 DEF TypeOK, Answer, peerVars, publisherVars
<1>4. CASE RecordRow(s)
  <2>1. flight[s] \in Item /\ <<flight[s].peer, flight[s].event>> \in Keys
    BY <1>4 DEF TypeOK, RecordRow, Item, Keys
  <2>2. box[<<flight[s].peer, flight[s].event>>] \in Row
    BY <2>1 DEF TypeOK
  <2>3. NextWait(flight[s].attempts) \in Nat
    BY <2>1, NextWaitIsNat DEF Item
  <2>4. ASSUME NEW row \in Row, WriteRow(flight[s], row)
        PROVE  box' \in [Keys -> Row]
    BY <2>1, <2>4 DEF TypeOK, WriteRow
  <2>5. MarkDelivered(flight[s]) => box' \in [Keys -> Row]
    <3>1. NoRow \in Row
      BY DEF NoRow, Row
    <3>2. QED
      BY <2>4, <3>1 DEF MarkDelivered
  <2>6. DeferDelivery(flight[s]) => box' \in [Keys -> Row]
    <3>1. [box[<<flight[s].peer, flight[s].event>>] EXCEPT !.wait = RateDelay] \in Row
      BY <2>2, DelaysAssumption DEF Row
    <3>2. QED
      BY <2>4, <3>1 DEF DeferDelivery
  <2>7. MarkDeliveryFailed(flight[s]) => box' \in [Keys -> Row]
    <3> DEFINE old == box[<<flight[s].peer, flight[s].event>>]
               new == [id |-> old.id, payload |-> old.payload, wait |-> NextWait(flight[s].attempts),
                       attempts |-> Least(old.attempts + 1, AttemptCap)]
    <3>1. old.attempts + 1 \in Nat /\ AttemptCap \in Nat /\ old.id \in Nat /\ old.payload \in Nat
      BY <2>2, DelaysAssumption DEF Row
    <3>2. Least(old.attempts + 1, AttemptCap) \in Nat
      BY <3>1 DEF Least
    <3>3. new \in Row
      BY <2>3, <3>1, <3>2 DEF Row
    <3>4. QED
      BY <2>4, <3>3 DEF MarkDeliveryFailed
  <2>8. box' \in [Keys -> Row]
    BY <1>4, <2>5, <2>6, <2>7 DEF RecordRow
  <2>9. QED
    BY <1>4, <2>8 DEF TypeOK, RecordRow, peerVars, publisherVars, history
<1>5. CASE RecordRowFails(s)
  BY <1>5 DEF TypeOK, RecordRowFails, peerVars, publisherVars, history
<1>6. CASE RecordPeer(s)
  <2>1. flight[s] \in Item /\ flight[s].peer \in Peers
    BY <1>6 DEF TypeOK, RecordPeer, Item
  <2> DEFINE p == flight[s].peer
  <2>2. CASE RecordDeliveryFailure(p) /\ UNCHANGED sinceReached
    <3>1. (IF failAge[p] = NoRun THEN 0 ELSE failAge[p]) \in (0..FailureWindow) \cup {NoRun}
      BY <2>1, DelaysAssumption DEF TypeOK
    <3>2. failAge' \in [Peers -> (0..FailureWindow) \cup {NoRun}]
      BY <2>1, <2>2, <3>1 DEF TypeOK, RecordDeliveryFailure
    <3>3. suspended' \in [Peers -> BOOLEAN]
      <4> DEFINE over == failAge[p] >= FailureWindow
      <4>1. suspended' = [suspended EXCEPT ![p] = suspended[p] \/ over]
        BY <2>2 DEF RecordDeliveryFailure
      <4>2. over \in BOOLEAN
        OBVIOUS
      <4> HIDE DEF over
      <4>3. QED
        BY <2>1, <4>1, <4>2, Zenon DEF TypeOK
    <3>4. QED
      BY <1>6, <2>2, <3>2, <3>3 DEF TypeOK, RecordPeer, DoneWith, publisherVars
  <2>3. CASE RecordDeliverySuccess(p) /\ sinceReached' = [sinceReached EXCEPT ![p] = 0]
    <3>1. /\ sinceReached' \in [Peers -> 0..FailureWindow]
          /\ failAge' \in [Peers -> (0..FailureWindow) \cup {NoRun}]
      BY <2>1, <2>3, DelaysAssumption DEF TypeOK, RecordDeliverySuccess, NoRun
    <3>2. QED
      BY <1>6, <2>3, <3>1 DEF TypeOK, RecordPeer, RecordDeliverySuccess, DoneWith, publisherVars
  <2>4. QED
    BY <1>6, <2>2, <2>3 DEF RecordPeer
<1>7. CASE RecordPeerFails(s)
  BY <1>7 DEF TypeOK, RecordPeerFails, DoneWith, peerVars, publisherVars, history
<1>8. QED
  BY <1>1, <1>2, <1>3, <1>4, <1>5, <1>6, <1>7 DEF SenderStep

LEMMA TypeTick ==
    ASSUME TypeOK, Tick
    PROVE  TypeOK'
<1>1. ASSUME NEW k \in Keys
      PROVE  [box[k] EXCEPT !.wait = Aged(k)] \in Row
  <2>1. box[k] \in Row /\ Aged(k) \in Int
    BY AgedIsInt DEF TypeOK
  <2>2. QED
    BY <2>1 DEF Row
<1>2. box' \in [Keys -> Row]
  BY <1>1 DEF TypeOK, Tick
<1>3. failAge' \in [Peers -> (0..FailureWindow) \cup {NoRun}]
  BY DelaysAssumption DEF TypeOK, Tick, Least, NoRun
<1>4. sinceReached' \in [Peers -> 0..FailureWindow]
  BY DelaysAssumption DEF TypeOK, Tick, Least
<1>5. QED
  BY <1>2, <1>3, <1>4 DEF TypeOK, Tick, senderVars, publisherVars

LEMMA TypeAdmin ==
    ASSUME TypeOK, NEW p \in Peers, Admin(p)
    PROVE  TypeOK'
<1>1. CASE SetOutboundStatus(p)
  BY <1>1 DEF TypeOK, SetOutboundStatus, senderVars, publisherVars, history
<1>2. CASE ResumePeer(p)
  <2>1. \A k \in Keys : DueNow(box[k]) \in Row
    BY DEF TypeOK, Row, DueNow
  <2>2. box' \in [Keys -> Row]
    BY <1>2, <2>1 DEF TypeOK, ResumePeer, RequeueAll
  <2>3. sinceReached' \in [Peers -> 0..FailureWindow]
    BY <1>2, DelaysAssumption DEF TypeOK, ResumePeer
  <2>4. QED
    BY <1>2, <2>2, <2>3 DEF TypeOK, ResumePeer, NoRun, senderVars, publisherVars
<1>3. CASE RemovePeer(p)
  BY <1>3 DEF TypeOK, RemovePeer, NoRun, NoRow, Row, senderVars, publisherVars, history
<1>4. QED
  BY <1>1, <1>2, <1>3 DEF Admin

LEMMA TypeStep == TypeOK /\ [Next]_vars => TypeOK'
<1> SUFFICES ASSUME TypeOK, [Next]_vars
             PROVE  TypeOK'
  OBVIOUS
<1>1. ASSUME NEW j \in jobs, EnqueueFails(j) \/ CrashPublisher(j)
      PROVE  TypeOK'
  BY <1>1 DEF TypeOK, EnqueueFails, CrashPublisher, peerVars, senderVars, publisherVars, history
<1>2. ASSUME NEW s \in Senders, CrashSender(s)
      PROVE  TypeOK'
  BY <1>2 DEF TypeOK, CrashSender, DoneWith, peerVars, publisherVars, history
<1>3. CASE UNCHANGED vars
  BY <1>3 DEF TypeOK, vars, peerVars, senderVars, publisherVars, history
<1>4. QED
  BY <1>1, <1>2, <1>3, TypePublish, TypeEnqueue, TypeSenderStep, TypeTick, TypeAdmin DEF Next

\* Every reachable state is well typed, whatever the constants.
THEOREM SenderTypeOK == Spec => []TypeOK
<1>1. QED
  BY TypeInit, TypeStep, PTL DEF Spec

-----------------------------------------------------------------------------
(* Nothing queued is lost unless overtaken *)

\* What a Sender holds is an item of a known peer and event.
LEMMA HeldIsItem ==
    ASSUME TypeOK, NEW s \in Senders, NEW item \in Held(s)
    PROVE  item \in Item /\ <<item.peer, item.event>> \in Keys
<1>1. item \in Item
  BY DEF TypeOK, Held
<1>2. QED
  BY <1>1 DEF Item, Keys

LEMMA NoLossInit == Init => NoLossInv
  BY NoItemAssumption DEF Init, NoLossInv, RowIsLastQueued, HeldIsCurrent, SettledIsAnswered,
     IdsAreFresh, OnlyOvertakenIsLost, Queued, NoRow, Keys, Held

\* A step that forgets items and calls, and touches no id and no payload of a
\* row, preserves the invariant.
LEMMA QuietStep ==
    ASSUME TypeOK, NoLossInv,
           \A t \in Senders : Held(t)' \subseteq Held(t),
           jobs' \subseteq jobs,
           UNCHANGED <<queued, overtaken, published>>,
           \A k \in Keys : answered[k] \subseteq answered'[k],
           \A k \in Keys : box'[k].id = box[k].id /\ box'[k].payload = box[k].payload,
           \A p \in Peers : status'[p] = "removed" <=> status[p] = "removed",
           SettledIsAnswered'
    PROVE  NoLossInv'
<1>1. \A p \in Peers, e \in Events : <<p, e>> \in Keys
  BY DEF Keys
<1>2. RowIsLastQueued'
  BY <1>1 DEF NoLossInv, RowIsLastQueued, Queued
<1>3. HeldIsCurrent'
  BY HeldIsItem DEF NoLossInv, HeldIsCurrent
<1>4. IdsAreFresh'
  <2>1. \A j \in jobs : j \in Job
    BY DEF TypeOK
  <2>2. \A j \in jobs' : \A p \in j.left : box'[<<p, j.event>>].id # j.payload
    <3> SUFFICES ASSUME NEW j \in jobs', NEW p \in j.left
                 PROVE  box'[<<p, j.event>>].id # j.payload
      OBVIOUS
    <3>1. j \in jobs /\ <<p, j.event>> \in Keys
      BY <2>1 DEF Job, Keys
    <3>2. QED
      BY <3>1 DEF NoLossInv, IdsAreFresh
  <2>3. \A p \in Peers, e \in Events : box'[<<p, e>>].id <= published'[e]
    BY <1>1 DEF NoLossInv, IdsAreFresh
  <2>4. QED
    BY <2>2, <2>3 DEF NoLossInv, IdsAreFresh
<1>5. OnlyOvertakenIsLost'
  BY <1>1 DEF NoLossInv, OnlyOvertakenIsLost, Queued
<1>6. QED
  BY <1>2, <1>3, <1>4, <1>5 DEF NoLossInv

LEMMA NoLossPublish ==
    ASSUME TypeOK, NoLossInv, NEW e \in Events, PublishEvent(e)
    PROVE  NoLossInv'
<1> DEFINE new == [event |-> e, payload |-> published[e] + 1, left |-> OutboundPeers]
<1>1. UNCHANGED <<box, status, queued, answered, overtaken, batch, flight, step, outcome>>
  BY DEF PublishEvent, peerVars, senderVars, history
<1>2. \A t \in Senders : Held(t)' = Held(t)
  BY <1>1 DEF Held
<1>3. RowIsLastQueued' /\ HeldIsCurrent' /\ SettledIsAnswered' /\ OnlyOvertakenIsLost'
  BY <1>1, <1>2 DEF NoLossInv, RowIsLastQueued, HeldIsCurrent, SettledIsAnswered, OnlyOvertakenIsLost, Queued
<1>4. jobs' = jobs \cup {new} /\ published' = [published EXCEPT ![e] = @ + 1]
  BY DEF PublishEvent
<1>5. /\ \A f \in Events : published[f] \in Nat /\ published'[f] \in Nat /\ published[f] <= published'[f]
      /\ published'[e] = published[e] + 1
  BY <1>4 DEF TypeOK
<1>6. \A j \in jobs : j.event \in Events /\ j.payload \in Nat /\ j.payload \in 1..published[j.event]
  BY DEF TypeOK, Job, NoLossInv, IdsAreFresh
<1>7. \A s \in Senders : \A item \in Held(s) :
        item.event \in Events /\ item.id \in Nat /\ item.id # 0 /\ item.id <= published[item.event]
  BY HeldIsItem DEF Item, NoLossInv, IdsAreFresh
<1>8. \A p \in Peers, f \in Events : box[<<p, f>>].id \in Nat /\ box[<<p, f>>].id <= published[f]
  BY DEF TypeOK, Row, Keys, NoLossInv, IdsAreFresh
<1>9. new.left \subseteq Peers
  BY DEF OutboundPeers
<1>10. IdsAreFresh'
  <2>1. \A i, j \in jobs' : i.event = j.event /\ i.payload = j.payload => i = j
    BY <1>4, <1>5, <1>6 DEF NoLossInv, IdsAreFresh
  <2>2. \A j \in jobs' : j.payload \in 1..published'[j.event]
    BY <1>4, <1>5, <1>6
  <2>3. \A j \in jobs' : \A p \in j.left : box'[<<p, j.event>>].id # j.payload
    <3> SUFFICES ASSUME NEW j \in jobs', NEW p \in j.left
                 PROVE  box[<<p, j.event>>].id # j.payload
      BY <1>1
    <3>1. CASE j \in jobs
      BY <3>1 DEF NoLossInv, IdsAreFresh
    <3>2. CASE j = new
      <4>1. p \in Peers /\ j.event = e /\ j.payload = published[e] + 1
        BY <1>9, <3>2
      <4>2. QED
        BY <1>5, <1>8, <4>1
    <3>3. QED
      BY <1>4, <3>1, <3>2
  <2>4. \A j \in jobs', s \in Senders : \A item \in Held(s)' :
          item.event = j.event /\ item.peer \in j.left => item.id # j.payload
    BY <1>2, <1>4, <1>5, <1>7 DEF NoLossInv, IdsAreFresh
  <2>5. ASSUME NEW p \in Peers, NEW f \in Events
        PROVE  box'[<<p, f>>].id <= published'[f]
    <3>1. box'[<<p, f>>].id = box[<<p, f>>].id
      BY <1>1
    <3>2. QED
      BY <1>5, <1>8, <3>1
  <2>6. \A s \in Senders : \A item \in Held(s)' : item.id # 0 /\ item.id <= published'[item.event]
    BY <1>2, <1>5, <1>7
  <2>7. QED
    BY <2>1, <2>2, <2>3, <2>4, <2>5, <2>6 DEF IdsAreFresh
<1>11. QED
  BY <1>3, <1>10 DEF NoLossInv

LEMMA RestIsShorter ==
    ASSUME NEW j \in Job, NEW p, NEW r \in Rest(j, p)
    PROVE  r.event = j.event /\ r.payload = j.payload /\ r.left = j.left \ {p}
BY DEF Rest, Job

\* The insert makes its payload the row's, and says so when a Sender holds the
\* payload it replaced. A row it creates has an id nobody holds.
LEMMA NoLossEnqueue ==
    ASSUME TypeOK, NoLossInv, NEW j \in jobs, EnqueueNext(j)
    PROVE  NoLossInv'
<1>1. PICK p \in j.left :
        /\ status[p] # "removed"
        /\ EnqueueDelivery(p, j.event, j.payload)
        /\ jobs' = (jobs \ {j}) \cup Rest(j, p)
        /\ UNCHANGED <<peerVars, senderVars, published, crashes, answered, sinceReached, overrun>>
  BY DEF EnqueueNext
<1> DEFINE k0 == <<p, j.event>>
<1>2. j \in Job /\ p \in Peers /\ j.event \in Events /\ k0 \in Keys /\ j.payload \in Nat
  BY DEF TypeOK, Job, Keys
<1>3. \A p2 \in Peers, e2 \in Events : <<p2, e2>> \in Keys
  BY DEF Keys
<1>4. \A t \in Senders : Held(t)' = Held(t)
  BY <1>1 DEF Held, senderVars
<1>5. /\ \A k \in Keys : k # k0 => /\ box'[k] = box[k] /\ queued'[k] = queued[k]
                                   /\ overtaken'[k] = overtaken[k]
      /\ box'[k0].payload = j.payload /\ queued'[k0] = j.payload
      /\ box'[k0].id = IF Queued(p, j.event) THEN box[k0].id ELSE j.payload
      /\ overtaken'[k0] = \E s \in Senders : \E item \in Held(s) :
            Queued(p, j.event) /\ item.peer = p /\ item.event = j.event /\ item.id = box[k0].id
  BY <1>1, <1>2 DEF EnqueueDelivery, TypeOK
<1>6. UNCHANGED <<status, answered, published, flight, step, outcome>>
  BY <1>1 DEF peerVars, senderVars
<1>7. j.payload # 0
  BY <1>2 DEF NoLossInv, IdsAreFresh, TypeOK
<1>8. RowIsLastQueued'
  BY <1>1, <1>2, <1>3, <1>5, <1>6 DEF NoLossInv, RowIsLastQueued, Queued
<1>9. HeldIsCurrent'
  <2> SUFFICES ASSUME NEW s \in Senders, NEW item \in Held(s),
                      box'[<<item.peer, item.event>>].id = item.id
               PROVE  \/ item.payload = box'[<<item.peer, item.event>>].payload
                      \/ overtaken'[<<item.peer, item.event>>]
    BY <1>4 DEF HeldIsCurrent
  <2>1. item \in Item /\ <<item.peer, item.event>> \in Keys
    BY HeldIsItem
  <2>2. CASE <<item.peer, item.event>> # k0
    BY <1>5, <2>1, <2>2 DEF NoLossInv, HeldIsCurrent
  <2>3. CASE <<item.peer, item.event>> = k0 /\ Queued(p, j.event)
    <3>1. item.peer = p /\ item.event = j.event /\ item.id = box[k0].id
      BY <1>5, <2>3
    <3>2. overtaken'[k0]
      BY <1>5, <2>3, <3>1
    <3>3. QED
      BY <2>3, <3>2
  <2>4. CASE <<item.peer, item.event>> = k0 /\ ~Queued(p, j.event)
    <3>1. item.peer \in j.left /\ item.event = j.event /\ item.id = j.payload
      BY <1>5, <2>4
    <3>2. QED
      BY <3>1 DEF NoLossInv, IdsAreFresh
  <2>5. QED
    BY <2>2, <2>3, <2>4
<1>10. SettledIsAnswered'
  BY <1>6 DEF NoLossInv, SettledIsAnswered
<1>11. IdsAreFresh'
  <2>1. \A i \in jobs' : (i \in jobs /\ i # j) \/ i \in Rest(j, p)
    BY <1>1
  <2>2. \A i \in Rest(j, p) : i.event = j.event /\ i.payload = j.payload /\ i.left = j.left \ {p}
    BY <1>2, RestIsShorter
  <2>3. \A i \in jobs' : i.payload \in 1..published'[i.event]
    BY <1>6, <2>1, <2>2 DEF NoLossInv, IdsAreFresh
  <2>4. \A i1, i2 \in jobs' : i1.event = i2.event /\ i1.payload = i2.payload => i1 = i2
    <3>1. \A i1, i2 \in Rest(j, p) : i1 = i2
      BY DEF Rest
    <3>2. \A i \in jobs : i.event = j.event /\ i.payload = j.payload => i = j
      BY DEF NoLossInv, IdsAreFresh
    <3>3. QED
      BY <2>1, <2>2, <3>1, <3>2 DEF NoLossInv, IdsAreFresh
  <2>5. ASSUME NEW i \in jobs', NEW q \in i.left
        PROVE  box'[<<q, i.event>>].id # i.payload
    <3>1. CASE i \in jobs /\ i # j
      <4>1. i.event \in Events /\ q \in Peers /\ <<q, i.event>> \in Keys
        BY <2>5, <3>1 DEF TypeOK, Job, Keys
      <4>2. box[<<q, i.event>>].id # i.payload
        BY <2>5, <3>1 DEF NoLossInv, IdsAreFresh
      <4>3. i.event = j.event => i.payload # j.payload
        BY <3>1 DEF NoLossInv, IdsAreFresh
      <4>4. CASE <<q, i.event>> = k0
        BY <1>5, <4>2, <4>3, <4>4
      <4>5. CASE <<q, i.event>> # k0
        BY <1>5, <4>1, <4>2, <4>5
      <4>6. QED
        BY <4>4, <4>5
    <3>2. CASE i \in Rest(j, p)
      <4>1. q \in j.left /\ q # p /\ i.event = j.event /\ i.payload = j.payload
        BY <2>2, <2>5, <3>2
      <4>2. <<q, j.event>> \in Keys /\ <<q, j.event>> # k0
        BY <1>2, <4>1 DEF Job, Keys
      <4>3. QED
        BY <1>5, <4>1, <4>2 DEF NoLossInv, IdsAreFresh
    <3>3. QED
      BY <2>1, <2>5, <3>1, <3>2
  <2>9. ASSUME NEW i \in jobs', NEW s \in Senders, NEW item \in Held(s)',
               item.event = i.event, item.peer \in i.left
        PROVE  item.id # i.payload
    <3>1. item \in Held(s)
      BY <1>4, <2>9
    <3>2. CASE i \in jobs
      BY <2>9, <3>1, <3>2 DEF NoLossInv, IdsAreFresh
    <3>3. CASE i \in Rest(j, p)
      BY <2>2, <2>9, <3>1, <3>3 DEF NoLossInv, IdsAreFresh
    <3>4. QED
      BY <2>1, <2>9, <3>2, <3>3
  <2>6. ASSUME NEW q \in Peers, NEW f \in Events
        PROVE  box'[<<q, f>>].id <= published'[f]
    <3>1. published[j.event] \in Nat /\ j.payload <= published[j.event] /\ <<q, f>> \in Keys
      BY <1>2, <1>3 DEF NoLossInv, IdsAreFresh, TypeOK
    <3>2. box[<<q, f>>].id <= published[f]
      BY DEF NoLossInv, IdsAreFresh
    <3>3. CASE <<q, f>> = k0
      BY <1>5, <1>6, <3>1, <3>2, <3>3
    <3>4. CASE <<q, f>> # k0
      BY <1>5, <1>6, <3>1, <3>2, <3>4
    <3>5. QED
      BY <3>3, <3>4
  <2>7. \A s \in Senders : \A item \in Held(s)' : item.id # 0 /\ item.id <= published'[item.event]
    BY <1>4, <1>6 DEF NoLossInv, IdsAreFresh
  <2>10. QED
    BY <2>3, <2>4, <2>5, <2>6, <2>7, <2>9 DEF IdsAreFresh
<1>12. OnlyOvertakenIsLost'
  <2> SUFFICES ASSUME NEW q \in Peers, NEW f \in Events,
                      queued'[<<q, f>>] # 0, status'[q] # "removed"
               PROVE  \/ box'[<<q, f>>].id # 0 /\ box'[<<q, f>>].payload = queued'[<<q, f>>]
                      \/ queued'[<<q, f>>] \in answered'[<<q, f>>]
                      \/ overtaken'[<<q, f>>]
    BY DEF OnlyOvertakenIsLost, Queued
  <2>1. CASE <<q, f>> = k0
    BY <1>5, <1>7, <2>1 DEF Queued
  <2>2. CASE <<q, f>> # k0
    BY <1>3, <1>5, <1>6, <2>2 DEF NoLossInv, OnlyOvertakenIsLost, Queued
  <2>3. QED
    BY <2>1, <2>2
<1>13. QED
  BY <1>8, <1>9, <1>10, <1>11, <1>12 DEF NoLossInv

\* A pass reads rows as they are.
LEMMA NoLossStartPass ==
    ASSUME TypeOK, NoLossInv, NEW s \in Senders, StartPass(s)
    PROVE  NoLossInv'
<1>1. UNCHANGED <<box, status, queued, answered, overtaken, flight, step, outcome, jobs, published>>
  BY DEF StartPass, peerVars, publisherVars, history
<1>2. \A t \in Senders : Held(t)' \subseteq Held(t) \cup Due
  BY DEF StartPass, DueDeliveries, Held, TypeOK
<1>3. ASSUME NEW item \in Due
      PROVE  /\ item.peer \in Peers /\ item.event \in Events
             /\ item.id = box[<<item.peer, item.event>>].id /\ item.id # 0
             /\ item.payload = box[<<item.peer, item.event>>].payload
  BY DueIsItem DEF Item, Queued
<1>4. RowIsLastQueued' /\ SettledIsAnswered' /\ OnlyOvertakenIsLost'
  BY <1>1 DEF NoLossInv, RowIsLastQueued, SettledIsAnswered, OnlyOvertakenIsLost, Queued
<1>5. HeldIsCurrent'
  BY <1>1, <1>2, <1>3 DEF NoLossInv, HeldIsCurrent
<1>6. IdsAreFresh'
  <2>1. ASSUME NEW j \in jobs, NEW t \in Senders, NEW item \in Held(t)',
               item.event = j.event, item.peer \in j.left
        PROVE  item.id # j.payload
    <3>1. CASE item \in Held(t)
      BY <2>1, <3>1 DEF NoLossInv, IdsAreFresh
    <3>2. CASE item \in Due
      BY <1>3, <2>1, <3>2 DEF NoLossInv, IdsAreFresh
    <3>3. QED
      BY <1>2, <3>1, <3>2
  <2>2. ASSUME NEW t \in Senders, NEW item \in Held(t)'
        PROVE  item.id # 0 /\ item.id <= published[item.event]
    <3>1. CASE item \in Held(t)
      BY <3>1 DEF NoLossInv, IdsAreFresh
    <3>2. CASE item \in Due
      BY <1>3, <3>2 DEF NoLossInv, IdsAreFresh
    <3>3. QED
      BY <1>2, <3>1, <3>2
  <2>3. QED
    BY <1>1, <2>1, <2>2 DEF NoLossInv, IdsAreFresh
<1>7. QED
  BY <1>4, <1>5, <1>6 DEF NoLossInv

\* An answer settles the payload that was posted; the rest of the loop body
\* only forgets.
LEMMA NoLossSenderQuiet ==
    ASSUME TypeOK, NoLossInv, NEW s \in Senders,
           \/ Post(s)
           \/ \E o \in Outcomes : Answer(s, o)
           \/ RecordRowFails(s)
           \/ RecordPeer(s) \/ RecordPeerFails(s)
           \/ CrashSender(s)
    PROVE  NoLossInv'
<1>1. CASE Post(s)
  <2>1. \A t \in Senders : Held(t)' \subseteq Held(t)
    BY <1>1 DEF Post, Held, TypeOK
  <2>2. SettledIsAnswered'
    BY <1>1 DEF Post, TypeOK, NoLossInv, SettledIsAnswered
  <2>3. QED
    BY <1>1, <2>1, <2>2, QuietStep DEF Post, peerVars, publisherVars
<1>2. ASSUME NEW o \in Outcomes, Answer(s, o)
      PROVE  NoLossInv'
  <2>1. \A t \in Senders : Held(t)' \subseteq Held(t)
    BY <1>2 DEF Answer, Held, TypeOK
  <2>2. <<flight[s].peer, flight[s].event>> \in Keys
    BY <1>2 DEF Answer, TypeOK, Item, Keys
  <2>3. \A k \in Keys : answered[k] \subseteq answered'[k]
    BY <1>2, <2>2 DEF Answer, TypeOK
  <2>4. SettledIsAnswered'
    <3> SUFFICES ASSUME NEW t \in Senders, step'[t] \in {"answered", "recorded"},
                        outcome'[t] \in {"accepted", "refused"}
                 PROVE  flight'[t].payload \in answered'[<<flight'[t].peer, flight'[t].event>>]
      BY DEF SettledIsAnswered
    <3>1. CASE t = s
      BY <1>2, <2>2, <3>1 DEF Answer, TypeOK
    <3>2. CASE t # s
      <4>1. step[t] = step'[t] /\ outcome[t] = outcome'[t] /\ flight[t] = flight'[t]
        BY <1>2, <3>2 DEF Answer, TypeOK
      <4>2. <<flight[t].peer, flight[t].event>> \in Keys
        BY <4>1 DEF TypeOK, Item, Keys
      <4>3. QED
        BY <2>3, <4>1, <4>2 DEF NoLossInv, SettledIsAnswered
    <3>3. QED
      BY <3>1, <3>2
  <2>5. QED
    BY <1>2, <2>1, <2>3, <2>4, QuietStep DEF Answer, peerVars, publisherVars
<1>3. CASE RecordRowFails(s)
  <2>1. \A t \in Senders : Held(t)' \subseteq Held(t)
    BY <1>3 DEF RecordRowFails, Held, TypeOK
  <2>2. SettledIsAnswered'
    BY <1>3 DEF RecordRowFails, TypeOK, NoLossInv, SettledIsAnswered, history
  <2>3. QED
    BY <1>3, <2>1, <2>2, QuietStep DEF RecordRowFails, peerVars, publisherVars, history
<1>4. CASE RecordPeer(s) \/ RecordPeerFails(s)
  <2>1. DoneWith(s) /\ UNCHANGED <<box, status, batch, publisherVars, queued, answered, overtaken>>
    BY <1>4 DEF RecordPeer, RecordPeerFails, peerVars, history
  <2>2. \A t \in Senders : Held(t)' \subseteq Held(t)
    BY <2>1 DEF DoneWith, Held, TypeOK
  <2>3. SettledIsAnswered'
    BY <2>1 DEF DoneWith, TypeOK, NoLossInv, SettledIsAnswered
  <2>4. QED
    BY <2>1, <2>2, <2>3, QuietStep DEF publisherVars
<1>5. CASE CrashSender(s)
  <2>1. \A t \in Senders : Held(t)' \subseteq Held(t)
    BY <1>5 DEF CrashSender, DoneWith, Held, TypeOK
  <2>2. SettledIsAnswered'
    BY <1>5 DEF CrashSender, DoneWith, TypeOK, NoLossInv, SettledIsAnswered, history
  <2>3. QED
    BY <1>5, <2>1, <2>2, QuietStep DEF CrashSender, peerVars, publisherVars, history
<1>6. QED
  BY <1>1, <1>2, <1>3, <1>4, <1>5

\* The statement that deletes a row deletes one whose last payload was
\* answered for, unless that payload replaced the one answered for.
LEMMA NoLossRecordRow ==
    ASSUME TypeOK, NoLossInv, NEW s \in Senders, RecordRow(s)
    PROVE  NoLossInv'
<1> DEFINE item == flight[s]
           k0 == <<item.peer, item.event>>
<1>1. item \in Item /\ k0 \in Keys /\ item \in Held(s)
  BY DEF RecordRow, TypeOK, Held, Item, Keys
<1>2. \A t \in Senders : Held(t)' = Held(t)
  BY DEF RecordRow, Held, TypeOK
<1>3. UNCHANGED <<status, jobs, published, queued, answered, overtaken>>
  BY DEF RecordRow, peerVars, publisherVars, history
<1>4. SettledIsAnswered'
  BY DEF RecordRow, TypeOK, NoLossInv, SettledIsAnswered, history
<1>5. CASE \A k \in Keys : box'[k].id = box[k].id /\ box'[k].payload = box[k].payload
  BY <1>2, <1>3, <1>4, <1>5, QuietStep
<1>6. CASE outcome[s] \in {"accepted", "refused"} /\ box[k0].id = item.id /\ box' = [box EXCEPT ![k0] = NoRow]
  <2>1. box'[k0].id = 0 /\ \A k \in Keys : k # k0 => box'[k] = box[k]
    BY <1>1, <1>6 DEF TypeOK, NoRow
  <2>2. \A p \in Peers, e \in Events : <<p, e>> \in Keys
    BY DEF Keys
  <2>3. RowIsLastQueued'
    BY <1>3, <2>1, <2>2 DEF NoLossInv, RowIsLastQueued, Queued
  <2>4. HeldIsCurrent'
    <3> SUFFICES ASSUME NEW t \in Senders, NEW i \in Held(t),
                        box'[<<i.peer, i.event>>].id = i.id
                 PROVE  \/ i.payload = box'[<<i.peer, i.event>>].payload
                        \/ overtaken'[<<i.peer, i.event>>]
      BY <1>2 DEF HeldIsCurrent
    <3>1. i.id # 0 /\ <<i.peer, i.event>> \in Keys
      BY HeldIsItem DEF NoLossInv, IdsAreFresh
    <3>2. <<i.peer, i.event>> # k0
      BY <2>1, <3>1
    <3>3. QED
      BY <1>3, <2>1, <3>1, <3>2 DEF NoLossInv, HeldIsCurrent
  <2>5. IdsAreFresh'
    <3>1. ASSUME NEW j \in jobs, NEW p \in j.left
          PROVE  box'[<<p, j.event>>].id # j.payload
      <4>1. j.payload # 0 /\ <<p, j.event>> \in Keys
        BY DEF NoLossInv, IdsAreFresh, TypeOK, Job, Keys
      <4>2. QED
        BY <2>1, <4>1 DEF NoLossInv, IdsAreFresh
    <3>2. ASSUME NEW p \in Peers, NEW e \in Events
          PROVE  box'[<<p, e>>].id <= published[e]
      <4>1. box[<<p, e>>].id <= published[e]
        BY DEF NoLossInv, IdsAreFresh
      <4>2. published[e] \in Nat
        BY DEF TypeOK
      <4>3. CASE <<p, e>> = k0
        BY <2>1, <4>2, <4>3
      <4>4. CASE <<p, e>> # k0
        <5>1. box'[<<p, e>>] = box[<<p, e>>]
          BY <2>1, <2>2, <4>4
        <5>2. QED
          BY <4>1, <5>1
      <4>5. QED
        BY <4>3, <4>4
    <3>3. QED
      BY <1>2, <1>3, <3>1, <3>2 DEF NoLossInv, IdsAreFresh
  <2>6. OnlyOvertakenIsLost'
    <3>1. item.payload = box[k0].payload \/ overtaken[k0]
      BY <1>1, <1>6 DEF NoLossInv, HeldIsCurrent
    <3>2. box[k0].payload = queued[k0]
      BY <1>1, <1>6 DEF NoLossInv, RowIsLastQueued, IdsAreFresh, Queued, Keys, Item
    <3>3. item.payload \in answered[k0]
      BY <1>6 DEF RecordRow, NoLossInv, SettledIsAnswered
    <3>4. queued[k0] \in answered[k0] \/ overtaken[k0]
      BY <3>1, <3>2, <3>3
    <3>5. QED
      BY <1>3, <2>1, <2>2, <3>4 DEF NoLossInv, OnlyOvertakenIsLost, Queued
  <2>7. QED
    BY <1>4, <2>3, <2>4, <2>5, <2>6 DEF NoLossInv
<1>7. QED
  <2>1. CASE outcome[s] \in {"accepted", "refused"} /\ MarkDelivered(flight[s])
    BY <1>5, <1>6, <2>1 DEF MarkDelivered, WriteRow
  <2>2. CASE DeferDelivery(flight[s])
    BY <1>1, <1>5, <2>2 DEF DeferDelivery, WriteRow, TypeOK, Row
  <2>3. CASE MarkDeliveryFailed(flight[s])
    BY <1>1, <1>5, <2>3 DEF MarkDeliveryFailed, WriteRow, TypeOK
  <2>4. QED
    BY <2>1, <2>2, <2>3 DEF RecordRow

\* Of the administrator's steps only RemovePeer touches a row's id, and a
\* removed peer has nothing to lose.
LEMMA NoLossAdmin ==
    ASSUME TypeOK, NoLossInv, NEW p \in Peers, Admin(p)
    PROVE  NoLossInv'
<1>1. \A t \in Senders : Held(t)' = Held(t)
  BY DEF Admin, SetOutboundStatus, ResumePeer, RemovePeer, senderVars, Held
<1>2. UNCHANGED <<jobs, published, queued, answered, overtaken, step, outcome, flight>>
  BY DEF Admin, SetOutboundStatus, ResumePeer, RemovePeer, senderVars, publisherVars, history
<1>3. SettledIsAnswered'
  BY <1>2 DEF NoLossInv, SettledIsAnswered
<1>4. CASE SetOutboundStatus(p)
  BY <1>1, <1>2, <1>3, <1>4, QuietStep DEF SetOutboundStatus, TypeOK
<1>5. CASE ResumePeer(p)
  BY <1>1, <1>2, <1>3, <1>5, QuietStep DEF ResumePeer, RequeueAll, DueNow, TypeOK
<1>6. CASE RemovePeer(p)
  <2>1. \A q \in Peers, e \in Events : /\ <<q, e>> \in Keys
                                       /\ q = p => box'[<<q, e>>].id = 0 /\ status'[q] = "removed"
                                       /\ q # p => box'[<<q, e>>] = box[<<q, e>>] /\ status'[q] = status[q]
    BY <1>6 DEF RemovePeer, Keys, NoRow, TypeOK
  <2>2. RowIsLastQueued' /\ OnlyOvertakenIsLost'
    BY <1>2, <2>1 DEF NoLossInv, RowIsLastQueued, OnlyOvertakenIsLost, Queued
  <2>3. HeldIsCurrent'
    <3> SUFFICES ASSUME NEW t \in Senders, NEW i \in Held(t),
                        box'[<<i.peer, i.event>>].id = i.id
                 PROVE  \/ i.payload = box'[<<i.peer, i.event>>].payload
                        \/ overtaken'[<<i.peer, i.event>>]
      BY <1>1 DEF HeldIsCurrent
    <3>1. i.id # 0 /\ i.peer \in Peers /\ i.event \in Events
      BY HeldIsItem DEF NoLossInv, IdsAreFresh, Item
    <3>2. box'[<<i.peer, i.event>>] = box[<<i.peer, i.event>>]
      BY <2>1, <3>1
    <3>3. QED
      BY <1>2, <3>2 DEF NoLossInv, HeldIsCurrent
  <2>4. IdsAreFresh'
    <3>1. ASSUME NEW j \in jobs, NEW q \in j.left
          PROVE  box'[<<q, j.event>>].id # j.payload
      <4>1. j.payload # 0 /\ q \in Peers /\ j.event \in Events
        BY DEF NoLossInv, IdsAreFresh, TypeOK, Job
      <4>2. QED
        BY <2>1, <4>1 DEF NoLossInv, IdsAreFresh
    <3>2. ASSUME NEW q \in Peers, NEW e \in Events
          PROVE  box'[<<q, e>>].id <= published[e]
      BY <2>1 DEF NoLossInv, IdsAreFresh, TypeOK
    <3>3. QED
      BY <1>1, <1>2, <3>1, <3>2 DEF NoLossInv, IdsAreFresh
  <2>5. QED
    BY <1>3, <2>2, <2>3, <2>4 DEF NoLossInv
<1>7. QED
  BY <1>4, <1>5, <1>6 DEF Admin

LEMMA NoLossStep == TypeOK /\ NoLossInv /\ [Next]_vars => NoLossInv'
<1> SUFFICES ASSUME TypeOK, NoLossInv, [Next]_vars
             PROVE  NoLossInv'
  OBVIOUS
<1>1. ASSUME NEW j \in jobs, EnqueueFails(j) \/ CrashPublisher(j)
      PROVE  NoLossInv'
  <2>1. /\ jobs' \subseteq jobs
        /\ UNCHANGED <<box, status, published, batch, flight, step, outcome, queued, answered, overtaken>>
    BY <1>1 DEF EnqueueFails, CrashPublisher, peerVars, senderVars, history
  <2>2. \A t \in Senders : Held(t)' = Held(t)
    BY <2>1 DEF Held
  <2>3. SettledIsAnswered'
    BY <2>1 DEF NoLossInv, SettledIsAnswered
  <2>4. QED
    BY <2>1, <2>2, <2>3, QuietStep
<1>2. CASE Tick
  <2>1. \A k \in Keys : box'[k].id = box[k].id /\ box'[k].payload = box[k].payload
    BY <1>2 DEF Tick, TypeOK, Row
  <2>2. UNCHANGED <<status, jobs, published, batch, flight, step, outcome, queued, answered, overtaken>>
    BY <1>2 DEF Tick, senderVars, publisherVars
  <2>3. \A t \in Senders : Held(t)' = Held(t)
    BY <2>2 DEF Held
  <2>4. SettledIsAnswered'
    BY <2>2 DEF NoLossInv, SettledIsAnswered
  <2>5. QED
    BY <2>1, <2>2, <2>3, <2>4, QuietStep
<1>3. CASE UNCHANGED vars
  <2>1. UNCHANGED <<box, status, jobs, published, batch, flight, step, outcome, queued, answered, overtaken>>
    BY <1>3 DEF vars, peerVars, senderVars, publisherVars, history
  <2>2. \A t \in Senders : Held(t)' = Held(t)
    BY <2>1 DEF Held
  <2>3. SettledIsAnswered'
    BY <2>1 DEF NoLossInv, SettledIsAnswered
  <2>4. QED
    BY <2>1, <2>2, <2>3, QuietStep
<1>4. QED
  BY <1>1, <1>2, <1>3, NoLossPublish, NoLossEnqueue, NoLossStartPass, NoLossSenderQuiet,
     NoLossRecordRow, NoLossAdmin DEF Next, SenderStep

\* Whatever the constants, the only queued payload that can vanish unanswered
\* is one inserted over a row a Sender had already read.
THEOREM SenderLosesOnlyOvertaken == Spec => []OnlyOvertakenIsLost
<1>1. NoLossInv => OnlyOvertakenIsLost
  BY DEF NoLossInv
<1>2. QED
  BY <1>1, NoLossInit, NoLossStep, TypeInit, TypeStep, PTL DEF Spec

-----------------------------------------------------------------------------
(* Suspension *)

LEMMA RunIsYoungInit == Init => RunIsYoung
  BY DEF Init, RunIsYoung, NoRun

LEMMA RunIsYoungStep == TypeOK /\ RunIsYoung /\ [Next]_vars => RunIsYoung'
<1> SUFFICES ASSUME TypeOK, RunIsYoung, [Next]_vars
             PROVE  RunIsYoung'
  OBVIOUS
<1>1. CASE UNCHANGED <<failAge, sinceReached>>
  BY <1>1 DEF RunIsYoung
<1>2. ASSUME NEW s \in Senders, RecordPeer(s)
      PROVE  RunIsYoung'
  <2> DEFINE p == flight[s].peer
  <2>1. p \in Peers
    BY <1>2 DEF RecordPeer, TypeOK, Item
  <2>2. CASE RecordDeliveryFailure(p) /\ UNCHANGED sinceReached
    BY <2>1, <2>2 DEF RecordDeliveryFailure, RunIsYoung, TypeOK, NoRun
  <2>3. CASE RecordDeliverySuccess(p) /\ sinceReached' = [sinceReached EXCEPT ![p] = 0]
    BY <2>1, <2>3 DEF RecordDeliverySuccess, RunIsYoung, TypeOK, NoRun
  <2>4. QED
    BY <1>2, <2>2, <2>3 DEF RecordPeer
<1>3. ASSUME NEW p \in Peers, ResumePeer(p) \/ RemovePeer(p)
      PROVE  RunIsYoung'
  BY <1>3 DEF ResumePeer, RemovePeer, RunIsYoung, TypeOK, NoRun, history
<1>4. CASE Tick
  BY <1>4, DelaysAssumption DEF Tick, Least, RunIsYoung, TypeOK, NoRun
<1>5. QED
  <2>1. ASSUME NEW e \in Events, PublishEvent(e) PROVE RunIsYoung'
    BY <1>1, <2>1 DEF PublishEvent, peerVars, history
  <2>2. ASSUME NEW j \in jobs, EnqueueNext(j) \/ EnqueueFails(j) \/ CrashPublisher(j)
        PROVE  RunIsYoung'
    BY <1>1, <2>2 DEF EnqueueNext, EnqueueFails, CrashPublisher, peerVars, history
  <2>3. ASSUME NEW s \in Senders, SenderStep(s) \/ CrashSender(s) PROVE RunIsYoung'
    BY <1>1, <1>2, <2>3 DEF SenderStep, CrashSender, StartPass, Post, Answer, RecordRow,
       RecordRowFails, RecordPeerFails, peerVars, history
  <2>4. ASSUME NEW p \in Peers, Admin(p) PROVE RunIsYoung'
    BY <1>1, <1>3, <2>4 DEF Admin, SetOutboundStatus, history
  <2>5. CASE UNCHANGED vars
    BY <1>1, <2>5 DEF vars, peerVars, history
  <2>6. QED
    BY <1>4, <2>1, <2>2, <2>3, <2>4, <2>5 DEF Next

\* Only RecordDeliveryFailure suspends a peer, ResumePeer and RemovePeer lift
\* a suspension.
LEMMA SuspensionStep ==
    ASSUME TypeOK, RunIsYoung, [Next]_vars, NEW p \in Peers
    PROVE  /\ ~suspended[p] /\ suspended'[p] => sinceReached[p] = FailureWindow
           /\ suspended[p] /\ ~suspended'[p] => ResumePeer(p) \/ RemovePeer(p)
<1>1. CASE UNCHANGED suspended
  BY <1>1
<1>2. ASSUME NEW s \in Senders, RecordPeer(s)
      PROVE  /\ ~suspended[p] /\ suspended'[p] => sinceReached[p] = FailureWindow
             /\ suspended[p] /\ ~suspended'[p] => ResumePeer(p) \/ RemovePeer(p)
  <2>1. CASE UNCHANGED suspended
    BY <2>1
  <2>2. CASE RecordDeliveryFailure(flight[s].peer)
    <3>1. suspended' = [suspended EXCEPT ![flight[s].peer] =
                          suspended[flight[s].peer] \/ failAge[flight[s].peer] >= FailureWindow]
      BY <2>2 DEF RecordDeliveryFailure
    <3>2. suspended \in [Peers -> BOOLEAN] /\ flight[s].peer \in Peers
      BY <1>2 DEF RecordPeer, TypeOK, Item
    <3> HIDE <2>2
    <3>3. p = flight[s].peer => suspended'[p] = (suspended[p] \/ failAge[p] >= FailureWindow)
      BY <3>1, <3>2, Zenon
    <3>4. p # flight[s].peer => suspended'[p] = suspended[p]
      BY <3>1, <3>2, Zenon
    <3>5. failAge[p] >= FailureWindow => sinceReached[p] = FailureWindow
      BY DelaysAssumption DEF RunIsYoung, TypeOK, NoRun
    <3>6. QED
      BY <3>3, <3>4, <3>5
  <2>3. QED
    BY <1>2, <2>1, <2>2 DEF RecordPeer, RecordDeliverySuccess
<1>3. ASSUME NEW q \in Peers, ResumePeer(q) \/ RemovePeer(q)
      PROVE  /\ ~suspended[p] /\ suspended'[p] => sinceReached[p] = FailureWindow
             /\ suspended[p] /\ ~suspended'[p] => ResumePeer(p) \/ RemovePeer(p)
  <2>1. suspended \in [Peers -> BOOLEAN] /\ suspended' = [suspended EXCEPT ![q] = FALSE]
    BY <1>3 DEF ResumePeer, RemovePeer, TypeOK
  <2>2. CASE p = q
    BY <1>3, <2>1, <2>2
  <2>3. CASE p # q
    BY <2>1, <2>3
  <2>4. QED
    BY <2>2, <2>3
<1>4. QED
  <2>1. ASSUME NEW e \in Events, PublishEvent(e) PROVE UNCHANGED suspended
    BY <2>1 DEF PublishEvent, peerVars
  <2>2. ASSUME NEW j \in jobs, EnqueueNext(j) \/ EnqueueFails(j) \/ CrashPublisher(j)
        PROVE  UNCHANGED suspended
    BY <2>2 DEF EnqueueNext, EnqueueFails, CrashPublisher, peerVars
  <2>3. ASSUME NEW s \in Senders, SenderStep(s) \/ CrashSender(s), ~RecordPeer(s)
        PROVE  UNCHANGED suspended
    BY <2>3 DEF SenderStep, CrashSender, StartPass, Post, Answer, RecordRow,
       RecordRowFails, RecordPeerFails, peerVars
  <2>4. ASSUME NEW q \in Peers, SetOutboundStatus(q) PROVE UNCHANGED suspended
    BY <2>4 DEF SetOutboundStatus
  <2>5. CASE Tick \/ UNCHANGED vars
    BY <2>5 DEF Tick, vars, peerVars
  <2>6. QED
    BY <1>1, <1>2, <1>3, <2>1, <2>2, <2>3, <2>4, <2>5 DEF Next, Admin

\* Whatever the constants, a peer is suspended only after a whole window of
\* silence, however its failures are spread over the replicas.
THEOREM SenderSuspendsAfterAWindow == Spec => SuspendedOnlyAfterAWindow
<1>1. TypeOK /\ RunIsYoung /\ [Next]_vars =>
        [\A p \in Peers : ~suspended[p] /\ suspended'[p] => sinceReached[p] = FailureWindow]_vars
  BY SuspensionStep
<1>2. QED
  BY <1>1, RunIsYoungInit, RunIsYoungStep, TypeInit, TypeStep, PTL DEF Spec, SuspendedOnlyAfterAWindow

\* Whatever the constants, a suspension ends only with everything queued for
\* the peer due at once, or gone with the peer.
THEOREM SenderRequeuesOnResume == Spec => LiftedSuspensionRequeues
<1>1. TypeOK /\ RunIsYoung /\ [Next]_vars =>
        [\A p \in Peers : suspended[p] /\ ~suspended'[p] =>
            \A e \in Events : box'[<<p, e>>].id # 0 =>
                box'[<<p, e>>].wait = 0 /\ box'[<<p, e>>].attempts = 0]_vars
  <2> SUFFICES ASSUME TypeOK, RunIsYoung, [Next]_vars, NEW p \in Peers, NEW e \in Events,
                      suspended[p], ~suspended'[p], box'[<<p, e>>].id # 0
               PROVE  box'[<<p, e>>].wait = 0 /\ box'[<<p, e>>].attempts = 0
    OBVIOUS
  <2>1. <<p, e>> \in Keys
    BY DEF Keys
  <2>2. CASE ResumePeer(p)
    BY <2>1, <2>2 DEF ResumePeer, RequeueAll, DueNow, TypeOK
  <2>3. CASE RemovePeer(p)
    BY <2>1, <2>3 DEF RemovePeer, NoRow
  <2>4. QED
    BY <2>2, <2>3, SuspensionStep
<1>2. QED
  BY <1>1, RunIsYoungInit, RunIsYoungStep, TypeInit, TypeStep, PTL DEF Spec, LiftedSuspensionRequeues

-----------------------------------------------------------------------------
(* The overrun of a suspension *)

Bound == BatchSize * Cardinality(Senders)

\* The items that the passes under way have read for a peer and not posted.
Unposted(p) == {x \in Senders \X Item : x[2] \in batch[x[1]] /\ x[2].peer = p}

\* A pass reads at most BatchSize rows.
PassesAreSmall == \A s \in Senders : IsFiniteSet(batch[s]) /\ Cardinality(batch[s]) <= BatchSize

\* A delivery begun since a suspension was read before it, and none is read
\* while it lasts: together with what is still to be posted they are bounded.
OverrunWasRead ==
    \A p \in Peers :
        /\ ~suspended[p] /\ status[p] # "removed" => overrun[p] = 0
        /\ status[p] = "removed" => ~suspended[p] /\ overrun[p] <= Bound
        /\ suspended[p] => overrun[p] + Cardinality(Unposted(p)) <= Bound

OverrunInv == PassesAreSmall /\ OverrunWasRead

LEMMA BoundIsNat == Bound \in Nat
<1>1. Cardinality(Senders) \in Nat
  BY SendersAssumption, FS_CardinalityType
<1>2. \A a, b \in Nat : a * b \in Nat
  OBVIOUS
<1>3. QED
  BY <1>1, <1>2, DelaysAssumption DEF Bound

\* Only finitely many rows are due.
LEMMA DueIsFinite == IsFiniteSet(Due)
<1> DEFINE among == {p \in Peers : status[p] = "approved" /\ ~suspended[p]}
           due == {x \in Keys : Queued(x[1], x[2]) /\ box[x].wait <= 0 /\ x[1] \in among}
           f == [k \in due |-> ItemOf(k[1], k[2])]
<1>1. IsFiniteSet(Keys)
  BY PeersAssumption, FS_Product DEF Keys
<1>2. IsFiniteSet(due)
  BY <1>1, FS_Subset
<1>3. Due = {ItemOf(k[1], k[2]) : k \in due}
  BY Zenon DEF Due, DueRows
<1> HIDE DEF due
<1>4. f \in Surjection(due, Due)
  BY <1>3 DEF Surjection
<1>5. QED
  BY <1>2, <1>4, FS_Surjection

\* An item read is for a peer that is sent to.
LEMMA DuePeerIsSentTo ==
    ASSUME NEW item \in Due
    PROVE  item.peer \in Peers /\ ~suspended[item.peer]
<1>1. PICK k \in Keys : item = ItemOf(k[1], k[2]) /\ k[1] \in Peers /\ ~suspended[k[1]]
  BY DEF Due, DueRows
<1>2. QED
  BY <1>1 DEF ItemOf

\* The rows in memory fit the passes: number them within each pass.
LEMMA UnpostedIsBounded ==
    ASSUME TypeOK, PassesAreSmall, NEW p \in Peers
    PROVE  IsFiniteSet(Unposted(p)) /\ Cardinality(Unposted(p)) \in Nat /\ Cardinality(Unposted(p)) <= Bound
<1> DEFINE Slots == 1..BatchSize
<1>1. \A s \in Senders : \E g : g \in Injection(batch[s], Slots)
  <2> SUFFICES ASSUME NEW s \in Senders
               PROVE  \E g : g \in Injection(batch[s], Slots)
    OBVIOUS
  <2> DEFINE n == Cardinality(batch[s])
  <2>1. IsFiniteSet(batch[s]) /\ n <= BatchSize
    BY DEF PassesAreSmall
  <2>2. n \in Nat /\ ExistsBijection(1..n, batch[s])
    BY <2>1, FS_CardinalityType
  <2> HIDE DEF n
  <2>3. PICK h : h \in Bijection(1..n, batch[s])
    BY <2>2 DEF ExistsBijection
  <2>4. \A x \in batch[s] : \E i \in 1..n : h[i] = x
    BY <2>3 DEF Bijection, Surjection
  <2> DEFINE g == [x \in batch[s] |-> CHOOSE i \in 1..n : h[i] = x]
  <2>5. \A x \in batch[s] : g[x] \in 1..n /\ h[g[x]] = x
    <3> SUFFICES ASSUME NEW x \in batch[s]
                 PROVE  g[x] \in 1..n /\ h[g[x]] = x
      OBVIOUS
    <3>1. \E i \in 1..n : h[i] = x
      BY <2>4
    <3>2. g[x] = CHOOSE i \in 1..n : h[i] = x
      OBVIOUS
    <3> HIDE DEF g
    <3>3. QED
      BY <3>1, <3>2, Zenon
  <2>6. g \in [batch[s] -> Slots]
    <3>1. g = [x \in batch[s] |-> g[x]]
      OBVIOUS
    <3> HIDE DEF g
    <3>2. \A i \in 1..n : i \in Slots
      BY <2>1, <2>2, DelaysAssumption
    <3>3. \A x \in batch[s] : g[x] \in Slots
      BY <2>5, <3>2
    <3>4. QED
      BY <3>1, <3>3
  <2>7. \A x, y \in batch[s] : g[x] = g[y] => x = y
    BY <2>5
  <2>8. g \in Injection(batch[s], Slots)
    BY <2>6, <2>7 DEF Injection, IsInjective
  <2>9. QED
    BY <2>8
<1> DEFINE number == [s \in Senders |-> CHOOSE g : g \in Injection(batch[s], Slots)]
           f == [x \in Unposted(p) |-> <<x[1], number[x[1]][x[2]]>>]
<1>2. \A s \in Senders : number[s] \in Injection(batch[s], Slots)
  BY <1>1
<1> HIDE DEF number
<1>3. \A x \in Unposted(p) : x = <<x[1], x[2]>> /\ x[1] \in Senders /\ x[2] \in batch[x[1]]
  BY DEF Unposted
<1>4. \A s \in Senders : \A a \in batch[s] : number[s][a] \in Slots
  BY <1>2 DEF Injection, IsInjective
<1>5. \A s \in Senders : \A a, b \in batch[s] : number[s][a] = number[s][b] => a = b
  BY <1>2 DEF Injection, IsInjective
<1>6. f \in [Unposted(p) -> Senders \X Slots]
  BY <1>3, <1>4
<1>7. \A x, y \in Unposted(p) : f[x] = f[y] => x = y
  BY <1>3, <1>5
<1>8. f \in Injection(Unposted(p), Senders \X Slots)
  BY <1>6, <1>7 DEF Injection, IsInjective
<1>9. IsFiniteSet(Slots) /\ Cardinality(Slots) = BatchSize
  BY FS_Interval, DelaysAssumption
<1>10. IsFiniteSet(Senders \X Slots) /\ Cardinality(Senders \X Slots) = Cardinality(Senders) * Cardinality(Slots)
  BY <1>9, SendersAssumption, FS_Product
<1>11. Cardinality(Senders \X Slots) = Bound
  <2>1. Cardinality(Senders) \in Nat
    BY SendersAssumption, FS_CardinalityType
  <2>2. \A a, b \in Nat : a * b = b * a
    OBVIOUS
  <2>3. QED
    BY <1>9, <1>10, <2>1, <2>2, DelaysAssumption DEF Bound
<1>12. IsFiniteSet(Unposted(p)) /\ Cardinality(Unposted(p)) <= Cardinality(Senders \X Slots)
  BY <1>8, <1>10, FS_Injection
<1>13. QED
  BY <1>11, <1>12, FS_CardinalityType

LEMMA OverrunInit == Init => OverrunInv
<1> SUFFICES ASSUME Init
             PROVE  OverrunInv
  OBVIOUS
<1>1. PassesAreSmall
  BY FS_EmptySet, DelaysAssumption DEF Init, PassesAreSmall
<1>2. OverrunWasRead
  BY DEF Init, OverrunWasRead
<1>3. QED
  BY <1>1, <1>2 DEF OverrunInv

\* A step that neither reads nor posts, nor changes what is counted.
LEMMA OverrunQuiet ==
    ASSUME OverrunInv, UNCHANGED <<batch, suspended, overrun>>,
           \A p \in Peers : status'[p] = "removed" <=> status[p] = "removed"
    PROVE  OverrunInv'
<1>1. PassesAreSmall'
  BY DEF OverrunInv, PassesAreSmall
<1>2. \A p \in Peers : Unposted(p)' = Unposted(p)
  BY DEF Unposted
<1>3. OverrunWasRead'
  BY <1>2 DEF OverrunInv, OverrunWasRead, Bound
<1>4. QED
  BY <1>1, <1>3 DEF OverrunInv

LEMMA OverrunStartPass ==
    ASSUME TypeOK, OverrunInv, NEW s \in Senders, StartPass(s)
    PROVE  OverrunInv'
<1>1. PICK found \in DueDeliveries : batch' = [batch EXCEPT ![s] = found]
  BY DEF StartPass
<1>2. batch[s] = {} /\ UNCHANGED <<suspended, status, overrun>>
  BY DEF StartPass, peerVars, history
<1>3. found \subseteq Due /\ Cardinality(found) = Least(BatchSize, Cardinality(Due))
  BY DEF DueDeliveries
<1>4. IsFiniteSet(found) /\ Cardinality(found) <= BatchSize
  <2>1. IsFiniteSet(found) /\ Cardinality(Due) \in Nat
    BY <1>3, DueIsFinite, FS_Subset, FS_CardinalityType
  <2>2. QED
    BY <1>3, <2>1, DelaysAssumption DEF Least
<1>5. PassesAreSmall'
  BY <1>1, <1>4 DEF OverrunInv, PassesAreSmall, TypeOK
<1>6. ASSUME NEW p \in Peers, suspended[p]
      PROVE  Unposted(p)' = Unposted(p)
  <2>1. \A item \in found : item.peer # p
    BY <1>3, <1>6, DuePeerIsSentTo
  <2>2. ASSUME NEW x \in Senders \X Item
        PROVE  x[2] \in batch'[x[1]] /\ x[2].peer = p <=> x[2] \in batch[x[1]] /\ x[2].peer = p
    <3>1. CASE x[1] = s
      BY <1>1, <1>2, <2>1, <3>1 DEF TypeOK
    <3>2. CASE x[1] # s
      BY <1>1, <3>2 DEF TypeOK
    <3>3. QED
      BY <3>1, <3>2
  <2>3. QED
    BY <2>2 DEF Unposted
<1>7. OverrunWasRead'
  BY <1>2, <1>6 DEF OverrunInv, OverrunWasRead, Bound
<1>8. QED
  BY <1>5, <1>7 DEF OverrunInv

LEMMA OverrunPost ==
    ASSUME TypeOK, OverrunInv, NEW s \in Senders, Post(s)
    PROVE  OverrunInv'
<1>1. PICK item \in batch[s] :
        /\ batch' = [batch EXCEPT ![s] = @ \ {item}]
        /\ overrun' = IF suspended[item.peer]
                      THEN [overrun EXCEPT ![item.peer] = @ + 1] ELSE overrun
  BY DEF Post
<1>2. UNCHANGED <<suspended, status>> /\ item \in Item
  BY DEF Post, peerVars, TypeOK
<1>3. IsFiniteSet(batch[s]) /\ Cardinality(batch[s]) <= BatchSize
  BY DEF OverrunInv, PassesAreSmall
<1>4. IsFiniteSet(batch[s] \ {item}) /\ Cardinality(batch[s] \ {item}) <= BatchSize
  <2>1. IsFiniteSet(batch[s] \ {item}) /\ Cardinality(batch[s] \ {item}) <= Cardinality(batch[s])
    BY <1>3, FS_Subset
  <2>2. Cardinality(batch[s] \ {item}) \in Nat /\ Cardinality(batch[s]) \in Nat
    BY <1>3, <2>1, FS_CardinalityType
  <2>3. QED
    BY <1>3, <2>1, <2>2, DelaysAssumption
<1>5. PassesAreSmall'
  BY <1>1, <1>4 DEF OverrunInv, PassesAreSmall, TypeOK
<1>6. \A p \in Peers : Unposted(p)' = Unposted(p) \ {<<s, item>>}
  <2> SUFFICES ASSUME NEW p \in Peers, NEW x \in Senders \X Item
               PROVE  x[2] \in batch'[x[1]] <=> x[2] \in batch[x[1]] /\ x # <<s, item>>
    BY DEF Unposted
  <2>1. CASE x[1] = s
    BY <1>1, <2>1 DEF TypeOK
  <2>2. CASE x[1] # s
    BY <1>1, <2>2 DEF TypeOK
  <2>3. QED
    BY <2>1, <2>2
<1>7. ASSUME NEW p \in Peers
      PROVE  /\ ~suspended[p] /\ status[p] # "removed" => overrun'[p] = 0
             /\ status[p] = "removed" => ~suspended[p] /\ overrun'[p] <= Bound
             /\ suspended[p] => overrun'[p] + Cardinality(Unposted(p)') <= Bound
  <2>1. overrun'[p] = IF suspended[p] /\ p = item.peer THEN overrun[p] + 1 ELSE overrun[p]
    BY <1>1 DEF TypeOK
  <2>2. /\ IsFiniteSet(Unposted(p)) /\ Cardinality(Unposted(p)) \in Nat
        /\ overrun[p] \in Nat /\ Bound \in Nat
    BY UnpostedIsBounded, BoundIsNat DEF OverrunInv, TypeOK
  <2>3. <<s, item>> \in Unposted(p) <=> p = item.peer
    BY <1>2 DEF Unposted
  <2>4. Cardinality(Unposted(p) \ {<<s, item>>}) =
          IF p = item.peer THEN Cardinality(Unposted(p)) - 1 ELSE Cardinality(Unposted(p))
    BY <2>2, <2>3, FS_RemoveElement
  <2>5. Unposted(p)' = Unposted(p) \ {<<s, item>>}
    BY <1>6
  <2>6. suspended[p] => overrun[p] + Cardinality(Unposted(p)) <= Bound
    BY DEF OverrunInv, OverrunWasRead
  <2>7. suspended[p] => overrun'[p] + Cardinality(Unposted(p)') <= Bound
    BY <2>1, <2>2, <2>4, <2>5, <2>6
  <2>8. /\ ~suspended[p] /\ status[p] # "removed" => overrun[p] = 0
        /\ status[p] = "removed" => ~suspended[p] /\ overrun[p] <= Bound
    BY DEF OverrunInv, OverrunWasRead
  <2>9. QED
    BY <2>1, <2>7, <2>8
<1>8. OverrunWasRead'
  BY <1>2, <1>7 DEF OverrunWasRead, Bound
<1>9. QED
  BY <1>5, <1>8 DEF OverrunInv

LEMMA OverrunRecordPeer ==
    ASSUME TypeOK, OverrunInv, NEW s \in Senders, RecordPeer(s)
    PROVE  OverrunInv'
<1> DEFINE q == flight[s].peer
<1>1. UNCHANGED <<batch, status, overrun>> /\ status[q] # "removed"
  BY DEF RecordPeer
<1>2. \A p \in Peers : p # q => suspended'[p] = suspended[p]
  BY Zenon DEF RecordPeer, RecordDeliveryFailure, RecordDeliverySuccess, TypeOK
<1>3. q \in Peers /\ suspended[q] => suspended'[q]
  BY Zenon DEF RecordPeer, RecordDeliveryFailure, RecordDeliverySuccess, TypeOK
<1>4. PassesAreSmall'
  BY <1>1 DEF OverrunInv, PassesAreSmall
<1>5. ASSUME NEW p \in Peers
      PROVE  /\ ~suspended'[p] /\ status[p] # "removed" => overrun[p] = 0
             /\ status[p] = "removed" => ~suspended'[p] /\ overrun[p] <= Bound
             /\ suspended'[p] => overrun[p] + Cardinality(Unposted(p)) <= Bound
  <2>1. CASE suspended'[p] /\ ~suspended[p]
    <3>1. p = q /\ overrun[p] = 0
      BY <1>1, <1>2, <2>1 DEF OverrunInv, OverrunWasRead
    <3>2. QED
      BY <1>1, <2>1, <3>1, UnpostedIsBounded DEF OverrunInv
  <2>2. CASE ~suspended'[p] \/ suspended[p]
    BY <1>1, <1>2, <1>3, <2>2 DEF OverrunInv, OverrunWasRead
  <2>3. QED
    BY <2>1, <2>2
<1>6. \A p \in Peers : Unposted(p)' = Unposted(p)
  BY <1>1 DEF Unposted
<1>7. OverrunWasRead'
  BY <1>1, <1>5, <1>6 DEF OverrunWasRead, Bound
<1>8. QED
  BY <1>4, <1>7 DEF OverrunInv

LEMMA OverrunCrash ==
    ASSUME TypeOK, OverrunInv, NEW s \in Senders, CrashSender(s)
    PROVE  OverrunInv'
<1>1. batch' = [batch EXCEPT ![s] = {}] /\ UNCHANGED <<suspended, status, overrun>>
  BY DEF CrashSender, peerVars, history
<1>2. PassesAreSmall'
  BY <1>1, FS_EmptySet, DelaysAssumption DEF OverrunInv, PassesAreSmall, TypeOK
<1>3. ASSUME NEW p \in Peers
      PROVE  /\ Cardinality(Unposted(p)') \in Nat
             /\ Cardinality(Unposted(p)') <= Cardinality(Unposted(p))
  <2>1. Unposted(p)' \subseteq Unposted(p)
    BY <1>1 DEF Unposted, TypeOK
  <2>2. IsFiniteSet(Unposted(p))
    BY UnpostedIsBounded DEF OverrunInv
  <2>3. QED
    BY <2>1, <2>2, FS_Subset, FS_CardinalityType
<1>4. \A p \in Peers : Cardinality(Unposted(p)) \in Nat /\ overrun[p] \in Nat /\ Bound \in Nat
  BY UnpostedIsBounded, BoundIsNat DEF OverrunInv, TypeOK
<1>5. OverrunWasRead'
  BY <1>1, <1>3, <1>4 DEF OverrunInv, OverrunWasRead, Bound
<1>6. QED
  BY <1>2, <1>5 DEF OverrunInv

LEMMA OverrunAdmin ==
    ASSUME TypeOK, OverrunInv, NEW q \in Peers, Admin(q)
    PROVE  OverrunInv'
<1>1. CASE SetOutboundStatus(q)
  <2>1. \A p \in Peers : status'[p] = "removed" <=> status[p] = "removed"
    BY <1>1 DEF SetOutboundStatus, TypeOK
  <2>2. QED
    BY <1>1, <2>1, OverrunQuiet DEF SetOutboundStatus, senderVars, history
<1>2. ASSUME ResumePeer(q) \/ RemovePeer(q)
      PROVE  OverrunInv'
  <2>1. /\ UNCHANGED batch /\ suspended' = [suspended EXCEPT ![q] = FALSE]
        /\ status[q] # "removed"
    BY <1>2 DEF ResumePeer, RemovePeer, senderVars
  <2>2. /\ \/ status' = status /\ overrun' = [overrun EXCEPT ![q] = 0]
           \/ status' = [status EXCEPT ![q] = "removed"] /\ overrun' = overrun
    BY <1>2 DEF ResumePeer, RemovePeer, history
  <2>3. PassesAreSmall'
    BY <2>1 DEF OverrunInv, PassesAreSmall
  <2>4. \A p \in Peers : Unposted(p)' = Unposted(p)
    BY <2>1 DEF Unposted
  <2>5. ASSUME NEW p \in Peers, p # q
        PROVE  UNCHANGED <<suspended[p], status[p], overrun[p]>>
    BY <2>1, <2>2, <2>5 DEF TypeOK
  <2>6. ~suspended'[q] /\ (overrun'[q] = 0 \/ (status'[q] = "removed" /\ overrun'[q] = overrun[q]))
    BY <2>1, <2>2 DEF TypeOK
  <2>7. overrun[q] <= Bound
    BY <2>1, UnpostedIsBounded, BoundIsNat DEF OverrunInv, OverrunWasRead, TypeOK
  <2>8. OverrunWasRead'
    BY <2>4, <2>5, <2>6, <2>7, BoundIsNat DEF OverrunInv, OverrunWasRead, Bound
  <2>9. QED
    BY <2>3, <2>8 DEF OverrunInv
<1>3. QED
  BY <1>1, <1>2 DEF Admin

LEMMA OverrunStep == TypeOK /\ OverrunInv /\ [Next]_vars => OverrunInv'
<1> SUFFICES ASSUME TypeOK, OverrunInv, [Next]_vars
             PROVE  OverrunInv'
  OBVIOUS
<1>1. CASE UNCHANGED <<batch, suspended, overrun, status>>
  BY <1>1, OverrunQuiet
<1>2. ASSUME NEW e \in Events, PublishEvent(e) PROVE OverrunInv'
  BY <1>1, <1>2 DEF PublishEvent, peerVars, senderVars, history
<1>3. ASSUME NEW j \in jobs, EnqueueNext(j) \/ EnqueueFails(j) \/ CrashPublisher(j)
      PROVE  OverrunInv'
  BY <1>1, <1>3 DEF EnqueueNext, EnqueueFails, CrashPublisher, peerVars, senderVars, history
<1>4. ASSUME NEW s \in Senders, SenderStep(s) \/ CrashSender(s) PROVE OverrunInv'
  BY <1>1, <1>4, OverrunStartPass, OverrunPost, OverrunRecordPeer, OverrunCrash
     DEF SenderStep, Answer, RecordRow, RecordRowFails, RecordPeerFails, peerVars, history
<1>5. CASE Tick \/ UNCHANGED vars
  BY <1>1, <1>5 DEF Tick, vars, peerVars, senderVars, history
<1>6. QED
  BY <1>2, <1>3, <1>4, <1>5, OverrunAdmin DEF Next

\* Whatever the constants, the deliveries begun to a peer since its suspension
\* are no more than the passes under way could have read.
THEOREM SenderOverrunIsBounded == Spec => []BoundedOverrun
<1>1. TypeOK /\ OverrunInv => BoundedOverrun
  <2> SUFFICES ASSUME TypeOK, OverrunInv, NEW p \in Peers
               PROVE  overrun[p] <= Bound
    BY DEF BoundedOverrun, Bound
  <2>1. Cardinality(Unposted(p)) \in Nat /\ Bound \in Nat /\ overrun[p] \in Nat
    BY UnpostedIsBounded, BoundIsNat DEF OverrunInv, TypeOK
  <2>2. QED
    BY <2>1 DEF OverrunInv, OverrunWasRead
<1>2. QED
  BY <1>1, OverrunInit, OverrunStep, TypeInit, TypeStep, PTL DEF Spec

----------------------------------------------------------------------------
(* The composition *)

\* Every payload under way was signed by a PublishEvent call, and every request
\* carries one and is waited for by a sender or by nobody.
PayloadsKnown ==
    /\ \A e \in Events : published[e] \in 0..MaxPublishes
    /\ \A j \in jobs : j.payload \in Payloads
    /\ \A k \in Keys : box[k].id # 0 => box[k].payload \in Payloads
    /\ \A s \in Senders : \A item \in Held(s) : item.payload \in Payloads
WireInv == wire \subseteq Request
FedInv == TypeOK /\ PayloadsKnown /\ WireInv

----------------------------------------------------------------------------
(* Payloads *)

\* Steps that invent no payload.
LEMMA PayloadQuiet ==
    ASSUME TypeOK, PayloadsKnown,
           UNCHANGED published, jobs' \subseteq jobs,
           \A k \in Keys : box'[k].id # 0 => box[k].id # 0 /\ box'[k].payload = box[k].payload,
           \A s \in Senders : Held(s)' \subseteq Held(s)
    PROVE  PayloadsKnown'
  BY DEF PayloadsKnown

LEMMA PayloadPublish ==
    ASSUME TypeOK, PayloadsKnown, NEW e \in Events, PublishEvent(e)
    PROVE  PayloadsKnown'
<1>1. published[e] + 1 \in Payloads /\ published[e] \in Nat
  BY FreshnessAssumption DEF PublishEvent, TypeOK, Payloads
<1>2. UNCHANGED <<box, batch, flight, step>> /\ published' = [published EXCEPT ![e] = @ + 1]
  BY DEF PublishEvent, senderVars
<1>3. \A s \in Senders : Held(s)' = Held(s)
  BY <1>2 DEF Held
<1>4. \A j \in jobs' : j.payload \in Payloads
  BY <1>1 DEF PublishEvent, PayloadsKnown
<1>5. \A f \in Events : published'[f] \in 0..MaxPublishes
  BY <1>1, <1>2, FreshnessAssumption DEF PayloadsKnown, Payloads, TypeOK
<1>6. QED
  BY <1>2, <1>3, <1>4, <1>5 DEF PayloadsKnown

LEMMA PayloadEnqueue ==
    ASSUME TypeOK, PayloadsKnown, NEW j \in jobs, EnqueueNext(j)
    PROVE  PayloadsKnown'
<1>1. PICK p \in j.left : /\ EnqueueDelivery(p, j.event, j.payload)
                          /\ jobs' = (jobs \ {j}) \cup Rest(j, p)
                          /\ UNCHANGED <<batch, flight, step, published>>
  BY DEF EnqueueNext, senderVars
<1>2. \A i \in Rest(j, p) : i.payload = j.payload
  BY DEF Rest
<1>3. \A i \in jobs' : i.payload \in Payloads
  BY <1>1, <1>2 DEF PayloadsKnown
<1>4. \A s \in Senders : Held(s)' = Held(s)
  BY <1>1 DEF Held
<1>5. \A k \in Keys : box'[k].id # 0 => box'[k].payload \in Payloads
  <2>1. <<p, j.event>> \in Keys
    BY DEF TypeOK, Job, Keys
  <2>2. j.payload \in Payloads
    BY DEF PayloadsKnown
  <2>3. QED
    BY <1>1, <2>1, <2>2 DEF EnqueueDelivery, PayloadsKnown, TypeOK
<1>6. QED
  BY <1>1, <1>3, <1>4, <1>5 DEF PayloadsKnown

LEMMA PayloadSender ==
    ASSUME TypeOK, PayloadsKnown, NEW s \in Senders, SenderStep(s) \/ CrashSender(s)
    PROVE  PayloadsKnown'
<1>1. CASE StartPass(s)
  <2>1. \A t \in Senders : Held(t)' \subseteq Held(t) \cup Due
    BY <1>1 DEF StartPass, DueDeliveries, Held, TypeOK
  <2>2. \A item \in Due : item.payload \in Payloads
    BY DueIsItem DEF PayloadsKnown, Queued, Item, Keys
  <2>3. \A t \in Senders : \A item \in Held(t)' : item.payload \in Payloads
    BY <2>1, <2>2 DEF PayloadsKnown
  <2>4. UNCHANGED <<box, jobs, published>>
    BY <1>1 DEF StartPass, publisherVars
  <2>5. QED
    BY <2>3, <2>4 DEF PayloadsKnown
<1>2. CASE \/ Post(s) \/ RecordRowFails(s) \/ RecordPeer(s) \/ RecordPeerFails(s) \/ CrashSender(s)
           \/ \E o \in Outcomes : Answer(s, o)
  <2>1. UNCHANGED <<box, jobs, published>>
    BY <1>2 DEF Post, RecordRowFails, RecordPeer, RecordPeerFails, CrashSender, Answer, publisherVars
  <2>2. \A t \in Senders : Held(t)' \subseteq Held(t)
    <3>1. CASE Post(s)
      BY <3>1 DEF Post, Held, TypeOK
    <3>2. CASE RecordRowFails(s) \/ \E o \in Outcomes : Answer(s, o)
      BY <3>2 DEF RecordRowFails, Answer, Held, TypeOK
    <3>3. CASE RecordPeer(s) \/ RecordPeerFails(s)
      BY <3>3 DEF RecordPeer, RecordPeerFails, DoneWith, Held, TypeOK
    <3>4. CASE CrashSender(s)
      BY <3>4 DEF CrashSender, DoneWith, Held, TypeOK
    <3>5. QED
      BY <1>2, <3>1, <3>2, <3>3, <3>4
  <2>3. QED
    BY <2>1, <2>2, PayloadQuiet
<1>3. CASE RecordRow(s)
  <2>1. flight[s] \in Item /\ <<flight[s].peer, flight[s].event>> \in Keys /\ flight[s] \in Held(s)
    BY <1>3 DEF RecordRow, TypeOK, Held, Item, Keys
  <2>2. UNCHANGED <<jobs, published>> /\ \A t \in Senders : Held(t)' \subseteq Held(t)
    BY <1>3 DEF RecordRow, publisherVars, Held, TypeOK
  <2>3. \A k \in Keys : box'[k].id # 0 => box[k].id # 0 /\ box'[k].payload = box[k].payload
    <3>1. CASE MarkDelivered(flight[s])
      BY <2>1, <3>1 DEF MarkDelivered, WriteRow, TypeOK, NoRow
    <3>2. CASE DeferDelivery(flight[s])
      BY <2>1, <3>2 DEF DeferDelivery, WriteRow, TypeOK, Row
    <3>3. CASE MarkDeliveryFailed(flight[s])
      BY <2>1, <3>3 DEF MarkDeliveryFailed, WriteRow, TypeOK
    <3>4. QED
      BY <1>3, <3>1, <3>2, <3>3 DEF RecordRow
  <2>4. QED
    BY <2>2, <2>3, PayloadQuiet
<1>4. QED
  BY <1>1, <1>2, <1>3 DEF SenderStep

LEMMA PayloadStep ==
    ASSUME TypeOK, PayloadsKnown, [Next]_vars
    PROVE  PayloadsKnown'
<1>1. ASSUME NEW j \in jobs, EnqueueFails(j) \/ CrashPublisher(j)
      PROVE  PayloadsKnown'
  <2>1. jobs' \subseteq jobs /\ UNCHANGED <<box, batch, flight, step, published>>
    BY <1>1 DEF EnqueueFails, CrashPublisher, senderVars
  <2>2. QED
    BY <2>1, PayloadQuiet DEF Held
<1>2. ASSUME NEW p \in Peers, Admin(p)
      PROVE  PayloadsKnown'
  <2>1. UNCHANGED <<jobs, published, batch, flight, step>>
    BY <1>2 DEF Admin, SetOutboundStatus, ResumePeer, RemovePeer, senderVars, publisherVars
  <2>2. \A k \in Keys : box'[k].id # 0 => box[k].id # 0 /\ box'[k].payload = box[k].payload
    BY <1>2 DEF Admin, SetOutboundStatus, ResumePeer, RequeueAll, DueNow, RemovePeer, NoRow, TypeOK
  <2>3. QED
    BY <2>1, <2>2, PayloadQuiet DEF Held
<1>3. CASE Tick
  <2>1. UNCHANGED <<jobs, published, batch, flight, step>>
    BY <1>3 DEF Tick, senderVars, publisherVars
  <2>2. \A k \in Keys : box'[k].id = box[k].id /\ box'[k].payload = box[k].payload
    BY <1>3 DEF Tick, TypeOK, Row
  <2>3. QED
    BY <2>1, <2>2, PayloadQuiet DEF Held
<1>4. CASE UNCHANGED vars
  BY <1>4, PayloadQuiet DEF vars, senderVars, publisherVars, Held
<1>5. QED
  BY <1>1, <1>2, <1>3, <1>4, PayloadPublish, PayloadEnqueue, PayloadSender DEF Next

----------------------------------------------------------------------------
(* Steps *)

\* The steps of the origin alone.
LEMMA OriginStep ==
    ASSUME \/ \E e \in Events : PublishUpdate(e) \/ DeleteEvent(e) \/ DeleteGathering(e)
           \/ \E j \in jobs : Queue(j) \/ QueueEnds(j)
           \/ \E s \in Senders : Read(s) \/ Record(s)
           \/ \E p \in Peers : Administer(p)
           \/ PassTime
    PROVE  [Next]_vars /\ UNCHANGED <<wire, phase>>
<1>1. CASE \E e \in Events : PublishUpdate(e) \/ DeleteEvent(e) \/ DeleteGathering(e)
  BY <1>1 DEF PublishUpdate, DeleteEvent, DeleteGathering, Next, networkVars, peerSide
<1>2. CASE \E j \in jobs : Queue(j) \/ QueueEnds(j)
  BY <1>2 DEF Queue, QueueEnds, Next, networkVars, peerSide
<1>3. CASE \E s \in Senders : Read(s) \/ Record(s)
  BY <1>3 DEF Read, Record, SenderStep, Next, networkVars, peerSide
<1>4. CASE \E p \in Peers : Administer(p)
  BY <1>4 DEF Administer, Next, networkVars, peerSide
<1>5. CASE PassTime
  BY <1>5 DEF PassTime, Next, networkVars, peerSide
<1>6. QED
  BY <1>1, <1>2, <1>3, <1>4, <1>5

LEMMA PostStep ==
    ASSUME FedInv, NEW s \in Senders, PostRequest(s)
    PROVE  Next /\ WireInv' /\ UNCHANGED phase
<1>1. PICK item \in batch[s] : flight' = [flight EXCEPT ![s] = item]
  BY DEF PostRequest, Post
<1>2. flight'[s] = item /\ item \in Item /\ item \in Held(s)
  BY <1>1 DEF FedInv, TypeOK, Held
<1>3. KeyOf(item) \in Keys /\ item.payload \in Payloads
  BY <1>2 DEF FedInv, PayloadsKnown, KeyOf, Keys, Item
<1>4. wire' = wire \cup {[by |-> s, key |-> KeyOf(item), payload |-> item.payload, taken |-> FALSE]}
  BY <1>2 DEF PostRequest
<1>5. WireInv'
  <2>1. [by |-> s, key |-> KeyOf(item), payload |-> item.payload, taken |-> FALSE] \in Request
    BY <1>3 DEF Request
  <2>2. QED
    BY <1>4, <2>1 DEF FedInv, WireInv
<1>6. QED
  BY <1>5 DEF PostRequest, Next, SenderStep, peerSide

\* A sender that waits no longer leaves its request to itself.
LEMMA LeaveStep ==
    ASSUME FedInv, NEW s \in Senders, GiveUp(s) \/ StopSender(s)
    PROVE  Next /\ WireInv' /\ UNCHANGED phase
<1>1. \A r \in wire : r \in Request /\ [r EXCEPT !.by = Nobody] \in Request
  BY DEF FedInv, WireInv, Request
<1>2. CASE GiveUp(s)
  <2>1. Next /\ UNCHANGED phase
    BY <1>2 DEF GiveUp, Fault, Next, SenderStep, Outcomes, peerSide
  <2>2. WireInv'
    BY <1>1, <1>2 DEF GiveUp, WireInv
  <2>3. QED
    BY <2>1, <2>2
<1>3. CASE StopSender(s)
  <2>1. Next /\ UNCHANGED phase
    BY <1>3 DEF StopSender, Next, peerSide
  <2>2. WireInv'
    BY <1>1, <1>3 DEF StopSender, WireInv
  <2>3. QED
    BY <2>1, <2>2
<1>4. QED
  BY <1>2, <1>3

\* A request that is over is answered to its sender, or to nobody.
LEMMA BrokenAnswers ==
    ASSUME WireInv, NEW r \in wire, Broken(r)
    PROVE  [Next]_vars /\ WireInv'
<1>1. r.by \in Senders \cup {Nobody}
  BY DEF WireInv, Request
<1>2. r.by # Nobody => r.by \in Senders /\ Answer(r.by, "failed")
  BY <1>1 DEF Broken, Fault
<1>3. QED
  BY <1>2 DEF Broken, Next, SenderStep, Outcomes, WireInv

LEMMA OverAnswers ==
    ASSUME WireInv, NEW r \in wire, NEW o \in Outcomes, Over(r, o)
    PROVE  [Next]_vars /\ WireInv'
<1>1. CASE Broken(r)
  BY <1>1, BrokenAnswers
<1>2. CASE r.by # Nobody /\ wire' = wire \ {r} /\ Answer(r.by, o)
  <2>1. r.by \in Senders
    BY <1>2 DEF WireInv, Request
  <2>2. QED
    BY <1>2, <2>1 DEF Next, SenderStep, WireInv
<1>3. QED
  BY <1>1, <1>2 DEF Over

\* A peer's step answers at most its request's sender.
LEMMA ServeStep ==
    ASSUME FedInv, NEW r \in wire, Serve(r) \/ Lose(r)
    PROVE  [Next]_vars /\ WireInv'
<1>1. CASE TakeRequest(r)
  <2>1. UNCHANGED vars /\ wire' = (wire \ {r}) \cup {[r EXCEPT !.taken = TRUE]}
    BY <1>1 DEF TakeRequest
  <2>2. [r EXCEPT !.taken = TRUE] \in Request
    BY DEF FedInv, WireInv, Request
  <2>3. QED
    BY <2>1, <2>2 DEF FedInv, WireInv
<1>2. CASE \E o \in Outcomes : Over(r, o)
  BY <1>2, OverAnswers DEF FedInv
<1>3. CASE Broken(r)
  BY <1>3, BrokenAnswers DEF FedInv
<1>4. TakeRequest(r) \/ Broken(r) \/ \E o \in Outcomes : Over(r, o)
  <2>1. {"failed", "rateLimited", "accepted", "refused"} = Outcomes
    BY DEF Outcomes
  <2>2. QED
    BY <2>1 DEF Serve, Lose, RefuseRequest, RefuseForRate, StoreEvent, RejectEvent, RemoveEvent, FailRequest
<1>5. QED
  BY <1>1, <1>2, <1>3, <1>4

\* And it does with the envelope what an inbox does.
LEMMA ServeKeepsInbox ==
    ASSUME FedInv, NEW r \in wire, Serve(r) \/ Lose(r)
    PROVE  [InboxOf!Next]_phase
<1>1. Envelope(r) \in Keys \X Payloads
  BY DEF FedInv, WireInv, Request, Envelope
<1>2. \/ UNCHANGED phase
      \/ InboxOf!Take(Envelope(r)) \/ InboxOf!Apply(Envelope(r))
      \/ InboxOf!GiveBack(Envelope(r)) \/ InboxOf!Abandon(Envelope(r))
  BY DEF Serve, Lose, RefuseRequest, TakeRequest, RefuseForRate, StoreEvent, RejectEvent, RemoveEvent,
         FailRequest, Decide, peerSide
<1>3. QED
  BY <1>1, <1>2 DEF InboxOf!Next

LEMMA FedInit == FederationInit => FedInv /\ Init /\ InboxOf!Init
<1> SUFFICES ASSUME FederationInit
             PROVE  FedInv /\ Init /\ InboxOf!Init
  OBVIOUS
<1>1. Init /\ InboxOf!Init /\ WireInv
  BY DEF FederationInit, WireInv
<1>2. TypeOK
  BY <1>1, TypeInit
<1>3. PayloadsKnown
  BY <1>1, FreshnessAssumption DEF Init, PayloadsKnown, NoRow, Held
<1>4. QED
  BY <1>1, <1>2, <1>3 DEF FedInv

LEMMA FedStep ==
    ASSUME FedInv, [FederationNext]_fedVars
    PROVE  FedInv' /\ [Next]_vars /\ [InboxOf!Next]_phase
<1>1. [Next]_vars /\ WireInv' /\ [InboxOf!Next]_phase
  <2>1. CASE UNCHANGED fedVars
    BY <2>1 DEF fedVars, networkVars, peerSide, FedInv, WireInv
  <2>2. CASE \E r \in wire : Serve(r) \/ Lose(r)
    BY <2>2, ServeStep, ServeKeepsInbox
  <2>3. CASE \E s \in Senders : PostRequest(s) \/ GiveUp(s) \/ StopSender(s)
    BY <2>3, PostStep, LeaveStep
  <2>4. CASE \/ \E e \in Events : PublishUpdate(e) \/ DeleteEvent(e) \/ DeleteGathering(e)
             \/ \E j \in jobs : Queue(j) \/ QueueEnds(j)
             \/ \E s \in Senders : Read(s) \/ Record(s)
             \/ \E p \in Peers : Administer(p)
             \/ PassTime
    BY <2>4, OriginStep DEF FedInv, WireInv
  <2>5. QED
    BY <2>1, <2>2, <2>3, <2>4 DEF FederationNext, SenderTurn
<1>2. TypeOK'
  BY <1>1, TypeStep DEF FedInv
<1>3. PayloadsKnown'
  BY <1>1, PayloadStep DEF FedInv
<1>4. QED
  BY <1>1, <1>2, <1>3 DEF FedInv

\* Whatever the constants, the composition does nothing to the origin's queue,
\* its senders and its peer rows that FederationSender does not do.
THEOREM FederationIsSender == FederationSpec => Spec
<1>1. QED
  BY FedInit, FedStep, PTL DEF FederationSpec, Spec

\* Nor to an envelope at a peer that Inbox does not.
THEOREM FederationIsInbox == FederationSpec => InboxOf!Spec
<1>1. QED
  BY FedInit, FedStep, PTL DEF FederationSpec, InboxOf!Spec

\* So in the composition too a queued payload vanishes undecided only when it
\* was inserted over a row that a Sender had read, and a suspension takes a
\* whole window.
THEOREM FederationLosesOnlyOvertaken ==
    FederationSpec => []OnlyOvertakenIsLost /\ SuspendedOnlyAfterAWindow
<1>1. QED
  BY FederationIsSender, SenderLosesOnlyOvertaken, SenderSuspendsAfterAWindow, PTL

----------------------------------------------------------------------------
(* A payload is inserted once for a peer *)

\* What a waiting insert will queue is nowhere yet, and a row that is gone
\* holds nothing.
FreshFor(x, k) ==
    /\ x # queued[k] /\ x \notin answered[k] /\ x # box[k].payload
    /\ \A s \in Senders : \A item \in Held(s) : KeyOf(item) = k => item.payload # x
PayloadsAreFresh ==
    /\ \A j \in jobs : \A p \in j.left : FreshFor(j.payload, <<p, j.event>>)
    /\ \A p \in Peers, e \in Events : \A n \in Nat : n > published[e] => FreshFor(n, <<p, e>>)
    /\ \A k \in Keys : box[k].id = 0 => box[k].payload = 0

LEMMA FreshInit == Init => PayloadsAreFresh
  BY DEF Init, PayloadsAreFresh, FreshFor, NoRow, Held, Keys

\* What stays new for a row that nothing but old payloads comes to.
LEMMA FreshStays ==
    ASSUME NEW k, NEW x, FreshFor(x, k), queued'[k] = queued[k], box'[k].payload \in {box[k].payload, 0}, x # 0,
           \A y \in answered'[k] : y \in answered[k]
                \/ \E s \in Senders : \E item \in Held(s) : KeyOf(item) = k /\ y = item.payload,
           \A s \in Senders : \A item \in Held(s)' : item \in Held(s) \/ item.payload = box[KeyOf(item)].payload
    PROVE  FreshFor(x, k)'
<1>1. ASSUME NEW s \in Senders, NEW item \in Held(s)', KeyOf(item) = k
      PROVE  item.payload # x
  BY <1>1 DEF FreshFor
<1>2. x \notin answered'[k] /\ x # queued'[k] /\ x # box'[k].payload
  BY DEF FreshFor
<1>3. QED
  BY <1>1, <1>2 DEF FreshFor, KeyOf

\* Steps that queue nothing and call for nothing to be queued.
LEMMA FreshQuiet ==
    ASSUME TypeOK, PayloadsKnown, PayloadsAreFresh, UNCHANGED <<queued, published>>, jobs' \subseteq jobs,
           \A k \in Keys : box'[k].payload \in {box[k].payload, 0} /\ (box'[k].id = 0 => box'[k].payload = 0),
           \A k \in Keys : \A y \in answered'[k] : y \in answered[k]
                \/ \E s \in Senders : \E item \in Held(s) : KeyOf(item) = k /\ y = item.payload,
           \A s \in Senders : \A item \in Held(s)' : item \in Held(s) \/ item.payload = box[KeyOf(item)].payload
    PROVE  PayloadsAreFresh'
<1>1. ASSUME NEW j \in jobs', NEW p \in j.left
      PROVE  FreshFor(j.payload, <<p, j.event>>)'
  <2>1. j \in jobs /\ <<p, j.event>> \in Keys /\ j.payload # 0
    BY DEF TypeOK, Job, Keys, PayloadsKnown, Payloads
  <2>2. FreshFor(j.payload, <<p, j.event>>)
    BY <2>1 DEF PayloadsAreFresh
  <2>3. QED
    BY <2>1, <2>2, FreshStays
<1>2. ASSUME NEW p \in Peers, NEW e \in Events, NEW n \in Nat, n > published'[e]
      PROVE  FreshFor(n, <<p, e>>)'
  <2>1. <<p, e>> \in Keys /\ published[e] \in Nat /\ n > published[e] /\ n # 0
    BY <1>2 DEF TypeOK, Keys
  <2>2. FreshFor(n, <<p, e>>)
    BY <2>1 DEF PayloadsAreFresh
  <2>3. QED
    BY <2>1, <2>2, FreshStays
<1>3. QED
  BY <1>1, <1>2 DEF PayloadsAreFresh

LEMMA FreshPublish ==
    ASSUME TypeOK, PayloadsAreFresh, NEW e \in Events, PublishEvent(e)
    PROVE  PayloadsAreFresh'
<1>1. /\ UNCHANGED <<box, queued, answered, batch, flight, step>>
      /\ published' = [published EXCEPT ![e] = @ + 1]
      /\ jobs' = jobs \cup {[event |-> e, payload |-> published[e] + 1, left |-> OutboundPeers]}
  BY DEF PublishEvent, senderVars, history
<1>2. \A s \in Senders : Held(s)' = Held(s)
  BY <1>1 DEF Held
<1>3. \A x, k : FreshFor(x, k) => FreshFor(x, k)'
  BY <1>1, <1>2 DEF FreshFor
<1>4. /\ published[e] \in Nat /\ published[e] + 1 > published[e] /\ published[e] + 1 \in Nat
      /\ \A f \in Events : published[f] \in Nat /\ published'[f] >= published[f]
  BY <1>1 DEF TypeOK
<1>5. ASSUME NEW j \in jobs', NEW p \in j.left
      PROVE  FreshFor(j.payload, <<p, j.event>>)
  <2>1. CASE j \in jobs
    BY <2>1 DEF PayloadsAreFresh
  <2>2. CASE j = [event |-> e, payload |-> published[e] + 1, left |-> OutboundPeers]
    BY <1>4, <2>2 DEF PayloadsAreFresh, OutboundPeers
  <2>3. QED
    BY <1>1, <2>1, <2>2
<1>6. ASSUME NEW p \in Peers, NEW f \in Events, NEW n \in Nat, n > published'[f]
      PROVE  FreshFor(n, <<p, f>>)
  <2>1. published[f] \in Nat /\ published'[f] \in Nat /\ published'[f] >= published[f]
    BY <1>1, <1>4 DEF TypeOK
  <2>2. n > published[f]
    BY <1>6, <2>1
  <2>3. QED
    BY <2>2 DEF PayloadsAreFresh
<1>7. QED
  BY <1>1, <1>3, <1>5, <1>6 DEF PayloadsAreFresh

LEMMA FreshEnqueue ==
    ASSUME TypeOK, NoLossInv, PayloadsKnown, PayloadsAreFresh, NEW j \in jobs, EnqueueNext(j)
    PROVE  PayloadsAreFresh'
<1>1. PICK p \in j.left : /\ EnqueueDelivery(p, j.event, j.payload)
                          /\ jobs' = (jobs \ {j}) \cup Rest(j, p)
                          /\ UNCHANGED <<batch, flight, step, published, answered>>
  BY DEF EnqueueNext, senderVars
<1> DEFINE k0 == <<p, j.event>>
<1>2. /\ j \in Job /\ p \in Peers /\ j.event \in Events /\ k0 \in Keys
      /\ j.payload \in Nat /\ j.payload # 0 /\ j.payload <= published[j.event]
  BY DEF TypeOK, Job, Keys, NoLossInv, IdsAreFresh
<1>3. \A s \in Senders : Held(s)' = Held(s)
  BY <1>1 DEF Held
<1>4. /\ \A k \in Keys : k # k0 => box'[k] = box[k] /\ queued'[k] = queued[k]
      /\ box'[k0].payload = j.payload /\ queued'[k0] = j.payload /\ box'[k0].id # 0
  BY <1>1, <1>2 DEF EnqueueDelivery, TypeOK, Queued
<1>5. ASSUME NEW x, NEW k \in Keys, FreshFor(x, k), k = k0 => x # j.payload
      PROVE  FreshFor(x, k)'
  BY <1>1, <1>3, <1>4, <1>5 DEF FreshFor
<1>6. ASSUME NEW i \in jobs', NEW q \in i.left
      PROVE  FreshFor(i.payload, <<q, i.event>>)'
  <2>1. CASE i \in jobs /\ i # j
    <3>1. i.event = j.event => i.payload # j.payload
      BY <2>1 DEF NoLossInv, IdsAreFresh
    <3>2. <<q, i.event>> \in Keys /\ FreshFor(i.payload, <<q, i.event>>)
      BY <1>6, <2>1 DEF TypeOK, Job, Keys, PayloadsAreFresh
    <3>3. QED
      BY <1>5, <3>1, <3>2
  <2>2. CASE i \in Rest(j, p)
    <3>1. q \in j.left /\ q # p /\ i.event = j.event /\ i.payload = j.payload
      BY <1>2, <1>6, <2>2, RestIsShorter
    <3>2. <<q, i.event>> \in Keys /\ <<q, i.event>> # k0 /\ FreshFor(i.payload, <<q, i.event>>)
      BY <1>2, <3>1 DEF Job, Keys, PayloadsAreFresh
    <3>3. QED
      BY <1>5, <3>2
  <2>3. QED
    BY <1>1, <1>6, <2>1, <2>2
<1>7. ASSUME NEW q \in Peers, NEW f \in Events, NEW n \in Nat, n > published'[f]
      PROVE  FreshFor(n, <<q, f>>)'
  <2>1. <<q, f>> \in Keys /\ FreshFor(n, <<q, f>>) /\ published[f] \in Nat /\ n > published[f]
    BY <1>1, <1>7 DEF Keys, PayloadsAreFresh, TypeOK
  <2>2. <<q, f>> = k0 => n # j.payload
    BY <1>2, <2>1
  <2>3. QED
    BY <1>5, <2>1, <2>2
<1>8. \A k \in Keys : box'[k].id = 0 => box'[k].payload = 0
  BY <1>4 DEF PayloadsAreFresh
<1>9. QED
  BY <1>6, <1>7, <1>8 DEF PayloadsAreFresh

LEMMA FreshSender ==
    ASSUME TypeOK, NoLossInv, PayloadsKnown, PayloadsAreFresh, NEW s \in Senders, SenderStep(s) \/ CrashSender(s)
    PROVE  PayloadsAreFresh'
<1>1. CASE StartPass(s)
  <2>1. \A t \in Senders : Held(t)' \subseteq Held(t) \cup Due
    BY <1>1 DEF StartPass, DueDeliveries, Held, TypeOK
  <2>2. \A item \in Due : item.payload = box[KeyOf(item)].payload
    BY DueIsItem DEF KeyOf
  <2>3. UNCHANGED <<box, jobs, published, queued, answered>>
    BY <1>1 DEF StartPass, publisherVars, history
  <2>4. QED
    BY <2>1, <2>2, <2>3, FreshQuiet DEF PayloadsAreFresh
<1>2. CASE Post(s) \/ RecordRowFails(s) \/ RecordPeer(s) \/ RecordPeerFails(s) \/ CrashSender(s)
  <2>1. UNCHANGED <<box, jobs, published, queued, answered>>
    BY <1>2 DEF Post, RecordRowFails, RecordPeer, RecordPeerFails, CrashSender, publisherVars, history
  <2>2. \A t \in Senders : Held(t)' \subseteq Held(t)
    <3>1. CASE Post(s)
      BY <3>1 DEF Post, Held, TypeOK
    <3>2. CASE RecordRowFails(s)
      BY <3>2 DEF RecordRowFails, Held, TypeOK
    <3>3. CASE RecordPeer(s) \/ RecordPeerFails(s)
      BY <3>3 DEF RecordPeer, RecordPeerFails, DoneWith, Held, TypeOK
    <3>4. CASE CrashSender(s)
      BY <3>4 DEF CrashSender, DoneWith, Held, TypeOK
    <3>5. QED
      BY <1>2, <3>1, <3>2, <3>3, <3>4
  <2>3. QED
    BY <2>1, <2>2, FreshQuiet DEF PayloadsAreFresh
<1>3. ASSUME NEW o \in Outcomes, Answer(s, o)
      PROVE  PayloadsAreFresh'
  <2>1. UNCHANGED <<box, jobs, published, queued>> /\ \A t \in Senders : Held(t)' \subseteq Held(t)
    BY <1>3 DEF Answer, publisherVars, Held, TypeOK
  <2>2. flight[s] \in Held(s) /\ KeyOf(flight[s]) \in Keys
    BY <1>3 DEF Answer, Held, TypeOK, Item, Keys, KeyOf
  <2>3. \A k \in Keys : \A y \in answered'[k] : y \in answered[k] \/ (KeyOf(flight[s]) = k /\ y = flight[s].payload)
    BY <1>3, <2>2 DEF Answer, KeyOf, TypeOK
  <2>4. QED
    BY <2>1, <2>2, <2>3, FreshQuiet DEF PayloadsAreFresh
<1>4. CASE RecordRow(s)
  <2>1. flight[s] \in Item /\ <<flight[s].peer, flight[s].event>> \in Keys /\ flight[s].id # 0
    BY <1>4 DEF RecordRow, TypeOK, Held, Item, Keys, NoLossInv, IdsAreFresh
  <2>2. UNCHANGED <<jobs, published, queued, answered>> /\ \A t \in Senders : Held(t)' \subseteq Held(t)
    BY <1>4 DEF RecordRow, publisherVars, history, Held, TypeOK
  <2>3. \A k \in Keys : box'[k].payload \in {box[k].payload, 0} /\ (box'[k].id = 0 => box'[k].payload = 0)
    <3>1. CASE MarkDelivered(flight[s])
      BY <2>1, <3>1 DEF MarkDelivered, WriteRow, TypeOK, NoRow, PayloadsAreFresh
    <3>2. CASE DeferDelivery(flight[s])
      BY <2>1, <3>2 DEF DeferDelivery, WriteRow, TypeOK, Row, PayloadsAreFresh
    <3>3. CASE MarkDeliveryFailed(flight[s])
      BY <2>1, <3>3 DEF MarkDeliveryFailed, WriteRow, TypeOK, PayloadsAreFresh
    <3>4. QED
      BY <1>4, <3>1, <3>2, <3>3 DEF RecordRow
  <2>4. QED
    BY <2>2, <2>3, FreshQuiet
<1>5. QED
  BY <1>1, <1>2, <1>3, <1>4 DEF SenderStep

LEMMA FreshStep ==
    ASSUME TypeOK, NoLossInv, PayloadsKnown, PayloadsAreFresh, [Next]_vars
    PROVE  PayloadsAreFresh'
<1>1. ASSUME NEW j \in jobs, EnqueueFails(j) \/ CrashPublisher(j)
      PROVE  PayloadsAreFresh'
  <2>1. jobs' \subseteq jobs /\ UNCHANGED <<box, batch, flight, step, published, queued, answered>>
    BY <1>1 DEF EnqueueFails, CrashPublisher, senderVars, history
  <2>2. QED
    BY <2>1, FreshQuiet DEF Held, PayloadsAreFresh
<1>2. ASSUME NEW p \in Peers, Admin(p)
      PROVE  PayloadsAreFresh'
  <2>1. UNCHANGED <<jobs, published, batch, flight, step, queued, answered>>
    BY <1>2 DEF Admin, SetOutboundStatus, ResumePeer, RemovePeer, senderVars, publisherVars, history
  <2>2. \A k \in Keys : box'[k].payload \in {box[k].payload, 0} /\ (box'[k].id = 0 => box'[k].payload = 0)
    BY <1>2 DEF Admin, SetOutboundStatus, ResumePeer, RequeueAll, DueNow, RemovePeer, NoRow, TypeOK, PayloadsAreFresh
  <2>3. QED
    BY <2>1, <2>2, FreshQuiet DEF Held
<1>3. CASE Tick
  <2>1. UNCHANGED <<jobs, published, batch, flight, step, queued, answered>>
    BY <1>3 DEF Tick, senderVars, publisherVars
  <2>2. \A k \in Keys : box'[k].id = box[k].id /\ box'[k].payload = box[k].payload
    BY <1>3 DEF Tick, TypeOK, Row
  <2>3. QED
    BY <2>1, <2>2, FreshQuiet DEF Held, PayloadsAreFresh
<1>4. CASE UNCHANGED vars
  BY <1>4, FreshQuiet DEF vars, senderVars, publisherVars, history, Held, PayloadsAreFresh
<1>5. QED
  BY <1>1, <1>2, <1>3, <1>4, FreshPublish, FreshEnqueue, FreshSender DEF Next

----------------------------------------------------------------------------
(* A sender waits for one request, and that is the one it sent *)

WaitsForOne ==
    /\ \A r \in wire : r.by # Nobody =>
        step[r.by] = "posted" /\ r.key = KeyOf(flight[r.by]) /\ r.payload = flight[r.by].payload
    /\ \A r \in wire : \A t \in wire : r.by # Nobody /\ r.by = t.by => r = t
    /\ \A s \in Senders : step[s] = "posted" => \E r \in wire : r.by = s

\* Steps that send nothing, and change nothing of a sender that waits.
LEMMA WaitsQuiet ==
    ASSUME WireInv, WaitsForOne, wire' = wire,
           \A s \in Senders : step[s] = "posted" => step'[s] = "posted" /\ flight'[s] = flight[s],
           \A s \in Senders : step'[s] = "posted" => step[s] = "posted"
    PROVE  WaitsForOne'
<1>1. \A r \in wire : r.by # Nobody => r.by \in Senders
  BY DEF WireInv, Request
<1>2. QED
  BY <1>1 DEF WaitsForOne, KeyOf

LEMMA WaitsOrigin ==
    ASSUME FedInv, WaitsForOne,
           \/ \E e \in Events : PublishUpdate(e) \/ DeleteEvent(e) \/ DeleteGathering(e)
           \/ \E j \in jobs : Queue(j) \/ QueueEnds(j)
           \/ \E s \in Senders : Read(s) \/ Record(s)
           \/ \E p \in Peers : Administer(p)
           \/ PassTime
    PROVE  WaitsForOne'
<1>1. wire' = wire /\ WireInv /\ TypeOK
  BY OriginStep DEF FedInv
<1>2. CASE \/ \E e \in Events : PublishUpdate(e) \/ DeleteEvent(e) \/ DeleteGathering(e)
           \/ \E j \in jobs : Queue(j) \/ QueueEnds(j)
           \/ \E p \in Peers : Administer(p)
           \/ PassTime
  <2>1. UNCHANGED <<step, flight>>
    BY <1>2 DEF PublishUpdate, DeleteEvent, DeleteGathering, PublishEvent, Queue, QueueEnds, EnqueueNext,
                EnqueueFails, CrashPublisher, Administer, Admin, SetOutboundStatus, ResumePeer, RemovePeer,
                PassTime, Tick, senderVars, vars
  <2>2. QED
    BY <1>1, <2>1, WaitsQuiet
<1>3. ASSUME NEW s \in Senders, Read(s)
      PROVE  WaitsForOne'
  BY <1>1, <1>3, WaitsQuiet DEF Read, StartPass
<1>4. ASSUME NEW s \in Senders, Record(s)
      PROVE  WaitsForOne'
  <2>1. step[s] # "posted" /\ step'[s] # "posted" /\ \A t \in Senders : t # s => step'[t] = step[t] /\ flight'[t] = flight[t]
    BY <1>1, <1>4 DEF Record, RecordRow, RecordRowFails, RecordPeer, RecordPeerFails, DoneWith, TypeOK
  <2>2. QED
    BY <1>1, <2>1, WaitsQuiet
<1>5. QED
  BY <1>2, <1>3, <1>4

LEMMA WaitsPost ==
    ASSUME FedInv, WaitsForOne, NEW s \in Senders, PostRequest(s)
    PROVE  WaitsForOne'
<1> DEFINE new == [by |-> s, key |-> KeyOf(flight'[s]), payload |-> flight'[s].payload, taken |-> FALSE]
<1>1. /\ wire' = wire \cup {new} /\ step[s] = "ready" /\ step'[s] = "posted"
      /\ \A t \in Senders : t # s => step'[t] = step[t] /\ flight'[t] = flight[t]
  BY DEF PostRequest, Post, FedInv, TypeOK
<1>2. \A r \in wire : r.by # Nobody => r.by \in Senders /\ r.by # s
  BY <1>1 DEF WaitsForOne, FedInv, WireInv, Request
<1>3. new.by = s /\ new.key = KeyOf(flight'[s]) /\ new.payload = flight'[s].payload /\ s # Nobody
  BY FreshnessAssumption
<1> HIDE DEF new
<1>4. \A r \in wire' : r.by # Nobody =>
        step'[r.by] = "posted" /\ r.key = KeyOf(flight'[r.by]) /\ r.payload = flight'[r.by].payload
  BY <1>1, <1>2, <1>3 DEF WaitsForOne, KeyOf
<1>5. \A r \in wire' : \A t \in wire' : r.by # Nobody /\ r.by = t.by => r = t
  BY <1>1, <1>2, <1>3 DEF WaitsForOne
<1>6. \A t \in Senders : step'[t] = "posted" => \E r \in wire' : r.by = t
  BY <1>1, <1>3 DEF WaitsForOne
<1>7. QED
  BY <1>4, <1>5, <1>6 DEF WaitsForOne, KeyOf

\* A request ends, or loses its sender: the sender waits no longer.
LEMMA WaitsEnd ==
    ASSUME FedInv, WaitsForOne, NEW r \in wire, UNCHANGED flight,
           wire' = wire \ {r} \/ \E t : t.by = Nobody /\ wire' = (wire \ {r}) \cup {t},
           IF r.by = Nobody THEN step' = step ELSE step' = [step EXCEPT ![r.by] = "answered"]
    PROVE  WaitsForOne'
<1>1. \A t \in wire' : t.by # Nobody => t \in wire /\ t # r /\ t.by \in Senders
  BY DEF FedInv, WireInv, Request
<1>2. \A t \in wire' : t.by # Nobody => t.by # r.by
  BY <1>1 DEF WaitsForOne
<1>3. \A s \in Senders : s # r.by => step'[s] = step[s]
  BY DEF FedInv, TypeOK
<1>4. \A t \in wire' : t.by # Nobody =>
        step'[t.by] = "posted" /\ t.key = KeyOf(flight'[t.by]) /\ t.payload = flight'[t.by].payload
  BY <1>1, <1>2, <1>3 DEF WaitsForOne
<1>5. \A t \in wire' : \A u \in wire' : t.by # Nobody /\ t.by = u.by => t = u
  BY <1>1 DEF WaitsForOne
<1>6. ASSUME NEW s \in Senders, step'[s] = "posted"
      PROVE  \E t \in wire' : t.by = s
  <2>1. s # r.by /\ step[s] = "posted"
    BY <1>3, <1>6, FreshnessAssumption DEF FedInv, TypeOK
  <2>2. QED
    BY <2>1 DEF WaitsForOne
<1>7. QED
  BY <1>4, <1>5, <1>6 DEF WaitsForOne, KeyOf

\* What a request that is over leaves behind: its own payload is the one that
\* was answered.
LEMMA OverEffect ==
    ASSUME FedInv, WaitsForOne, NEW r \in wire, NEW o \in Outcomes, Over(r, o)
    PROVE  /\ wire' = wire \ {r}
           /\ UNCHANGED <<box, status, jobs, published, queued, overtaken, tombs, raced, flight, batch, gone, age, late>>
           /\ IF r.by = Nobody THEN step' = step ELSE step' = [step EXCEPT ![r.by] = "answered"]
           /\ \A k \in Keys : answered'[k] \subseteq answered[k] \cup {r.payload}
           /\ \A k \in Keys : k # r.key \/ o \notin {"accepted", "refused"} => answered'[k] = answered[k]
<1>1. r.by # Nobody => /\ r.by \in Senders /\ r.key = <<flight[r.by].peer, flight[r.by].event>>
                       /\ r.payload = flight[r.by].payload
  BY DEF FedInv, WireInv, Request, WaitsForOne, KeyOf
<1>2. wire' = wire \ {r} /\ UNCHANGED <<tombs, raced, gone, age, late>>
  BY DEF Over, Broken, originSide
<1>3. CASE r.by = Nobody
  <2>1. UNCHANGED vars
    BY <1>3 DEF Over, Broken
  <2>2. QED
    BY <1>2, <1>3, <2>1 DEF vars, peerVars, publisherVars, senderVars, history
<1>4. CASE r.by # Nobody
  <2>1. Answer(r.by, "failed") \/ Answer(r.by, o)
    BY <1>4 DEF Over, Broken, Fault
  <2>2. /\ UNCHANGED <<box, status, jobs, published, queued, overtaken, flight, batch>>
        /\ step' = [step EXCEPT ![r.by] = "answered"]
    BY <2>1 DEF Answer, peerVars, publisherVars
  <2>3. /\ \A k \in Keys : answered'[k] \subseteq answered[k] \cup {r.payload}
        /\ \A k \in Keys : k # r.key \/ o \notin {"accepted", "refused"} => answered'[k] = answered[k]
    <3>1. CASE answered' = answered
      BY <3>1
    <3>2. CASE answered' = [answered EXCEPT ![r.key] = @ \cup {r.payload}] /\ o \in {"accepted", "refused"}
      BY <3>2 DEF FedInv, TypeOK
    <3>3. QED
      BY <1>1, <1>4, <2>1, <3>1, <3>2 DEF Answer
  <2>4. QED
    BY <1>2, <1>4, <2>2, <2>3
<1>5. QED
  BY <1>3, <1>4

LEMMA BrokenIsOver ==
    ASSUME NEW r \in wire, Broken(r)
    PROVE  Over(r, "failed")
  BY DEF Over

\* Every step of a peer's but one ends a request.
LEMMA ServeEnds ==
    ASSUME NEW r \in wire, Serve(r) \/ Lose(r)
    PROVE  TakeRequest(r) \/ \E o \in Outcomes : Over(r, o)
<1>1. {"failed", "rateLimited", "accepted", "refused"} = Outcomes
  BY DEF Outcomes
<1>2. QED
  BY <1>1, BrokenIsOver DEF Serve, Lose, RefuseRequest, RefuseForRate, StoreEvent, RejectEvent, RemoveEvent, FailRequest

LEMMA WaitsTake ==
    ASSUME FedInv, WaitsForOne, NEW r \in wire, TakeRequest(r)
    PROVE  WaitsForOne'
<1> DEFINE taken == [r EXCEPT !.taken = TRUE]
<1>1. /\ wire' = (wire \ {r}) \cup {taken} /\ UNCHANGED <<step, flight>>
  BY DEF TakeRequest, vars, senderVars
<1>2. taken.by = r.by /\ taken.key = r.key /\ taken.payload = r.payload
  BY DEF FedInv, WireInv, Request
<1> HIDE DEF taken
<1>3. \A t \in wire' : t.by # Nobody =>
        step[t.by] = "posted" /\ t.key = KeyOf(flight[t.by]) /\ t.payload = flight[t.by].payload
  BY <1>1, <1>2 DEF WaitsForOne
<1>4. \A t \in wire' : \A u \in wire' : t.by # Nobody /\ t.by = u.by => t = u
  BY <1>1, <1>2 DEF WaitsForOne
<1>5. \A s \in Senders : step[s] = "posted" => \E t \in wire' : t.by = s
  BY <1>1, <1>2 DEF WaitsForOne
<1>6. QED
  BY <1>1, <1>3, <1>4, <1>5 DEF WaitsForOne, KeyOf

LEMMA WaitsLeave ==
    ASSUME FedInv, WaitsForOne, NEW s \in Senders, GiveUp(s) \/ StopSender(s)
    PROVE  WaitsForOne'
<1>1. CASE GiveUp(s)
  <2>1. PICK r \in wire : r.by = s /\ wire' = (wire \ {r}) \cup {[r EXCEPT !.by = Nobody]}
    BY <1>1 DEF GiveUp
  <2>2. UNCHANGED flight /\ step' = [step EXCEPT ![s] = "answered"] /\ s # Nobody
    BY <1>1, FreshnessAssumption DEF GiveUp, Fault, Answer
  <2>3. [r EXCEPT !.by = Nobody].by = Nobody
    BY DEF FedInv, WireInv, Request
  <2>4. QED
    BY <2>1, <2>2, <2>3, WaitsEnd
<1>2. CASE StopSender(s)
  <2>1. /\ wire' = {IF r.by = s THEN [r EXCEPT !.by = Nobody] ELSE r : r \in wire}
        /\ step'[s] = "ready"
        /\ \A t \in Senders : t # s => step'[t] = step[t] /\ flight'[t] = flight[t]
    BY <1>2 DEF StopSender, CrashSender, DoneWith, FedInv, TypeOK
  <2>2. \A r \in wire : r.by = s => [r EXCEPT !.by = Nobody].by = Nobody
    BY DEF FedInv, WireInv, Request
  <2>3. \A t \in wire' : t.by # Nobody => t \in wire /\ t.by # s /\ t.by \in Senders
    BY <2>1, <2>2 DEF FedInv, WireInv, Request
  <2>4. \A t \in wire : t.by # s => t \in wire'
    BY <2>1
  <2>5. /\ \A t \in wire' : t.by # Nobody =>
            step'[t.by] = "posted" /\ t.key = KeyOf(flight'[t.by]) /\ t.payload = flight'[t.by].payload
        /\ \A t \in wire' : \A u \in wire' : t.by # Nobody /\ t.by = u.by => t = u
    BY <2>1, <2>3 DEF WaitsForOne
  <2>6. \A t \in Senders : step'[t] = "posted" => \E r \in wire' : r.by = t
    BY <2>1, <2>4 DEF WaitsForOne
  <2>7. QED
    BY <2>5, <2>6 DEF WaitsForOne, KeyOf
<1>3. QED
  BY <1>1, <1>2

LEMMA WaitsInit == FederationInit => WaitsForOne
  BY DEF FederationInit, Init, WaitsForOne

LEMMA WaitsStep ==
    ASSUME FedInv, WaitsForOne, [FederationNext]_fedVars
    PROVE  WaitsForOne'
<1>1. CASE UNCHANGED fedVars
  BY <1>1, WaitsQuiet DEF fedVars, networkVars, vars, senderVars, FedInv
<1>2. ASSUME NEW r \in wire, Serve(r) \/ Lose(r)
      PROVE  WaitsForOne'
  <2>1. CASE TakeRequest(r)
    BY <2>1, WaitsTake
  <2>2. ASSUME NEW o \in Outcomes, Over(r, o)
        PROVE  WaitsForOne'
    BY <2>2, OverEffect, WaitsEnd
  <2>3. QED
    BY <1>2, <2>1, <2>2, ServeEnds
<1>3. ASSUME NEW s \in Senders, PostRequest(s) \/ GiveUp(s) \/ StopSender(s)
      PROVE  WaitsForOne'
  BY <1>3, WaitsPost, WaitsLeave
<1>4. CASE \/ \E e \in Events : PublishUpdate(e) \/ DeleteEvent(e) \/ DeleteGathering(e)
           \/ \E j \in jobs : Queue(j) \/ QueueEnds(j)
           \/ \E s \in Senders : Read(s) \/ Record(s)
           \/ \E p \in Peers : Administer(p)
           \/ PassTime
  BY <1>4, WaitsOrigin
<1>5. QED
  BY <1>1, <1>2, <1>3, <1>4 DEF FederationNext, SenderTurn

----------------------------------------------------------------------------
(* Types *)

OriginType ==
    /\ gone \subseteq Events
    /\ tombs \subseteq Events \X Payloads
    /\ age \in [Events \X Payloads -> 0..FreshnessWindow + 1]
    /\ late \in 0..MaxLate
PeerType ==
    /\ phase \in [Keys \X Payloads -> {"new", "working", "applied", "abandoned"}]
    /\ held \subseteq Keys
    /\ decided \in [Keys -> 0..MaxPublishes]
RacedType == raced \in [Keys -> BOOLEAN]
FedTypes == OriginType /\ PeerType /\ RacedType

LEMMA FedTypesInit == FederationInit => FedTypes
<1> SUFFICES ASSUME FederationInit
             PROVE  FedTypes
  OBVIOUS
<1>1. OriginType /\ RacedType
  BY FreshnessAssumption DEF FederationInit, OriginType, RacedType
<1>2. PeerType
  BY FreshnessAssumption DEF FederationInit, InboxOf!Init, PeerType
<1>3. QED
  BY <1>1, <1>2 DEF FedTypes

LEMMA OriginTypeStep ==
    ASSUME TypeOK, OriginType, [FederationNext]_fedVars
    PROVE  OriginType'
<1>1. CASE \E e \in Events : DeleteEvent(e)
  <2>1. PICK e \in Events : DeleteEvent(e)
    BY <1>1
  <2>2. gone' \subseteq Events /\ UNCHANGED <<age, late>>
    BY <2>1 DEF DeleteEvent, OriginType, networkVars
  <2>3. tombs' \subseteq Events \X Payloads
    <3>1. CASE UNCHANGED tombs
      BY <3>1 DEF OriginType
    <3>2. CASE PublishEvent(e) /\ tombs' = tombs \cup {<<e, published[e] + 1>>}
      <4>1. published[e] + 1 \in Payloads
        BY <3>2, FreshnessAssumption DEF PublishEvent, TypeOK, Payloads
      <4>2. QED
        BY <3>2, <4>1 DEF OriginType
    <3>3. QED
      BY <2>1, <3>1, <3>2 DEF DeleteEvent
  <2>4. QED
    BY <2>2, <2>3 DEF OriginType
<1>2. CASE PassTime
  <2>1. UNCHANGED <<gone, tombs, late>>
    BY <1>2 DEF PassTime, originSide, networkVars
  <2>2. age' \in [Events \X Payloads -> 0..FreshnessWindow + 1]
    BY <1>2, FreshnessAssumption DEF PassTime, OriginType, Least
  <2>3. QED
    BY <2>1, <2>2 DEF OriginType
<1>3. CASE \E s \in Senders : GiveUp(s)
  BY <1>3, FreshnessAssumption DEF GiveUp, OriginType, originSide
<1>4. CASE \E e \in Events : PublishUpdate(e) \/ DeleteGathering(e)
  BY <1>4 DEF PublishUpdate, DeleteGathering, OriginType, originSide, networkVars
<1>5. CASE \/ \E j \in jobs : Queue(j) \/ QueueEnds(j)
           \/ \E s \in Senders : SenderTurn(s) \/ StopSender(s)
           \/ \E p \in Peers : Administer(p)
           \/ UNCHANGED fedVars
  BY <1>5 DEF Queue, QueueEnds, SenderTurn, Read, PostRequest, Record, StopSender, Administer, fedVars,
              OriginType, originSide, networkVars
<1>6. CASE \E r \in wire : Serve(r) \/ Lose(r)
  <2>1. UNCHANGED <<gone, tombs, age, late>>
    BY <1>6 DEF Serve, Lose, RefuseRequest, TakeRequest, RefuseForRate, StoreEvent, RejectEvent, RemoveEvent,
                FailRequest, Over, Broken, originSide
  <2>2. QED
    BY <2>1 DEF OriginType
<1>7. QED
  BY <1>1, <1>2, <1>3, <1>4, <1>5, <1>6 DEF FederationNext

LEMMA PeerTypeStep ==
    ASSUME FedInv, PeerType, [FederationNext]_fedVars
    PROVE  PeerType'
<1>1. phase' \in [Keys \X Payloads -> {"new", "working", "applied", "abandoned"}]
  BY FedStep DEF InboxOf!Next, InboxOf!Take, InboxOf!Apply, InboxOf!GiveBack, InboxOf!Abandon, PeerType
<1>2. CASE \E r \in wire : Serve(r) \/ Lose(r)
  <2>1. PICK r \in wire : Serve(r) \/ Lose(r)
    BY <1>2
  <2>2. r.key \in Keys /\ r.payload \in 0..MaxPublishes
    BY FreshnessAssumption DEF FedInv, WireInv, Request, Payloads
  <2>3. decided' = decided \/ decided' = [decided EXCEPT ![r.key] = r.payload]
    BY <2>1 DEF Serve, Lose, RefuseRequest, TakeRequest, RefuseForRate, StoreEvent, RejectEvent, RemoveEvent,
                FailRequest, Decide, peerSide
  <2>4. held' \subseteq held \cup {r.key}
    BY <2>1 DEF Serve, Lose, RefuseRequest, TakeRequest, RefuseForRate, StoreEvent, RejectEvent, RemoveEvent,
                FailRequest, peerSide
  <2>5. QED
    BY <1>1, <2>2, <2>3, <2>4 DEF PeerType
<1>3. CASE ~ \E r \in wire : Serve(r) \/ Lose(r)
  <2>1. UNCHANGED <<held, decided>>
    BY <1>3 DEF FederationNext, PublishUpdate, DeleteEvent, DeleteGathering, Queue, QueueEnds, SenderTurn, Read,
                PostRequest, Record, GiveUp, StopSender, Administer, PassTime, fedVars, peerSide
  <2>2. QED
    BY <1>1, <2>1 DEF PeerType
<1>4. QED
  BY <1>2, <1>3

\* Only an insert clears what a race has set.
LEMMA RacedStep ==
    ASSUME FedInv, RacedType, [FederationNext]_fedVars
    PROVE  /\ RacedType'
           /\ \/ UNCHANGED raced
              \/ \E j \in jobs : Queue(j)
              \/ \E s \in Senders : PostRequest(s)
<1>1. CASE \E j \in jobs : Queue(j)
  BY <1>1 DEF Queue, RacedType
<1>2. CASE \E s \in Senders : PostRequest(s)
  BY <1>2 DEF PostRequest, RacedType
<1>3. CASE ~(\E j \in jobs : Queue(j)) /\ ~ \E s \in Senders : PostRequest(s)
  <2>1. CASE \E r \in wire : Serve(r) \/ Lose(r)
    BY <2>1, ServeEnds DEF TakeRequest, Over, Broken, RacedType
  <2>2. CASE ~ \E r \in wire : Serve(r) \/ Lose(r)
    <3>1. UNCHANGED raced
      BY <1>3, <2>2 DEF FederationNext, PublishUpdate, DeleteEvent, DeleteGathering, QueueEnds, SenderTurn, Read,
                Record, GiveUp, StopSender, Administer, PassTime, fedVars, networkVars
    <3>2. QED
      BY <3>1 DEF RacedType
  <2>3. QED
    BY <2>1, <2>2
<1>4. QED
  BY <1>1, <1>2, <1>3

LEMMA FedTypesStep ==
    ASSUME FedInv, FedTypes, [FederationNext]_fedVars
    PROVE  FedTypes'
  BY OriginTypeStep, PeerTypeStep, RacedStep DEF FedInv, FedTypes

\* Whatever the constants, every variable of the journey holds what it can
\* hold, and a sender waits exactly when a request of its own is out.
THEOREM FederationKeepsTypes == FederationSpec => []FederationTypeOK
<1>1. FederationInit => FedInv /\ WaitsForOne /\ FedTypes
  BY FedInit, WaitsInit, FedTypesInit
<1>2. FedInv /\ WaitsForOne /\ FedTypes /\ [FederationNext]_fedVars => (FedInv /\ WaitsForOne /\ FedTypes)'
  BY FedStep, WaitsStep, FedTypesStep
<1>3. FedInv /\ WaitsForOne /\ FedTypes => FederationTypeOK
  <2> SUFFICES ASSUME FedInv, WaitsForOne, FedTypes
               PROVE  FederationTypeOK
    OBVIOUS
  <2>1. \A s \in Senders : step[s] = "posted" <=> \E r \in wire : r.by = s
    BY FreshnessAssumption DEF WaitsForOne
  <2>2. QED
    BY <2>1 DEF FedInv, WireInv, FedTypes, OriginType, PeerType, RacedType, FederationTypeOK
<1>4. QED
  BY <1>1, <1>2, <1>3, PTL DEF FederationSpec

----------------------------------------------------------------------------
(* The final state is kept *)

\* The inductive strengthening of FinalStateIsKept. Unless the last payload
\* queued met an older one, no request for the key carries anything else, so
\* once it is answered the peer's last decision was on it.
Shown(k) == <<k[2], queued[k]>> \in tombs => k \notin held
Kept(k) == ~raced[k] =>
    /\ \A r \in wire : r.key = k => r.payload = queued[k]
    /\ queued[k] # 0 /\ queued[k] \in answered[k] => decided[k] = queued[k] /\ Shown(k)
KeptInv == \A k \in Keys : Kept(k)

\* The sender's invariants and those of this module.
JourneyInv ==
    /\ FedInv /\ NoLossInv /\ PayloadsAreFresh /\ WaitsForOne /\ FedTypes

\* Steps that bring the key no request, decision or answer.
LEMMA KeptQuiet ==
    ASSUME NEW k, Kept(k), UNCHANGED <<queued, decided>>, raced[k] => raced'[k],
           \A r \in wire' : r.key = k => \E t \in wire : t.key = k /\ t.payload = r.payload,
           queued[k] \in answered'[k] => queued[k] \in answered[k],
           k \in held' => k \in held,
           <<k[2], queued[k]>> \in tombs' => <<k[2], queued[k]>> \in tombs
    PROVE  Kept(k)'
  BY DEF Kept, Shown

LEMMA KeptQueue ==
    ASSUME JourneyInv, KeptInv, NEW j \in jobs, Queue(j)
    PROVE  KeptInv'
<1>1. PICK p \in j.left : /\ EnqueueDelivery(p, j.event, j.payload)
                          /\ UNCHANGED answered
  BY DEF Queue, EnqueueNext
<1> DEFINE k0 == <<p, j.event>>
<1>2. k0 \in Keys /\ j.payload \notin answered[k0] /\ j.payload # queued[k0]
  BY DEF JourneyInv, FedInv, TypeOK, Job, Keys, PayloadsAreFresh, FreshFor
<1>3. queued' = [queued EXCEPT ![k0] = j.payload] /\ queued \in [Keys -> Nat]
  BY <1>1 DEF EnqueueDelivery, JourneyInv, FedInv, TypeOK
<1>4. /\ UNCHANGED <<wire, held, decided, tombs>>
      /\ \A k \in Keys : raced'[k] = IF queued'[k] # queued[k] THEN \E r \in wire : r.key = k ELSE raced[k]
  BY DEF Queue, peerSide, originSide
<1>5. ASSUME NEW k \in Keys, k # k0
      PROVE  Kept(k)'
  BY <1>1, <1>3, <1>4, <1>5 DEF KeptInv, Kept, Shown
<1>6. Kept(k0)'
  BY <1>1, <1>2, <1>3, <1>4 DEF Kept
<1>7. QED
  BY <1>5, <1>6 DEF KeptInv

LEMMA KeptPost ==
    ASSUME JourneyInv, KeptInv, NEW s \in Senders, PostRequest(s)
    PROVE  KeptInv'
<1>1. PICK item \in batch[s] : flight'[s] = item
  BY DEF PostRequest, Post, JourneyInv, FedInv, TypeOK
<1>key. PICK k0 : k0 = KeyOf(item)
  OBVIOUS
<1>2. k0 \in Keys /\ item.payload \in Payloads
  BY <1>1, <1>key DEF JourneyInv, FedInv, TypeOK, Item, KeyOf, Keys, PayloadsKnown, Held
<1>3. /\ wire' = wire \cup {[by |-> s, key |-> k0, payload |-> item.payload, taken |-> FALSE]}
      /\ UNCHANGED <<queued, answered, held, decided, tombs>>
      /\ raced' = [raced EXCEPT ![k0] = @ \/ item.payload # box[k0].payload
                                       \/ \E r \in wire : r.key = k0 /\ r.payload # item.payload]
  BY <1>1, <1>key DEF PostRequest, Post, peerSide, originSide
<1>race. /\ \A k \in Keys : k # k0 => raced'[k] = raced[k]
      /\ raced'[k0] <=> raced[k0] \/ item.payload # box[k0].payload
                               \/ \E r \in wire : r.key = k0 /\ r.payload # item.payload
  <2>1. raced \in [Keys -> BOOLEAN]
    BY DEF JourneyInv, FedTypes, RacedType
  <2>2. ASSUME NEW v, raced' = [raced EXCEPT ![k0] = v]
        PROVE  raced'[k0] = v /\ \A k \in Keys : k # k0 => raced'[k] = raced[k]
    BY <1>2, <2>1, <2>2
  <2> DEFINE met == raced[k0] \/ item.payload # box[k0].payload
                           \/ \E r \in wire : r.key = k0 /\ r.payload # item.payload
  <2>3. raced' = [raced EXCEPT ![k0] = met]
    BY <1>3, Zenon
  <2>4. raced'[k0] = met /\ \A k \in Keys : k # k0 => raced'[k] = raced[k]
    <3> HIDE DEF met
    <3>1. QED
      BY <2>2, <2>3
  <2>5. QED
    BY <2>4, Zenon
<1>4. ASSUME NEW k \in Keys, k # k0
      PROVE  Kept(k)'
  <2>1. \A r \in wire' : r.key = k => r \in wire
    BY <1>3, <1>4
  <2>2. QED
    BY <1>3, <1>4, <1>race, <2>1 DEF KeptInv, Kept, Shown
<1>5. ASSUME ~raced'[k0]
      PROVE  item.payload = queued[k0]
  <2>1. item.payload = box[k0].payload /\ item.payload # 0
    BY <1>2, <1>5, <1>race DEF Payloads
  <2>2. box[k0].id # 0
    BY <1>2, <2>1 DEF JourneyInv, PayloadsAreFresh
  <2>3. box[k0].payload = queued[k0]
    BY <1>2, <2>2 DEF JourneyInv, NoLossInv, RowIsLastQueued, Queued, Keys
  <2>4. QED
    BY <2>1, <2>3
<1>7. Kept(k0)'
  <2>1. \A r \in wire' : r.key = k0 => r \in wire \/ r.payload = item.payload
    BY <1>3
  <2>2. QED
    BY <1>2, <1>3, <1>5, <1>race, <2>1 DEF KeptInv, Kept, Shown
<1>8. QED
  BY <1>4, <1>7 DEF KeptInv

\* A tombstone's payload is newer than any that was queued.
LEMMA KeptDelete ==
    ASSUME JourneyInv, KeptInv, NEW e \in Events, DeleteEvent(e)
    PROVE  KeptInv'
<1>1. UNCHANGED <<queued, answered, raced, wire, held, decided>>
  BY DEF DeleteEvent, PublishEvent, networkVars, peerSide, vars, history
<1>2. ASSUME NEW k \in Keys
      PROVE  <<k[2], queued[k]>> \in tombs' => <<k[2], queued[k]>> \in tombs
  <2>1. PICK p \in Peers, f \in Events : k = <<p, f>>
    BY DEF Keys
  <2>2. published[e] \in Nat /\ published[e] + 1 \in Nat /\ published[e] + 1 > published[e]
    BY DEF JourneyInv, FedInv, TypeOK
  <2>3. f = e => queued[k] # published[e] + 1
    BY <2>1, <2>2 DEF JourneyInv, PayloadsAreFresh, FreshFor
  <2>4. QED
    BY <2>1, <2>3 DEF DeleteEvent
<1>3. QED
  BY <1>1, <1>2, KeptQuiet DEF KeptInv

\* A request is over, and the peer decides on it or not.
LEMMA KeptServe ==
    ASSUME JourneyInv, KeptInv, NEW r \in wire, Serve(r) \/ Lose(r)
    PROVE  KeptInv'
<1>1. CASE TakeRequest(r)
  <2>1. /\ UNCHANGED <<queued, answered, raced, held, decided, tombs>>
        /\ wire' = (wire \ {r}) \cup {[r EXCEPT !.taken = TRUE]}
    BY <1>1 DEF TakeRequest, vars, history, originSide
  <2>2. [r EXCEPT !.taken = TRUE].key = r.key /\ [r EXCEPT !.taken = TRUE].payload = r.payload
    BY DEF JourneyInv, FedInv, WireInv, Request
  <2>3. QED
    BY <2>1, <2>2, KeptQuiet DEF KeptInv
<1>2. ASSUME NEW o \in Outcomes, Over(r, o), UNCHANGED <<held, decided>>, o \notin {"accepted", "refused"}
      PROVE  KeptInv'
  <2>1. /\ wire' = wire \ {r} /\ UNCHANGED <<queued, raced, tombs>>
        /\ \A k \in Keys : answered'[k] = answered[k]
    BY <1>2, OverEffect DEF JourneyInv
  <2>2. QED
    BY <1>2, <2>1, KeptQuiet DEF KeptInv
<1>3. ASSUME NEW o \in Outcomes, Over(r, o), Decide(r),
             \/ ~IsTombstone(r) /\ held' \subseteq held \cup {r.key}
             \/ IsTombstone(r) /\ held' = held \ {r.key}
      PROVE  KeptInv'
  <2>1. /\ wire' = wire \ {r} /\ UNCHANGED <<queued, raced, tombs>>
        /\ \A k \in Keys : k # r.key => answered'[k] = answered[k]
    BY <1>3, OverEffect DEF JourneyInv
  <2>2. r.key \in Keys /\ decided' = [decided EXCEPT ![r.key] = r.payload] /\ decided \in [Keys -> 0..MaxPublishes]
    BY <1>3 DEF Decide, JourneyInv, FedInv, WireInv, Request, FedTypes, PeerType
  <2>3. ASSUME NEW k \in Keys, k # r.key
        PROVE  Kept(k)'
    BY <1>3, <2>1, <2>2, <2>3 DEF KeptInv, Kept, Shown
  <2>4. ~raced[r.key] => r.payload = queued[r.key]
    BY <2>2 DEF KeptInv, Kept
  <2>5. ~raced[r.key] => Shown(r.key)'
    BY <1>3, <2>1, <2>4 DEF Shown, IsTombstone
  <2>6. Kept(r.key)'
    BY <2>1, <2>2, <2>4, <2>5 DEF KeptInv, Kept
  <2>7. QED
    BY <2>3, <2>6 DEF KeptInv
<1>4. \/ TakeRequest(r)
      \/ \E o \in Outcomes : Over(r, o) /\ UNCHANGED <<held, decided>> /\ o \notin {"accepted", "refused"}
      \/ \E o \in Outcomes :
            /\ Over(r, o) /\ Decide(r)
            /\ \/ ~IsTombstone(r) /\ held' \subseteq held \cup {r.key}
               \/ IsTombstone(r) /\ held' = held \ {r.key}
  <2>1. {"failed", "rateLimited", "accepted", "refused"} = Outcomes
    BY DEF Outcomes
  <2>2. CASE RefuseRequest(r) \/ RefuseForRate(r) \/ FailRequest(r) \/ Lose(r)
    BY <2>1, <2>2, BrokenIsOver DEF RefuseRequest, RefuseForRate, FailRequest, Lose, peerSide
  <2>3. CASE StoreEvent(r) \/ RejectEvent(r)
    BY <2>1, <2>3 DEF StoreEvent, RejectEvent
  <2>4. CASE RemoveEvent(r)
    BY <2>1, <2>4 DEF RemoveEvent
  <2>5. QED
    BY <2>2, <2>3, <2>4 DEF Serve
<1>5. QED
  BY <1>1, <1>2, <1>3, <1>4

LEMMA KeptLeave ==
    ASSUME JourneyInv, KeptInv, NEW s \in Senders, GiveUp(s) \/ StopSender(s)
    PROVE  KeptInv'
<1>1. \A r \in wire : [r EXCEPT !.by = Nobody].key = r.key /\ [r EXCEPT !.by = Nobody].payload = r.payload
  BY DEF JourneyInv, FedInv, WireInv, Request
<1>2. UNCHANGED <<queued, answered, raced, held, decided, tombs>>
  <2>1. CASE GiveUp(s)
    BY <2>1 DEF GiveUp, Fault, Answer, originSide, peerSide
  <2>2. CASE StopSender(s)
    BY <2>2 DEF StopSender, CrashSender, history, originSide, peerSide
  <2>3. QED
    BY <2>1, <2>2
<1>3. \A r \in wire' : \E t \in wire : t.key = r.key /\ t.payload = r.payload
  <2>1. CASE GiveUp(s)
    BY <1>1, <2>1 DEF GiveUp
  <2>2. CASE StopSender(s)
    BY <1>1, <2>2 DEF StopSender
  <2>3. QED
    BY <2>1, <2>2
<1>4. QED
  BY <1>2, <1>3, KeptQuiet DEF KeptInv

LEMMA KeptElse ==
    ASSUME KeptInv,
           \/ \E e \in Events : PublishUpdate(e) \/ DeleteGathering(e)
           \/ \E j \in jobs : QueueEnds(j)
           \/ \E s \in Senders : Read(s) \/ Record(s)
           \/ \E p \in Peers : Administer(p)
           \/ PassTime
           \/ UNCHANGED fedVars
    PROVE  KeptInv'
<1>1. UNCHANGED <<queued, answered>>
  BY DEF PublishUpdate, PublishEvent, DeleteGathering, QueueEnds, EnqueueFails, CrashPublisher, Read, StartPass,
         Record, RecordRow, RecordRowFails, RecordPeer, RecordPeerFails, Administer, Admin, SetOutboundStatus,
         ResumePeer, RemovePeer, PassTime, Tick, fedVars, vars, history
<1>2. UNCHANGED <<raced, wire, held, decided, tombs>>
  BY DEF PublishUpdate, DeleteGathering, QueueEnds, Read, Record, Administer, PassTime, fedVars,
         networkVars, peerSide, originSide
<1>3. QED
  BY <1>1, <1>2, KeptQuiet DEF KeptInv

LEMMA KeptStep ==
    ASSUME JourneyInv, KeptInv, [FederationNext]_fedVars
    PROVE  KeptInv'
<1>1. CASE \E r \in wire : Serve(r) \/ Lose(r)
  BY <1>1, KeptServe
<1>2. CASE \E j \in jobs : Queue(j)
  BY <1>2, KeptQueue
<1>3. CASE \E s \in Senders : PostRequest(s)
  BY <1>3, KeptPost
<1>4. CASE \E s \in Senders : GiveUp(s) \/ StopSender(s)
  BY <1>4, KeptLeave
<1>5. CASE \E e \in Events : DeleteEvent(e)
  BY <1>5, KeptDelete
<1>6. CASE \/ \E e \in Events : PublishUpdate(e) \/ DeleteGathering(e)
           \/ \E j \in jobs : QueueEnds(j)
           \/ \E s \in Senders : Read(s) \/ Record(s)
           \/ \E p \in Peers : Administer(p)
           \/ PassTime
           \/ UNCHANGED fedVars
  BY <1>6, KeptElse
<1>7. QED
  BY <1>1, <1>2, <1>3, <1>4, <1>5, <1>6 DEF FederationNext, SenderTurn

LEMMA JourneyInit == FederationInit => JourneyInv /\ KeptInv
<1> SUFFICES ASSUME FederationInit
             PROVE  JourneyInv /\ KeptInv
  OBVIOUS
<1>1. JourneyInv
  BY FedInit, NoLossInit, FreshInit, WaitsInit, FedTypesInit DEF JourneyInv
<1>2. KeptInv
  BY DEF FederationInit, Init, KeptInv, Kept
<1>3. QED
  BY <1>1, <1>2

LEMMA JourneyStep ==
    ASSUME JourneyInv, [FederationNext]_fedVars
    PROVE  JourneyInv'
<1>1. FedInv' /\ [Next]_vars
  BY FedStep DEF JourneyInv
<1>2. NoLossInv' /\ PayloadsAreFresh'
  BY <1>1, NoLossStep, FreshStep DEF JourneyInv, FedInv
<1>3. WaitsForOne' /\ FedTypes'
  BY WaitsStep, FedTypesStep DEF JourneyInv
<1>4. QED
  BY <1>1, <1>2, <1>3 DEF JourneyInv

\* Whatever the constants: when the queue has nothing more to say of an event,
\* the peer's last decision about it was on the last payload queued, and it
\* does not show what was taken back, unless that payload replaced one a
\* sender had read or met an older one on its way.
THEOREM FederationKeepsFinalState == FederationSpec => []FinalStateIsKept
<1>1. JourneyInv /\ KeptInv /\ [FederationNext]_fedVars => JourneyInv' /\ KeptInv'
  BY JourneyStep, KeptStep
<1>2. JourneyInv /\ KeptInv => FinalStateIsKept
  <2> SUFFICES ASSUME JourneyInv, KeptInv, NEW k \in Keys, status[k[1]] # "removed", queued[k] # 0, Quiet(k),
                      ~overtaken[k], ~raced[k]
               PROVE  decided[k] = queued[k] /\ Shown(k)
    BY DEF FinalStateIsKept, Shown
  <2>1. PICK p \in Peers, e \in Events : k = <<p, e>>
    BY DEF Keys
  <2>2. queued[k] \in answered[k]
    BY <2>1 DEF JourneyInv, NoLossInv, OnlyOvertakenIsLost, Queued, Quiet
  <2>3. QED
    BY <2>2 DEF KeptInv, Kept
<1>3. QED
  BY <1>1, <1>2, JourneyInit, PTL DEF FederationSpec
=============================================================================
