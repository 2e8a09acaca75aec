-------------------------- MODULE Publishing_proofs --------------------------
(***************************************************************************)
(* An event that has started is frozen, and what was last queued of one is *)
(* what its row says, for every number of events, peers and calls.         *)
(***************************************************************************)
EXTENDS Publishing, TLAPS

\* What a call at each point has in hand.
LEMMA Shapes ==
    ASSUME TypeOK, NEW c \in Calls
    PROVE  /\ call[c].at = "insert" => call[c].starts \in Times
           /\ call[c].at = "update" => call[c].event \in Events /\ call[c].starts \in Times
           /\ call[c].at = "attend" => call[c].event \in Events /\ call[c].user \in Users
           /\ call[c].at = "delete" => call[c].event \in Events
           /\ call[c].at \in Queueing => call[c].event \in Events
           /\ call[c].at = "publish" =>
                call[c] \in [at : {"publish"}, event : Events, payload : Payload]
           /\ call[c].at = "decide" =>
                call[c] \in [at : {"decide"}, event : Events, payload : Times]
           /\ call[c].at = "peers" =>
                call[c] \in [at : {"peers"}, event : Events, payload : Payload]
           /\ call[c].at = "queue" =>
                call[c] \in [at : {"queue"}, event : Events, payload : Payload, left : SUBSET Peers]
  BY DEF TypeOK, Call, Idle, Queueing

----------------------------------------------------------------------------
(* Types *)

LEMMA TypeInit == Init => TypeOK
<1> SUFFICES ASSUME Init
             PROVE  TypeOK
  OBVIOUS
<1>1. Idle \in Call
  BY DEF Call
<1>2. now \in Times /\ here \in BOOLEAN /\ removed \in 0..MaxRemoved /\ faults \in 0..MaxFaults
  BY BoundsAssumption DEF Init, Times
<1>3. call \in [Calls -> Call] /\ event \in [Events -> Row \cup {NoEvent}] /\ made \subseteq Events
  BY <1>1 DEF Init
<1>4. queued \in [Peers -> [Events -> Payload \cup {Nothing}]]
  BY DEF Init
<1>5. \A p \in Peers \ peers, e \in Events : queued[p][e] = Nothing
  BY DEF Init
<1>6. \A e \in Events : event[e] # NoEvent => here /\ e \in made
  BY DEF Init
<1>7. peers \subseteq Peers /\ withheld \subseteq Events /\ tangled \subseteq Events /\ lost \subseteq Events
  BY DEF Init
<1>8. QED
  BY <1>2, <1>3, <1>4, <1>5, <1>6, <1>7 DEF TypeOK

\* A call begins, goes on or returns, and no row changes.
LEMMA TypeCall ==
    ASSUME TypeOK, NEW c \in Calls, NEW k \in Call, GoOn(c, k),
           UNCHANGED <<now, here, event, made, peers, queued, removed, tangled>>,
           faults' \in 0..MaxFaults, withheld' \subseteq Events, lost' \subseteq Events
    PROVE  TypeOK'
  BY DEF TypeOK, GoOn

\* A call writes a row that was there.
LEMMA TypeWrite ==
    ASSUME TypeOK, NEW c \in Calls, NEW k \in Call, GoOn(c, k),
           NEW e \in Events, event[e] # NoEvent, NEW r \in Row \cup {NoEvent},
           event' = [event EXCEPT ![e] = r],
           UNCHANGED <<now, here, made, peers, queued, bounds, withheld, lost>>,
           tangled' \subseteq Events
    PROVE  TypeOK'
  BY DEF TypeOK, GoOn, bounds

LEMMA TypeStep == TypeOK /\ [Next]_vars => TypeOK'
<1> SUFFICES ASSUME TypeOK, [Next]_vars
             PROVE  TypeOK'
  OBVIOUS
<1>0. Idle \in Call /\ Tombstone \in Payload /\ Times \subseteq Payload
  BY DEF Call, Payload
<1>1. ASSUME NEW c \in Calls, EventCall(c)
      PROVE  TypeOK'
  <2>0. ASSUME NEW k \in Call, Begin(c, k) \/ GoOn(c, k),
               UNCHANGED <<now, here, event, made, peers, queued, bounds, history>>
        PROVE  TypeOK'
    BY <2>0, TypeCall DEF Begin, GoOn, bounds, history, TypeOK
  <2>1. ASSUME NEW t \in Times, CreateEvent(c, t)
        PROVE  TypeOK'
    BY <2>0, <2>1 DEF CreateEvent, Call
  <2>2. ASSUME NEW e \in Events, NEW t \in Times, UpdateEvent(c, e, t)
        PROVE  TypeOK'
    BY <2>0, <2>2 DEF UpdateEvent, Call
  <2>3. ASSUME NEW e \in Events, InsertEvent(c, e)
        PROVE  TypeOK'
    <3>1. CASE ~here
      BY <1>0, <2>0, <2>3, <3>1 DEF InsertEvent, Return
    <3>2. CASE here
      <4> DEFINE r == [starts |-> call[c].starts, attendees |-> {}]
                 k == [at |-> "reread", event |-> e]
      <4>1. r \in Row /\ k \in Call
        BY <2>3, Shapes DEF InsertEvent, Row, Call
      <4>2. /\ event' = [event EXCEPT ![e] = r] /\ made' = made \cup {e}
            /\ call' = [call EXCEPT ![c] = k]
            /\ UNCHANGED <<now, here, peers, queued, removed, faults, withheld, tangled, lost>>
        BY <2>3, <3>2 DEF InsertEvent, GoOn, bounds, history
      <4>3. event' \in [Events -> Row \cup {NoEvent}] /\ call' \in [Calls -> Call]
        BY <4>1, <4>2 DEF TypeOK
      <4>4. \A x \in Events : event'[x] # NoEvent => here' /\ x \in made'
        BY <3>2, <4>2 DEF TypeOK
      <4>5. QED
        BY <4>2, <4>3, <4>4 DEF TypeOK
    <3>3. QED
      BY <3>1, <3>2
  <2>4. ASSUME NEW e \in Events, NEW admin \in BOOLEAN, DeleteEvent(c, e, admin)
        PROVE  TypeOK'
    BY <2>0, <2>4 DEF DeleteEvent, Call
  <2>5. ASSUME NEW e \in Events, NEW u \in Users, NEW coming \in BOOLEAN, Attend(c, e, u, coming)
        PROVE  TypeOK'
    BY <2>0, <2>5 DEF Attend, Call
  <2>6. CASE StoreEvent(c)
    <3> DEFINE e == call[c].event
               r == [event[e] EXCEPT !.starts = call[c].starts]
               k == [at |-> "reread", event |-> e]
    <3>1. e \in Events /\ call[c].starts \in Times /\ k \in Call
      BY <2>6, Shapes DEF StoreEvent, Call
    <3>2. CASE event[e] = NoEvent
      BY <1>0, <2>0, <2>6, <3>2 DEF StoreEvent, Return, history
    <3>3. CASE event[e] # NoEvent
      <4>1. r \in Row
        BY <3>1, <3>3 DEF TypeOK, Row
      <4>2. event' = [event EXCEPT ![e] = r] /\ GoOn(c, k) /\ tangled' \subseteq Events
        BY <2>6, <3>1, <3>3 DEF StoreEvent, Writes, TypeOK
      <4>3. QED
        BY <2>6, <3>1, <3>3, <4>1, <4>2, TypeWrite DEF StoreEvent
    <3>4. QED
      BY <3>2, <3>3
  <2>7. CASE RereadEvent(c)
    <3> DEFINE e == call[c].event
               k == [at |-> "publish", event |-> e, payload |-> event[e].starts]
    <3>1. CASE event[e] = NoEvent
      BY <1>0, <2>0, <2>7, <3>1 DEF RereadEvent, Return
    <3>2. CASE event[e] # NoEvent
      <4>1. e \in Events /\ event[e].starts \in Times
        BY <2>7, <3>2, Shapes DEF RereadEvent, Queueing, TypeOK, Row
      <4>2. k \in Call
        BY <4>1, <1>0 DEF Call
      <4>3. QED
        BY <2>0, <2>7, <3>2, <4>2 DEF RereadEvent
    <3>3. QED
      BY <3>1, <3>2
  <2>8. CASE RemoveEvent(c)
    <3> DEFINE e == call[c].event
               k == [at |-> "publish", event |-> e, payload |-> Tombstone]
    <3>1. e \in Events /\ k \in Call
      BY <1>0, <2>8, Shapes DEF RemoveEvent, Call
    <3>2. event' = [event EXCEPT ![e] = NoEvent] /\ GoOn(c, k) /\ tangled' \subseteq Events
      BY <2>8, <3>1 DEF RemoveEvent, Writes, TypeOK
    <3>3. \A x \in Events : event'[x] # NoEvent => event[x] # NoEvent
      BY <3>1, <3>2 DEF TypeOK
    <3>4. event' \in [Events -> Row \cup {NoEvent}] /\ call' \in [Calls -> Call]
      BY <3>1, <3>2 DEF TypeOK, GoOn
    <3>5. UNCHANGED <<now, here, made, peers, queued, bounds, withheld, lost>>
      BY <2>8 DEF RemoveEvent
    <3>6. QED
      BY <3>2, <3>3, <3>4, <3>5 DEF TypeOK, bounds
  <2>9. CASE MarkAttendance(c)
    <3> DEFINE e == call[c].event
               u == call[c].user
               r == [event[e] EXCEPT !.attendees = IF call[c].coming THEN @ \cup {u} ELSE @ \ {u}]
    <3>1. e \in Events /\ u \in Users
      BY <2>9, Shapes DEF MarkAttendance
    <3>2. CASE event[e] = NoEvent
      BY <1>0, <2>0, <2>9, <3>2 DEF MarkAttendance, Return
    <3>3. CASE event[e] # NoEvent
      <4>1. r \in Row
        BY <3>1, <3>3 DEF TypeOK, Row
      <4>2. event' = [event EXCEPT ![e] = r] /\ GoOn(c, Idle) /\ tangled' \subseteq Events
        BY <2>9, <3>1, <3>3 DEF MarkAttendance, Return, TypeOK, history
      <4>3. QED
        BY <1>0, <2>9, <3>1, <3>3, <4>1, <4>2, TypeWrite DEF MarkAttendance, history
    <3>4. QED
      BY <3>2, <3>3
  <2>10. QED
    BY <1>1, <2>1, <2>2, <2>3, <2>4, <2>5, <2>6, <2>7, <2>8, <2>9 DEF EventCall
<1>2. ASSUME NEW c \in Calls, Publish(c)
      PROVE  TypeOK'
  <2>1. CASE ReadGathering(c)
    <3> DEFINE p == call[c]
               news == p.payload # Tombstone
               k == [p EXCEPT !.at = IF news THEN "decide" ELSE "peers"]
    <3>1. p \in [at : {"publish"}, event : Events, payload : Payload]
      BY <2>1, Shapes DEF ReadGathering
    <3>2. k \in Call
      BY <3>1 DEF Call, Payload
    <3>3. GoOn(c, Idle) \/ GoOn(c, k)
      BY <2>1 DEF ReadGathering, Return
    <3>4. withheld' \subseteq Events /\ lost' \subseteq Events
      BY <2>1, <3>1 DEF ReadGathering, TypeOK
    <3>5. QED
      BY <1>0, <2>1, <3>2, <3>3, <3>4, TypeCall DEF ReadGathering, bounds, TypeOK
  <2>2. ASSUME NEW publishing \in BOOLEAN, Decide(c, publishing)
        PROVE  TypeOK'
    <3> DEFINE p == call[c]
               k == [p EXCEPT !.at = "peers"]
    <3>1. p \in [at : {"decide"}, event : Events, payload : Times]
      BY <2>2, Shapes DEF Decide
    <3>2. k \in Call
      BY <3>1, <1>0 DEF Call
    <3>3. GoOn(c, Idle) \/ GoOn(c, k)
      BY <2>2 DEF Decide, Return
    <3>4. withheld' \subseteq Events
      BY <2>2, <3>1 DEF Decide, TypeOK
    <3>5. QED
      BY <1>0, <2>2, <3>2, <3>3, <3>4, TypeCall DEF Decide, bounds, TypeOK
  <2>3. CASE OutboundPeers(c)
    <3> DEFINE k == [at |-> "queue", event |-> call[c].event, payload |-> call[c].payload,
                     left |-> peers]
    <3>1. k \in Call
      BY <2>3, Shapes DEF OutboundPeers, Call, TypeOK
    <3>2. GoOn(c, Idle) \/ GoOn(c, k)
      BY <2>3 DEF OutboundPeers, Return
    <3>3. QED
      BY <1>0, <2>3, <3>1, <3>2, TypeCall DEF OutboundPeers, bounds, history, TypeOK
  <2>4. ASSUME NEW p \in Peers, EnqueueDelivery(c, p)
        PROVE  TypeOK'
    <3> DEFINE e == call[c].event
               rest == call[c].left \ {p}
               k == IF rest = {} THEN Idle ELSE [call[c] EXCEPT !.left = rest]
    <3>1. call[c] \in [at : {"queue"}, event : Events, payload : Payload, left : SUBSET Peers]
      BY <2>4, Shapes DEF EnqueueDelivery
    <3>2. k \in Call
      BY <1>0, <3>1 DEF Call
    <3>3. CASE p \notin peers
      BY <1>0, <2>4, <3>1, <3>3, TypeCall DEF EnqueueDelivery, Return, bounds, TypeOK
    <3>4. CASE p \in peers
      <4>1. /\ queued' = [queued EXCEPT ![p][e] = call[c].payload] /\ withheld' = withheld \ {e}
            /\ UNCHANGED <<now, here, event, made, peers, removed, faults, tangled, lost>>
        BY <2>4, <3>4 DEF EnqueueDelivery, bounds
      <4>2. call' = [call EXCEPT ![c] = k]
        BY <2>4, <3>4 DEF EnqueueDelivery, Return, GoOn
      <4>3. queued' \in [Peers -> [Events -> Payload \cup {Nothing}]]
        BY <3>1, <4>1 DEF TypeOK
      <4>4. \A x \in Peers \ peers', y \in Events : queued'[x][y] = Nothing
        BY <3>4, <4>1 DEF TypeOK
      <4>5. QED
        BY <3>2, <4>1, <4>2, <4>3, <4>4 DEF TypeOK
    <3>5. QED
      BY <3>3, <3>4
  <2>5. QED
    BY <1>2, <2>1, <2>2, <2>3, <2>4 DEF Publish
<1>3. ASSUME NEW c \in Calls, BreakOff(c)
      PROVE  TypeOK'
  <2>1. faults' \in 0..MaxFaults
    BY <1>3, BoundsAssumption DEF BreakOff, TypeOK
  <2>2. lost' \subseteq Events
    BY <1>3, Shapes DEF BreakOff, TypeOK
  <2>3. QED
    BY <1>0, <1>3, <2>1, <2>2, TypeCall DEF BreakOff, Return, TypeOK
<1>4. CASE DeleteGathering
  BY <1>4 DEF DeleteGathering, bounds, TypeOK
<1>5. ASSUME NEW p \in Peers, RemovePeer(p)
      PROVE  TypeOK'
  <2>1. removed' \in 0..MaxRemoved
    BY <1>5, BoundsAssumption DEF RemovePeer, TypeOK
  <2>2. queued' \in [Peers -> [Events -> Payload \cup {Nothing}]]
    BY <1>5 DEF RemovePeer, TypeOK
  <2>3. \A x \in Peers \ peers', y \in Events : queued'[x][y] = Nothing
    BY <1>5 DEF RemovePeer, TypeOK
  <2>4. QED
    BY <1>5, <2>1, <2>2, <2>3 DEF RemovePeer, history, TypeOK
<1>6. CASE Tick
  BY <1>6, BoundsAssumption DEF Tick, Times, bounds, history, TypeOK
<1>7. CASE UNCHANGED vars
  BY <1>7 DEF vars, bounds, history, TypeOK
<1>8. QED
  BY <1>1, <1>2, <1>3, <1>4, <1>5, <1>6, <1>7 DEF Next

\* The rows are rows of the schema: an event is of the gathering, and what was
\* queued for a peer is gone with it.
THEOREM PublishingTypeOK == Spec => []TypeOK
  BY TypeInit, TypeStep, PTL DEF Spec

----------------------------------------------------------------------------
(* Frozen *)

\* A row that has started, with no call left that saw it before it did, stays as
\* it is until it is deleted.
THEOREM PublishingFreezes == Spec => FrozenOnceStarted
<1>1. ASSUME TypeOK, Next, NEW e \in Events, event[e] # NoEvent, event[e].starts <= now, Unwritten(e)
      PROVE  Unwritten(e)' /\ event'[e] \in {event[e], NoEvent}
  <2>0. event[e].starts \in Times /\ now \in Times /\ Locked(event[e].starts) /\ e \in made
    BY <1>1 DEF TypeOK, Row, Locked, Times
  <2>1. ASSUME NEW c \in Calls, NEW k, GoOn(c, k), k.at \in {"update", "attend"} => k.event # e,
               event'[e] \in {event[e], NoEvent}
        PROVE  Unwritten(e)' /\ event'[e] \in {event[e], NoEvent}
    BY <1>1, <2>1 DEF Unwritten, GoOn, TypeOK
  <2>2. ASSUME NEW c \in Calls, EventCall(c)
        PROVE  Unwritten(e)' /\ event'[e] \in {event[e], NoEvent}
    <3>1. ASSUME NEW t \in Times, CreateEvent(c, t)
          PROVE  Unwritten(e)' /\ event'[e] \in {event[e], NoEvent}
      BY <2>1, <3>1 DEF CreateEvent, Begin, GoOn
    <3>2. ASSUME NEW x \in Events, NEW t \in Times, UpdateEvent(c, x, t)
          PROVE  Unwritten(e)' /\ event'[e] \in {event[e], NoEvent}
      BY <2>0, <2>1, <3>2 DEF UpdateEvent, Begin, GoOn
    <3>3. ASSUME NEW x \in Events, InsertEvent(c, x)
          PROVE  Unwritten(e)' /\ event'[e] \in {event[e], NoEvent}
      <4>1. event'[e] = event[e]
        BY <1>1, <2>0, <3>3 DEF InsertEvent, TypeOK
      <4>2. QED
        BY <2>1, <3>3, <4>1 DEF InsertEvent, Return, Idle
    <3>4. ASSUME NEW x \in Events, NEW admin \in BOOLEAN, DeleteEvent(c, x, admin)
          PROVE  Unwritten(e)' /\ event'[e] \in {event[e], NoEvent}
      BY <2>1, <3>4 DEF DeleteEvent, Begin, GoOn
    <3>5. ASSUME NEW x \in Events, NEW u \in Users, NEW coming \in BOOLEAN, Attend(c, x, u, coming)
          PROVE  Unwritten(e)' /\ event'[e] \in {event[e], NoEvent}
      BY <2>0, <2>1, <3>5 DEF Attend, Begin, GoOn
    <3>6. CASE StoreEvent(c) \/ MarkAttendance(c)
      <4>1. event'[e] = event[e]
        BY <1>1, <3>6 DEF StoreEvent, MarkAttendance, Unwritten, TypeOK
      <4>2. QED
        BY <2>1, <3>6, <4>1 DEF StoreEvent, MarkAttendance, Return, Idle
    <3>7. CASE RereadEvent(c)
      BY <2>1, <3>7 DEF RereadEvent, Return, Idle
    <3>8. CASE RemoveEvent(c)
      <4>1. event'[e] \in {event[e], NoEvent}
        BY <1>1, <3>8 DEF RemoveEvent, TypeOK
      <4>2. QED
        BY <2>1, <3>8, <4>1 DEF RemoveEvent
    <3>9. QED
      BY <2>2, <3>1, <3>2, <3>3, <3>4, <3>5, <3>6, <3>7, <3>8 DEF EventCall
  <2>3. ASSUME NEW c \in Calls, Publish(c) \/ BreakOff(c)
        PROVE  Unwritten(e)' /\ event'[e] \in {event[e], NoEvent}
    <3>1. event' = event
      BY <2>3 DEF Publish, ReadGathering, Decide, OutboundPeers, EnqueueDelivery, BreakOff
    <3>2. CASE GoOn(c, Idle)
      BY <2>1, <3>1, <3>2 DEF Idle
    <3>3. CASE ReadGathering(c) /\ ~GoOn(c, Idle)
      <4> DEFINE k == [call[c] EXCEPT !.at = IF call[c].payload # Tombstone THEN "decide" ELSE "peers"]
      <4>1. GoOn(c, k) /\ k.at \notin {"update", "attend"}
        BY <1>1, <3>3, Shapes DEF ReadGathering, Return
      <4>2. QED
        BY <2>1, <3>1, <4>1
    <3>4. ASSUME NEW publishing \in BOOLEAN, Decide(c, publishing), ~GoOn(c, Idle)
          PROVE  Unwritten(e)' /\ event'[e] \in {event[e], NoEvent}
      <4> DEFINE k == [call[c] EXCEPT !.at = "peers"]
      <4>1. GoOn(c, k) /\ k.at \notin {"update", "attend"}
        BY <1>1, <3>4, Shapes DEF Decide, Return
      <4>2. QED
        BY <2>1, <3>1, <4>1
    <3>5. CASE OutboundPeers(c) /\ ~GoOn(c, Idle)
      BY <2>1, <3>1, <3>5 DEF OutboundPeers, Return
    <3>6. ASSUME NEW p \in Peers, EnqueueDelivery(c, p), ~GoOn(c, Idle)
          PROVE  Unwritten(e)' /\ event'[e] \in {event[e], NoEvent}
      <4> DEFINE k == [call[c] EXCEPT !.left = call[c].left \ {p}]
      <4>1. GoOn(c, k) /\ k.at \notin {"update", "attend"}
        BY <1>1, <3>6, Shapes DEF EnqueueDelivery, Return
      <4>2. QED
        BY <2>1, <3>1, <4>1
    <3>7. QED
      BY <2>3, <3>2, <3>3, <3>4, <3>5, <3>6 DEF Publish, BreakOff, Return
  <2>4. CASE DeleteGathering
    BY <1>1, <2>4 DEF DeleteGathering, Unwritten
  <2>5. ASSUME NEW p \in Peers, RemovePeer(p)
        PROVE  Unwritten(e)' /\ event'[e] \in {event[e], NoEvent}
    BY <1>1, <2>5 DEF RemovePeer, Unwritten
  <2>6. CASE Tick
    BY <1>1, <2>6 DEF Tick, Unwritten
  <2>7. QED
    BY <1>1, <2>2, <2>3, <2>4, <2>5, <2>6 DEF Next
<1>2. TypeOK /\ [Next]_vars =>
        [\A e \in Events :
          event[e] # NoEvent /\ event[e].starts <= now /\ Unwritten(e) =>
              Unwritten(e)' /\ event'[e] \in {event[e], NoEvent}]_vars
  BY <1>1
<1>3. QED
  BY <1>2, TypeInit, TypeStep, PTL DEF Spec, FrozenOnceStarted

----------------------------------------------------------------------------
(* The last word *)

Word(e) == IF event[e] = NoEvent THEN Tombstone ELSE event[e].starts
Has(c, e) == call[c].at \in Queueing /\ call[c].event = e

\* What a call has in hand is what the row says, and is queued for the peers it
\* has done with.
Faithful(c) ==
    LET e == call[c].event IN
    /\ call[c].at = "reread" => event[e] # NoEvent
    /\ call[c].at \in {"publish", "decide", "peers", "queue"} => call[c].payload = Word(e)
    /\ call[c].at = "queue" =>
            \A p \in peers : p \in call[c].left \/ queued[p][e] = call[c].payload

Said(p, e) == IF event[e] = NoEvent THEN queued[p][e] = Tombstone
              ELSE e \in withheld \/ queued[p][e] = event[e].starts

\* One call at most has an event in hand; if none has, the row's word was said.
Right(e) ==
    /\ \A c, d \in Calls : Has(c, e) /\ Has(d, e) => c = d
    /\ \A c \in Calls : Has(c, e) => Faithful(c)
    /\ (\A c \in Calls : ~Has(c, e)) => \A p \in peers : Said(p, e)

Known(k) == k.at \in Queueing \cup {"update", "delete"} => k.event \in made

WordInv ==
    TypeOK /\ (\A c \in Calls : Known(call[c])) /\ \A e \in made \ (tangled \cup lost) : Right(e)

LEMMA WordInit == Init => WordInv
  BY TypeInit DEF Init, WordInv, Known, Idle, Queueing

\* One call alone has the event in hand, or none.
LEMMA Alone ==
    ASSUME TypeOK, NEW c \in Calls, NEW k, GoOn(c, k), NEW e \in Events,
           \A d \in Calls \ {c} : ~Has(d, e), Has(c, e)' => Faithful(c)',
           ~Has(c, e)' => \A p \in peers' : Said(p, e)'
    PROVE  Right(e)'
<1>1. \A d \in Calls \ {c} : ~Has(d, e)'
  BY DEF GoOn, TypeOK, Has
<1>2. QED
  BY <1>1 DEF Right

\* Nothing of the event changes, but perhaps that peers go, and that it is withheld.
LEMMA Untouched ==
    ASSUME NEW e, Right(e), event'[e] = NoEvent <=> event[e] = NoEvent, Word(e)' = Word(e),
           peers' \subseteq peers, \A p \in peers' : queued'[p][e] = queued[p][e],
           e \in withheld => e \in withheld',
           \A d \in Calls : (Has(d, e)' <=> Has(d, e)) /\ (Has(d, e) => call'[d] = call[d])
    PROVE  Right(e)'
<1>1. \A d \in Calls : Has(d, e) => Faithful(d)'
  <2> SUFFICES ASSUME NEW d \in Calls, Has(d, e)
               PROVE  Faithful(d)'
    OBVIOUS
  <2>1. call'[d] = call[d] /\ call[d].event = e /\ Faithful(d)
    BY DEF Right, Has
  <2>2. QED
    BY <2>1 DEF Faithful
<1>2. (\A p \in peers : Said(p, e)) => \A p \in peers' : Said(p, e)'
  BY DEF Said, Word
<1>3. QED
  BY <1>1, <1>2 DEF Right

\* A step of one call, about one event at most.
LEMMA WordCall ==
    ASSUME WordInv, TypeOK', NEW c \in Calls, NEW k, GoOn(c, k),
           k.at \in Queueing \cup {"update", "delete"} => k.event \in made', NEW e \in Events, call[c].at \in Queueing => call[c].event = e,
           k.at \in Queueing => k.event = e,
           made \subseteq made', made' \subseteq made \cup {e}, peers' = peers, lost \subseteq lost',
           tangled \ {e} \subseteq tangled', withheld \ {e} \subseteq withheld',
           \A x \in Events \ {e} : event'[x] = event[x] /\ \A p \in Peers : queued'[p][x] = queued[p][x],
           e \in made' \ (tangled' \cup lost') => Right(e)'
    PROVE  WordInv'
<1>1. \A d \in Calls : call'[d] = IF d = c THEN k ELSE call[d]
  BY DEF WordInv, TypeOK, GoOn
<1>2. \A d \in Calls : Known(call[d])'
  BY <1>1 DEF WordInv, Known
<1>3. ASSUME NEW x \in made' \ (tangled' \cup lost'), x # e
      PROVE  Right(x)'
  <2>1. x \in Events /\ Right(x) /\ (x \in withheld => x \in withheld') /\ peers \subseteq Peers
    BY <1>3 DEF WordInv, TypeOK
  <2>2. \A d \in Calls : (Has(d, x)' <=> Has(d, x)) /\ (Has(d, x) => call'[d] = call[d])
    BY <1>1, <1>3 DEF Has
  <2>3. event'[x] = event[x] /\ Word(x)' = Word(x)
    BY <1>3, <2>1 DEF Word
  <2>4. \A p \in peers' : queued'[p][x] = queued[p][x]
    BY <1>3, <2>1
  <2>5. QED
    BY <2>1, <2>2, <2>3, <2>4, Untouched
<1>4. QED
  BY <1>2, <1>3 DEF WordInv

\* A call that has no event in hand and takes none.
LEMMA WordQuiet ==
    ASSUME WordInv, TypeOK', NEW c \in Calls, NEW k, GoOn(c, k), Known(k),
           call[c].at \notin Queueing, k.at \notin Queueing, withheld' = withheld,
           UNCHANGED <<made, peers, queued, tangled, lost>>,
           \A x \in Events : (event'[x] = NoEvent <=> event[x] = NoEvent) /\ Word(x)' = Word(x)
    PROVE  WordInv'
<1>1. \A d \in Calls : call'[d] = IF d = c THEN k ELSE call[d]
  BY DEF WordInv, TypeOK, GoOn
<1>2. \A d \in Calls : Known(call[d])'
  BY <1>1 DEF WordInv, Known
<1>3. ASSUME NEW x \in made' \ (tangled' \cup lost')
      PROVE  Right(x)'
  <2>1. x \in Events /\ Right(x)
    BY <1>3 DEF WordInv, TypeOK
  <2>2. \A d \in Calls : (Has(d, x)' <=> Has(d, x)) /\ (Has(d, x) => call'[d] = call[d])
    BY <1>1 DEF Has
  <2>3. QED
    BY <2>1, <2>2, Untouched
<1>4. QED
  BY <1>2, <1>3 DEF WordInv

LEMMA WordStep == WordInv /\ [Next]_vars => WordInv'
<1> SUFFICES ASSUME WordInv, [Next]_vars
             PROVE  WordInv'
  OBVIOUS
<1>0. TypeOK /\ TypeOK' /\ Idle.at \notin Queueing /\ Known(Idle)
  BY TypeStep DEF WordInv, Known, Idle, Queueing
<1>1. ASSUME NEW c \in Calls, EventCall(c)
      PROVE  WordInv'
  <2>1. ASSUME NEW k, GoOn(c, k), Known(k), call[c].at \notin Queueing, k.at \notin Queueing,
               UNCHANGED <<event, made, peers, queued, history>>
        PROVE  WordInv'
    BY <1>0, <2>1, WordQuiet DEF history, Word
  <2>2. ASSUME NEW t \in Times, CreateEvent(c, t)
        PROVE  WordInv'
    BY <1>0, <2>1, <2>2 DEF CreateEvent, Begin, GoOn, Known, Queueing
  <2>3. ASSUME NEW e \in Events, NEW t \in Times, UpdateEvent(c, e, t)
        PROVE  WordInv'
    <3> DEFINE k == [at |-> "update", event |-> e, starts |-> t]
    <3>1. GoOn(c, k) /\ Known(k) /\ k.at \notin Queueing /\ call[c].at \notin Queueing
      BY <1>0, <2>3 DEF UpdateEvent, Begin, GoOn, Known, Queueing, TypeOK
    <3>2. QED
      BY <2>1, <2>3, <3>1 DEF UpdateEvent
  <2>4. ASSUME NEW e \in Events, InsertEvent(c, e)
        PROVE  WordInv'
    <3>1. call[c].at \notin Queueing
      BY <2>4 DEF InsertEvent, Queueing
    <3>2. CASE ~here
      BY <1>0, <2>1, <2>4, <3>1, <3>2 DEF InsertEvent, Return
    <3>3. CASE here
      <4> DEFINE k == [at |-> "reread", event |-> e]
      <4>1. /\ GoOn(c, k) /\ made' = made \cup {e} /\ e \notin made
            /\ event' = [event EXCEPT ![e] = [starts |-> call[c].starts, attendees |-> {}]]
            /\ UNCHANGED <<peers, queued, tangled, lost, withheld>>
        BY <2>4, <3>3 DEF InsertEvent, history
      <4>2. \A d \in Calls : ~Has(d, e)
        BY <4>1 DEF Has, WordInv, Known
      <4>3. call'[c] = k /\ event'[e] # NoEvent
        BY <1>0, <2>4, <4>1, Shapes, AbsentAssumption DEF GoOn, TypeOK, InsertEvent, Row
      <4>4. Has(c, e)' /\ Faithful(c)'
        BY <4>3 DEF Has, Faithful, Queueing
      <4>5. Right(e)'
        BY <1>0, <4>1, <4>2, <4>4, Alone
      <4>6. k.event \in made'
        BY <4>1
      <4>7. \A x \in Events \ {e} : event'[x] = event[x]
        BY <1>0, <4>1 DEF TypeOK
      <4>8. QED
        BY <1>0, <3>1, <4>1, <4>5, <4>6, <4>7, WordCall
    <3>4. QED
      BY <3>2, <3>3
  <2>5. ASSUME NEW e \in Events, NEW admin \in BOOLEAN, DeleteEvent(c, e, admin)
        PROVE  WordInv'
    <3> DEFINE k == [at |-> "delete", event |-> e]
    <3>1. GoOn(c, k) /\ Known(k) /\ k.at \notin Queueing /\ call[c].at \notin Queueing
      BY <1>0, <2>5 DEF DeleteEvent, Begin, GoOn, Known, Queueing, TypeOK
    <3>2. QED
      BY <2>1, <2>5, <3>1 DEF DeleteEvent
  <2>6. ASSUME NEW e \in Events, NEW u \in Users, NEW coming \in BOOLEAN, Attend(c, e, u, coming)
        PROVE  WordInv'
    BY <1>0, <2>1, <2>6 DEF Attend, Begin, GoOn, Known, Queueing
  <2>7. CASE StoreEvent(c)
    <3> PICK e \in Events : e = call[c].event
      BY <1>0, <2>7, Shapes DEF StoreEvent, Queueing
    <3> DEFINE k == [at |-> "reread", event |-> e]
    <3>1. e \in Events /\ e \in made /\ call[c].at \notin Queueing
      BY <1>0, <2>7, Shapes DEF StoreEvent, WordInv, Known, Queueing
    <3>2. CASE event[e] = NoEvent
      BY <1>0, <2>1, <2>7, <3>1, <3>2 DEF StoreEvent, Return, history
    <3>3. CASE event[e] # NoEvent
      <4>1. /\ GoOn(c, k) /\ event' = [event EXCEPT ![e].starts = call[c].starts]
            /\ Writes(c, e) /\ UNCHANGED <<made, peers, queued, lost, withheld>>
        BY <2>7, <3>3 DEF StoreEvent
      <4>2. e \notin tangled' => \A d \in Calls \ {c} : ~Has(d, e)
        BY <4>1 DEF Writes, Meets, Has
      <4>3. call'[c] = k /\ event'[e] # NoEvent
        <5>1. [event[e] EXCEPT !.starts = call[c].starts] \in Row
          BY <1>0, <2>7, <3>1, <3>3, Shapes DEF TypeOK, Row, StoreEvent
        <5>2. QED
          BY <1>0, <3>1, <4>1, <5>1, AbsentAssumption DEF GoOn, TypeOK
      <4>4. Has(c, e)' /\ Faithful(c)'
        BY <4>3 DEF Has, Faithful, Queueing
      <4>5. e \notin tangled' => Right(e)'
        BY <1>0, <3>1, <4>1, <4>2, <4>4, Alone
      <4>6. k.event \in made'
        BY <3>1, <4>1
      <4>7. \A x \in Events \ {e} : event'[x] = event[x]
        BY <1>0, <4>1 DEF TypeOK
      <4>8. tangled \ {e} \subseteq tangled'
        BY <4>1 DEF Writes
      <4>9. QED
        BY <1>0, <3>1, <4>1, <4>5, <4>6, <4>7, <4>8, WordCall
    <3>4. QED
      BY <3>2, <3>3
  <2>8. CASE RereadEvent(c)
    <3> PICK e \in Events : e = call[c].event
      BY <1>0, <2>8, Shapes DEF RereadEvent, Queueing
    <3> DEFINE k == [at |-> "publish", event |-> e, payload |-> event[e].starts]
    <3>1. e \in Events /\ e \in made /\ Has(c, e)
      BY <1>0, <2>8, Shapes DEF RereadEvent, WordInv, Known, Queueing, Has
    <3>2. UNCHANGED <<event, made, peers, queued, tangled, lost, withheld>>
      BY <2>8 DEF RereadEvent, history
    <3>3. CASE event[e] = NoEvent
      <4>1. GoOn(c, Idle)
        BY <2>8, <3>3 DEF RereadEvent, Return
      <4>2. e \notin tangled \cup lost => FALSE
        BY <2>8, <3>1, <3>3 DEF RereadEvent, WordInv, Right, Faithful
      <4>3. QED
        BY <1>0, <3>1, <3>2, <4>1, <4>2, WordCall DEF Known
    <3>4. CASE event[e] # NoEvent
      <4>1. GoOn(c, k)
        BY <2>8, <3>4 DEF RereadEvent
      <4>2. e \notin tangled \cup lost => \A d \in Calls \ {c} : ~Has(d, e)
        BY <3>1 DEF WordInv, Right
      <4>3. call'[c] = k
        BY <1>0, <4>1 DEF GoOn, TypeOK
      <4>4. Has(c, e)' /\ Faithful(c)'
        BY <3>2, <3>4, <4>3 DEF Has, Faithful, Queueing, Word
      <4>5. e \notin tangled \cup lost => Right(e)'
        BY <1>0, <3>1, <4>1, <4>2, <4>4, Alone
      <4>6. k.event \in made'
        BY <3>1, <3>2
      <4>7. QED
        BY <1>0, <3>1, <3>2, <4>1, <4>5, <4>6, WordCall
    <3>5. QED
      BY <3>3, <3>4
  <2>9. CASE RemoveEvent(c)
    <3> PICK e \in Events : e = call[c].event
      BY <1>0, <2>9, Shapes DEF RemoveEvent, Queueing
    <3> DEFINE k == [at |-> "publish", event |-> e, payload |-> Tombstone]
    <3>1. e \in Events /\ e \in made /\ call[c].at \notin Queueing
      BY <1>0, <2>9, Shapes DEF RemoveEvent, WordInv, Known, Queueing
    <3>2. /\ GoOn(c, k) /\ event' = [event EXCEPT ![e] = NoEvent]
          /\ Writes(c, e) /\ UNCHANGED <<made, peers, queued, lost, withheld>>
      BY <2>9 DEF RemoveEvent
    <3>3. e \notin tangled' => \A d \in Calls \ {c} : ~Has(d, e)
      BY <3>2 DEF Writes, Meets, Has
    <3>4. call'[c] = k /\ event'[e] = NoEvent
      BY <1>0, <3>1, <3>2 DEF GoOn, TypeOK
    <3>5. Has(c, e)' /\ Faithful(c)'
      BY <3>4 DEF Has, Faithful, Queueing, Word
    <3>6. e \notin tangled' => Right(e)'
      BY <1>0, <3>1, <3>2, <3>3, <3>5, Alone
    <3>7. k.event \in made'
      BY <3>1, <3>2
    <3>8. \A x \in Events \ {e} : event'[x] = event[x]
      BY <1>0, <3>2 DEF TypeOK
    <3>9. tangled \ {e} \subseteq tangled'
      BY <3>2 DEF Writes
    <3>10. QED
      BY <1>0, <3>1, <3>2, <3>6, <3>7, <3>8, <3>9, WordCall
  <2>10. CASE MarkAttendance(c)
    <3> DEFINE e == call[c].event
               u == call[c].user
               r == [event[e] EXCEPT !.attendees = IF call[c].coming THEN @ \cup {u} ELSE @ \ {u}]
    <3>1. e \in Events /\ u \in Users /\ call[c].at \notin Queueing
      BY <1>0, <2>10, Shapes DEF MarkAttendance, Queueing
    <3>2. \A x \in Events : (event'[x] = NoEvent <=> event[x] = NoEvent) /\ Word(x)' = Word(x)
      <4>1. CASE event[e] = NoEvent
        BY <2>10, <4>1 DEF MarkAttendance, Word
      <4>2. CASE event[e] # NoEvent
        <5>1. r \in Row /\ r # NoEvent /\ r.starts = event[e].starts
          BY <1>0, <3>1, <4>2, AbsentAssumption DEF TypeOK, Row
        <5>2. event' = [event EXCEPT ![e] = r]
          BY <2>10, <4>2 DEF MarkAttendance
        <5>3. event'[e] = r /\ \A x \in Events \ {e} : event'[x] = event[x]
          BY <1>0, <3>1, <5>2 DEF TypeOK
        <5>4. QED
          BY <4>2, <5>1, <5>3 DEF Word
      <4>3. QED
        BY <4>1, <4>2
    <3>3. GoOn(c, Idle) /\ UNCHANGED <<made, peers, queued, tangled, lost, withheld>>
      BY <2>10 DEF MarkAttendance, Return, history
    <3>4. QED
      BY <1>0, <3>1, <3>2, <3>3, WordQuiet
  <2>11. QED
    BY <1>1, <2>2, <2>3, <2>4, <2>5, <2>6, <2>7, <2>8, <2>9, <2>10 DEF EventCall
<1>2. ASSUME NEW c \in Calls, Publish(c) \/ BreakOff(c), call[c].at \in Queueing
      PROVE  WordInv'
  <2> PICK e \in Events : e = call[c].event
    BY <1>0, <1>2, Shapes
  <2> DEFINE clear == e \notin tangled \cup lost
  <2>0. /\ e \in made /\ Has(c, e) /\ (clear => Right(e) /\ Faithful(c))
        /\ clear => \A d \in Calls \ {c} : ~Has(d, e)
    BY <1>0, <1>2, Shapes DEF WordInv, Known, Has, Right
  <2>1. /\ UNCHANGED <<event, made, peers, tangled>> /\ lost \subseteq lost'
        /\ withheld \ {e} \subseteq withheld'
        /\ \A x \in Events \ {e} : \A p \in Peers : queued'[p][x] = queued[p][x]
    <3>1. CASE ReadGathering(c)
      BY <3>1 DEF ReadGathering
    <3>2. CASE \E publishing \in BOOLEAN : Decide(c, publishing)
      BY <3>2 DEF Decide
    <3>3. CASE OutboundPeers(c)
      BY <3>3 DEF OutboundPeers, history
    <3>4. ASSUME NEW q \in Peers, EnqueueDelivery(c, q)
          PROVE  /\ UNCHANGED <<event, made, peers, tangled>> /\ lost \subseteq lost'
                 /\ withheld \ {e} \subseteq withheld'
                 /\ \A x \in Events \ {e} : \A p \in Peers : queued'[p][x] = queued[p][x]
      <4>1. UNCHANGED <<event, made, peers, tangled>>
        BY <3>4 DEF EnqueueDelivery
      <4>2. lost \subseteq lost' /\ withheld \ {e} \subseteq withheld'
        BY <3>4 DEF EnqueueDelivery
      <4>3. queued' = queued \/ queued' = [queued EXCEPT ![q][e] = call[c].payload]
        BY <3>4 DEF EnqueueDelivery
      <4>4. QED
        BY <1>0, <4>1, <4>2, <4>3 DEF TypeOK
    <3>5. CASE BreakOff(c)
      BY <3>5 DEF BreakOff
    <3>6. QED
      BY <1>2, <3>1, <3>2, <3>3, <3>4, <3>5 DEF Publish
  <2>2. ASSUME NEW k, GoOn(c, k), k.at \in Queueing => k.event = e,
               k.at \notin {"update", "delete"}, clear /\ e \notin lost' => Right(e)'
        PROVE  WordInv'
    <3>1. k.at \in Queueing \cup {"update", "delete"} => k.event \in made'
      BY <2>0, <2>1, <2>2
    <3>2. QED
      BY <1>0, <2>0, <2>1, <2>2, <3>1, WordCall
  <2>3. ASSUME GoOn(c, Idle), clear /\ e \notin lost' => \A p \in peers : Said(p, e)'
        PROVE  WordInv'
    <3>1. Idle.at \notin {"update", "delete"} /\ ~Has(c, e)'
      BY <1>0, <2>3 DEF Has, GoOn, TypeOK, Idle, Queueing
    <3>2. clear /\ e \notin lost' => Right(e)'
      BY <1>0, <2>0, <2>1, <2>3, <3>1, Alone
    <3>3. QED
      BY <1>0, <2>2, <2>3, <3>1, <3>2
  <2>4. ASSUME NEW k, GoOn(c, k), k.at \in {"decide", "peers", "queue"}, k.event = e,
               clear => Faithful(c)'
        PROVE  WordInv'
    <3>1. k.at \notin {"update", "delete"}
      BY <2>4
    <3>2. call'[c] = k
      BY <1>0, <2>4 DEF GoOn, TypeOK
    <3>3. Has(c, e)'
      BY <2>4, <3>2 DEF Has, Queueing
    <3>4. clear => Right(e)'
      BY <1>0, <2>0, <2>4, <3>3, Alone
    <3>5. QED
      BY <2>2, <2>4, <3>1, <3>4
  <2>5. CASE ReadGathering(c)
    <3> DEFINE p == call[c]
               news == p.payload # Tombstone
               k == [p EXCEPT !.at = IF news THEN "decide" ELSE "peers"]
    <3>1. p \in [at : {"publish"}, event : Events, payload : Payload]
      BY <1>0, <2>5, Shapes DEF ReadGathering
    <3>2. clear => p.payload = Word(e)
      BY <2>0, <3>1 DEF Faithful
    <3>3. CASE news /\ Locked(p.payload)
      <4>1. GoOn(c, Idle) /\ e \in withheld'
        BY <2>5, <3>3 DEF ReadGathering, Return
      <4>2. clear => event'[e] # NoEvent
        BY <2>1, <3>2, <3>3 DEF Word
      <4>3. QED
        BY <2>3, <4>1, <4>2 DEF Said
    <3>4. CASE ~(news /\ Locked(p.payload)) /\ ~here
      BY <2>3, <2>5, <3>4 DEF ReadGathering, Return
    <3>5. CASE ~(news /\ Locked(p.payload)) /\ here
      <4>1. GoOn(c, k)
        BY <2>5, <3>5 DEF ReadGathering
      <4>2. k.at \in {"decide", "peers"} /\ k.event = e /\ k.payload = p.payload
        BY <3>1
      <4>3. call'[c] = k
        BY <1>0, <4>1 DEF GoOn, TypeOK
      <4> HIDE DEF k
      <4>4. Word(e)' = Word(e)
        BY <2>1 DEF Word
      <4>5. clear => Faithful(c)'
        BY <3>2, <4>2, <4>3, <4>4 DEF Faithful
      <4>6. QED
        BY <2>4, <4>1, <4>2, <4>5
    <3>6. QED
      BY <3>3, <3>4, <3>5
  <2>6. ASSUME NEW publishing \in BOOLEAN, Decide(c, publishing)
        PROVE  WordInv'
    <3> DEFINE p == call[c]
               k == [p EXCEPT !.at = "peers"]
    <3>1. p \in [at : {"decide"}, event : Events, payload : Times]
      BY <1>0, <2>6, Shapes DEF Decide
    <3>2. clear => p.payload = Word(e) /\ event[e] # NoEvent
      BY <2>0, <3>1, AbsentAssumption DEF Faithful, Word
    <3>3. CASE publishing
      <4>1. GoOn(c, k)
        BY <2>6, <3>3 DEF Decide
      <4>2. k.at = "peers" /\ k.event = e /\ k.payload = p.payload
        BY <3>1
      <4>3. call'[c] = k
        BY <1>0, <4>1 DEF GoOn, TypeOK
      <4> HIDE DEF k
      <4>4. Word(e)' = Word(e)
        BY <2>1 DEF Word
      <4>5. clear => Faithful(c)'
        BY <3>2, <4>2, <4>3, <4>4 DEF Faithful
      <4>6. QED
        BY <2>4, <4>1, <4>2, <4>5
    <3>4. CASE ~publishing
      <4>1. GoOn(c, Idle) /\ e \in withheld'
        BY <2>6, <3>4 DEF Decide, Return
      <4>2. QED
        BY <2>1, <2>3, <3>2, <4>1 DEF Said
    <3>5. QED
      BY <3>3, <3>4
  <2>7. CASE OutboundPeers(c)
    <3> DEFINE p == call[c]
               k == [at |-> "queue", event |-> e, payload |-> p.payload, left |-> peers]
    <3>1. clear => p.payload = Word(e)
      BY <2>0, <2>7 DEF OutboundPeers, Faithful
    <3>2. CASE peers = {}
      BY <2>3, <2>7, <3>2 DEF OutboundPeers, Return
    <3>3. CASE peers # {}
      <4>1. GoOn(c, k)
        BY <2>7, <3>3 DEF OutboundPeers
      <4>2. call'[c] = k
        BY <1>0, <4>1 DEF GoOn, TypeOK
      <4>3. Word(e)' = Word(e)
        BY <2>1 DEF Word
      <4>4. clear => Faithful(c)'
        BY <2>1, <3>1, <4>2, <4>3 DEF Faithful
      <4>5. QED
        BY <2>4, <4>1, <4>4
    <3>4. QED
      BY <3>2, <3>3
  <2>8. ASSUME NEW q \in Peers, EnqueueDelivery(c, q)
        PROVE  WordInv'
    <3> DEFINE p == call[c]
               rest == p.left \ {q}
               k == [p EXCEPT !.left = rest]
    <3>1. p \in [at : {"queue"}, event : Events, payload : Payload, left : SUBSET Peers]
      BY <1>0, <2>8, Shapes DEF EnqueueDelivery
    <3>2. CASE q \notin peers
      BY <2>3, <2>8, <3>2 DEF EnqueueDelivery, Return
    <3>3. CASE q \in peers
      <4>1. /\ queued' = [queued EXCEPT ![q][e] = p.payload]
            /\ IF rest = {} THEN GoOn(c, Idle) ELSE GoOn(c, k)
        BY <2>8, <3>3 DEF EnqueueDelivery, Return
      <4>2. queued'[q][e] = p.payload /\ \A x \in Peers \ {q} : queued'[x][e] = queued[x][e]
        BY <1>0, <2>0, <4>1 DEF TypeOK
      <4>3. clear => /\ p.payload = Word(e)
                     /\ \A x \in peers : x \in p.left \/ queued[x][e] = p.payload
        BY <2>0, <3>1 DEF Faithful
      <4>4. clear => \A x \in peers : x \in rest \/ queued'[x][e] = p.payload
        BY <1>0, <4>2, <4>3 DEF TypeOK
      <4>5. Word(e)' = Word(e)
        BY <2>1 DEF Word
      <4>6. CASE rest = {}
        <5>1. clear => \A x \in peers : Said(x, e)'
          BY <4>3, <4>4, <4>5, <4>6 DEF Said, Word
        <5>2. QED
          BY <2>3, <4>1, <4>6, <5>1
      <4>7. CASE rest # {}
        <5>1. GoOn(c, k)
          BY <4>1, <4>7
        <5>2. k.at = "queue" /\ k.event = e /\ k.payload = p.payload /\ k.left = rest
          BY <3>1
        <5>3. call'[c] = k
          BY <1>0, <5>1 DEF GoOn, TypeOK
        <5> HIDE DEF k
        <5>4. clear => Faithful(c)'
          BY <2>1, <4>3, <4>4, <4>5, <5>2, <5>3 DEF Faithful
        <5>5. QED
          BY <2>4, <5>1, <5>2, <5>4
      <4>8. QED
        BY <4>6, <4>7
    <3>4. QED
      BY <3>2, <3>3
  <2>9. CASE BreakOff(c)
    BY <1>2, <2>3, <2>9 DEF BreakOff, Return
  <2>10. QED
    BY <1>2, <2>5, <2>6, <2>7, <2>8, <2>9 DEF Publish
<1>3. ASSUME NEW c \in Calls, BreakOff(c), call[c].at \notin Queueing
      PROVE  WordInv'
  <2>1. GoOn(c, Idle) /\ UNCHANGED <<event, made, peers, queued, tangled, lost, withheld>>
    BY <1>3 DEF BreakOff, Return
  <2>2. QED
    BY <1>0, <1>3, <2>1, WordQuiet DEF Word
<1>4. ASSUME UNCHANGED <<event, made, call, tangled, lost, withheld>>, peers' \subseteq peers,
             \A p \in peers', e \in Events : queued'[p][e] = queued[p][e]
      PROVE  WordInv'
  <2>1. \A e \in made \ (tangled \cup lost) : Right(e)'
    <3> SUFFICES ASSUME NEW e \in made \ (tangled \cup lost)
                 PROVE  Right(e)'
      OBVIOUS
    <3>1. e \in Events /\ Right(e)
      BY DEF WordInv, TypeOK
    <3>2. Word(e)' = Word(e) /\ \A d \in Calls : Has(d, e)' <=> Has(d, e)
      BY <1>4 DEF Word, Has
    <3>3. QED
      BY <1>4, <3>1, <3>2, Untouched
  <2>2. \A c \in Calls : Known(call[c])'
    BY <1>4 DEF WordInv, Known
  <2>3. QED
    BY <1>0, <1>4, <2>1, <2>2 DEF WordInv
<1>5. CASE DeleteGathering
  BY <1>0, <1>5 DEF DeleteGathering, WordInv, Known
<1>6. ASSUME NEW p \in Peers, RemovePeer(p)
      PROVE  WordInv'
  <2>1. \A q \in peers', e \in Events : queued'[q][e] = queued[q][e]
    BY <1>0, <1>6 DEF RemovePeer, TypeOK
  <2>2. QED
    BY <1>4, <1>6, <2>1 DEF RemovePeer, history
<1>7. CASE Tick
  BY <1>4, <1>7 DEF Tick, history
<1>8. CASE UNCHANGED vars
  BY <1>4, <1>8 DEF vars, history
<1>9. ASSUME NEW c \in Calls, Publish(c)
      PROVE  call[c].at \in Queueing
  BY <1>9 DEF Publish, ReadGathering, Decide, OutboundPeers, EnqueueDelivery, Queueing
<1>10. QED
  BY <1>1, <1>2, <1>3, <1>5, <1>6, <1>7, <1>8, <1>9 DEF Next

\* When no call is left to publish it, what was last queued of an event is what
\* the row says, or the tombstone of a row that is gone.
THEOREM PublishingLastWord == Spec => []LastWordIsTheRow
<1>1. WordInv => LastWordIsTheRow
  <2> SUFFICES ASSUME WordInv, NEW e \in made \ (tangled \cup lost), NEW p \in peers, Settled(e)
               PROVE  IF event[e] = NoEvent THEN queued[p][e] = Tombstone
                      ELSE e \in withheld \/ queued[p][e] = event[e].starts
    BY DEF LastWordIsTheRow
  <2>1. Right(e) /\ \A c \in Calls : ~Has(c, e)
    BY DEF WordInv, Settled, Has
  <2>2. Said(p, e)
    BY <2>1 DEF Right
  <2>3. QED
    BY <2>2 DEF Said
<1>2. QED
  BY <1>1, WordInit, WordStep, PTL DEF Spec
=============================================================================
