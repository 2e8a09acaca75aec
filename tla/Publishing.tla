----------------------------- MODULE Publishing -----------------------------
(***************************************************************************)
(* The events of one gathering, from the call that writes one to the       *)
(* payload queued for each peer: scheduling, editing, deleting and         *)
(* attending (api/internal/csilservices/events.go), and publish, which     *)
(* queues the event after its row is written (federation/publish.go).      *)
(* Nothing is locked: a call is a sequence of statements, and what it has  *)
(* read may be stale when it writes or queues.                             *)
(*                                                                         *)
(* An event is its start, which stands for everything an edit may change.  *)
(* Who may edit or attend is not modelled; whether the levels let an event *)
(* be published is the module Administration's.                            *)
(***************************************************************************)
EXTENDS Naturals

CONSTANTS
    Events, Users, Peers,
    NoEvent, Nothing, Tombstone,
    Calls,              \* service calls that may be at work at once
    \* Bounds of the model, none of them the code's
    MaxTime,
    MaxRemoved,         \* peers
    MaxFaults           \* calls that break off

Times == 0..MaxTime
Row == [starts : Times, attendees : SUBSET Users]

ASSUME BoundsAssumption == MaxTime \in Nat /\ MaxRemoved \in Nat /\ MaxFaults \in Nat
ASSUME AbsentAssumption ==
    /\ NoEvent \notin Row /\ Tombstone # Nothing
    /\ Nothing \notin Times /\ Tombstone \notin Times

VARIABLES
    now,
    here,               \* whether the gathering is
    event, made,        \* the table events, and the identifiers given out
    peers,              \* those that are published to
    queued,             \* by peer and event, the last payload that was queued
    call,               \* what each call has left to do
    removed, faults,
    \* History, read by properties only
    withheld,           \* events whose last edit was not to be published
    tangled,            \* events that two calls wrote, or queued, across each other
    lost                \* events of which a call broke off, or met its gathering or a peer gone

bounds == <<removed, faults>>
history == <<withheld, tangled, lost>>
vars == <<now, here, event, made, peers, queued, call, bounds, history>>

Idle == [at |-> "idle"]
Begin(c, k) == call[c] = Idle /\ call' = [call EXCEPT ![c] = k]
GoOn(c, k) == call' = [call EXCEPT ![c] = k]
Return(c) == GoOn(c, Idle)

\* Mutant of Locked: an event starts after the instant of its start.
Locked_Exclusive(starts) == now > starts

\* A started event is frozen; it has started at the very instant of its start.
Locked(starts) == now >= starts

Init ==
    /\ now = 0 /\ here = TRUE
    /\ event = [e \in Events |-> NoEvent] /\ made = {}
    /\ peers = Peers
    /\ queued = [p \in Peers |-> [e \in Events |-> Nothing]]
    /\ call = [c \in Calls |-> Idle]
    /\ removed = 0 /\ faults = 0
    /\ withheld = {} /\ tangled = {} /\ lost = {}

\* What a call has written, or seen, and is yet to queue.
Queueing == {"reread", "publish", "decide", "peers", "queue"}
\* The other calls that have yet to queue this event.
Meets(c, e) == \E d \in Calls \ {c} : call[d].at \in Queueing /\ call[d].event = e
Writes(c, e) == tangled' = IF Meets(c, e) THEN tangled \cup {e} ELSE tangled \ {e}

----------------------------------------------------------------------------
(* Writing an event *)

\* CreateEvent and UpdateEvent refuse a start that has passed, and UpdateEvent
\* an event that has started.
CreateEvent(c, t) ==
    /\ here /\ ~Locked(t)
    /\ Begin(c, [at |-> "insert", starts |-> t])
    /\ UNCHANGED <<now, here, event, made, peers, queued, bounds, history>>

\* Mutant of InsertEvent: no foreign key holds it to the gathering.
InsertEvent_Anyway(c, e) ==
    /\ call[c].at = "insert" /\ e \notin made
    /\ event' = [event EXCEPT ![e] = [starts |-> call[c].starts, attendees |-> {}]]
    /\ made' = made \cup {e}
    /\ GoOn(c, [at |-> "reread", event |-> e])
    /\ UNCHANGED <<now, here, peers, queued, bounds, history>>

\* The gathering may have been deleted since.
InsertEvent(c, e) ==
    /\ call[c].at = "insert" /\ e \notin made
    /\ IF here
       THEN /\ event' = [event EXCEPT ![e] = [starts |-> call[c].starts, attendees |-> {}]]
            /\ made' = made \cup {e}
            /\ GoOn(c, [at |-> "reread", event |-> e])
       ELSE Return(c) /\ UNCHANGED <<event, made>>
    /\ UNCHANGED <<now, here, peers, queued, bounds, history>>

\* Every column is written: what the request leaves out, as it was read.
UpdateEvent(c, e, t) ==
    /\ event[e] # NoEvent /\ ~Locked(event[e].starts) /\ ~Locked(t)
    /\ Begin(c, [at |-> "update", event |-> e, starts |-> t])
    /\ UNCHANGED <<now, here, event, made, peers, queued, bounds, history>>

StoreEvent(c) ==
    /\ call[c].at = "update"
    /\ LET e == call[c].event IN
       IF event[e] = NoEvent THEN Return(c) /\ UNCHANGED <<event, tangled>>
       ELSE /\ event' = [event EXCEPT ![e].starts = call[c].starts]
            /\ GoOn(c, [at |-> "reread", event |-> e])
            /\ Writes(c, e)
    /\ UNCHANGED <<now, here, made, peers, queued, bounds, withheld, lost>>

\* The store reads the row again, and that is what is published.
RereadEvent(c) ==
    /\ call[c].at = "reread"
    /\ LET e == call[c].event IN
       IF event[e] = NoEvent THEN Return(c)
       ELSE GoOn(c, [at |-> "publish", event |-> e, payload |-> event[e].starts])
    /\ UNCHANGED <<now, here, event, made, peers, queued, bounds, history>>

\* Once it has started, only an administrator deletes an event.
DeleteEvent(c, e, admin) ==
    /\ event[e] # NoEvent /\ (admin \/ ~Locked(event[e].starts))
    /\ Begin(c, [at |-> "delete", event |-> e])
    /\ UNCHANGED <<now, here, event, made, peers, queued, bounds, history>>

\* The tombstone goes out after the row is gone, whoever took it away.
RemoveEvent(c) ==
    /\ call[c].at = "delete"
    /\ LET e == call[c].event IN
       /\ event' = [event EXCEPT ![e] = NoEvent]
       /\ GoOn(c, [at |-> "publish", event |-> e, payload |-> Tombstone])
       /\ Writes(c, e)
    /\ UNCHANGED <<now, here, made, peers, queued, bounds, withheld, lost>>

\* The events of a gathering go with it, and nothing is published of them.
DeleteGathering ==
    /\ here /\ here' = FALSE
    /\ event' = [e \in Events |-> NoEvent]
    /\ lost' = lost \cup made
    /\ UNCHANGED <<now, made, peers, queued, call, bounds, withheld, tangled>>

\* AttendEvent and UnattendEvent.
Attend(c, e, u, coming) ==
    /\ event[e] # NoEvent /\ ~Locked(event[e].starts)
    /\ Begin(c, [at |-> "attend", event |-> e, user |-> u, coming |-> coming])
    /\ UNCHANGED <<now, here, event, made, peers, queued, bounds, history>>

\* What is not there is not attended: the insert fails, the delete finds nothing.
MarkAttendance(c) ==
    /\ call[c].at = "attend"
    /\ LET e == call[c].event
           u == call[c].user IN
       event' = IF event[e] = NoEvent THEN event
                ELSE [event EXCEPT ![e].attendees = IF call[c].coming THEN @ \cup {u} ELSE @ \ {u}]
    /\ Return(c)
    /\ UNCHANGED <<now, here, made, peers, queued, bounds, history>>

----------------------------------------------------------------------------
(* Publishing *)

\* Mutant of ReadGathering: a tombstone waits for the choice as well.
ReadGathering_AsksForAll(c) ==
    /\ call[c].at = "publish" /\ here
    /\ GoOn(c, [call[c] EXCEPT !.at = "decide"])
    /\ UNCHANGED <<now, here, event, made, peers, queued, bounds, history>>

\* What has started is not news. The gathering is read for its owners.
ReadGathering(c) ==
    /\ call[c].at = "publish"
    /\ LET e == call[c].event
           news == call[c].payload # Tombstone IN
       IF news /\ Locked(call[c].payload)
       THEN Return(c) /\ withheld' = withheld \cup {e} /\ UNCHANGED lost
       ELSE IF ~here
       THEN Return(c) /\ lost' = lost \cup {e} /\ UNCHANGED withheld
       ELSE /\ GoOn(c, [call[c] EXCEPT !.at = IF news THEN "decide" ELSE "peers"])
            /\ UNCHANGED <<withheld, lost>>
    /\ UNCHANGED <<now, here, event, made, peers, queued, bounds, tangled>>

\* The choice of the three levels (Administration), which a tombstone does not wait for.
Decide(c, publishing) ==
    /\ call[c].at = "decide"
    /\ IF publishing THEN GoOn(c, [call[c] EXCEPT !.at = "peers"]) /\ UNCHANGED withheld
       ELSE Return(c) /\ withheld' = withheld \cup {call[c].event}
    /\ UNCHANGED <<now, here, event, made, peers, queued, bounds, tangled, lost>>

OutboundPeers(c) ==
    /\ call[c].at = "peers"
    /\ IF peers = {} THEN Return(c)
       ELSE GoOn(c, [at |-> "queue", event |-> call[c].event, payload |-> call[c].payload,
                     left |-> peers])
    /\ UNCHANGED <<now, here, event, made, peers, queued, bounds, history>>

\* One insert for each, over what was queued of the event before. At a peer that
\* has been removed the insert fails, and what is left is not queued.
EnqueueDelivery(c, p) ==
    /\ call[c].at = "queue" /\ p \in call[c].left
    /\ LET e == call[c].event
           rest == call[c].left \ {p} IN
       IF p \notin peers
       THEN Return(c) /\ lost' = lost \cup {e} /\ UNCHANGED <<queued, withheld>>
       ELSE /\ queued' = [queued EXCEPT ![p][e] = call[c].payload]
            /\ IF rest = {} THEN Return(c) ELSE GoOn(c, [call[c] EXCEPT !.left = rest])
            /\ withheld' = withheld \ {e}
            /\ UNCHANGED lost
    /\ UNCHANGED <<now, here, event, made, peers, bounds, tangled>>

\* A statement fails, or the process stops; what a call had to publish is only logged.
BreakOff(c) ==
    /\ call[c] # Idle /\ faults < MaxFaults
    /\ faults' = faults + 1
    /\ lost' = IF call[c].at \in Queueing THEN lost \cup {call[c].event} ELSE lost
    /\ Return(c)
    /\ UNCHANGED <<now, here, event, made, peers, queued, removed, withheld, tangled>>

\* A peer's queue goes with it.
RemovePeer(p) ==
    /\ p \in peers /\ removed < MaxRemoved
    /\ peers' = peers \ {p}
    /\ queued' = [queued EXCEPT ![p] = [e \in Events |-> Nothing]]
    /\ removed' = removed + 1
    /\ UNCHANGED <<now, here, event, made, call, faults, history>>

Tick ==
    /\ now < MaxTime /\ now' = now + 1
    /\ UNCHANGED <<here, event, made, peers, queued, call, bounds, history>>

EventCall(c) ==
    \/ \E t \in Times : CreateEvent(c, t) \/ \E e \in Events : UpdateEvent(c, e, t)
    \/ \E e \in Events : InsertEvent(c, e) \/ \E admin \in BOOLEAN : DeleteEvent(c, e, admin)
    \/ \E e \in Events, u \in Users, coming \in BOOLEAN : Attend(c, e, u, coming)
    \/ StoreEvent(c) \/ RereadEvent(c) \/ RemoveEvent(c) \/ MarkAttendance(c)

Publish(c) ==
    \/ ReadGathering(c) \/ \E publishing \in BOOLEAN : Decide(c, publishing)
    \/ OutboundPeers(c) \/ \E p \in Peers : EnqueueDelivery(c, p)

Next ==
    \/ \E c \in Calls : EventCall(c) \/ Publish(c) \/ BreakOff(c)
    \/ DeleteGathering
    \/ \E p \in Peers : RemovePeer(p)
    \/ Tick

Spec == Init /\ [][Next]_vars

----------------------------------------------------------------------------
(* Properties *)

Payload == Times \cup {Tombstone}
Call ==
    {Idle}
    \cup [at : {"insert"}, starts : Times]
    \cup [at : {"update"}, event : Events, starts : Times]
    \cup [at : {"attend"}, event : Events, user : Users, coming : BOOLEAN]
    \cup [at : {"delete", "reread"}, event : Events]
    \cup [at : {"publish", "peers"}, event : Events, payload : Payload]
    \cup [at : {"decide"}, event : Events, payload : Times]
    \cup [at : {"queue"}, event : Events, payload : Payload, left : SUBSET Peers]

\* The rows are rows of the schema: an event is of the gathering, and what was
\* queued for a peer is gone with it.
TypeOK ==
    /\ now \in Times /\ here \in BOOLEAN
    /\ event \in [Events -> Row \cup {NoEvent}] /\ made \subseteq Events
    /\ peers \subseteq Peers
    /\ queued \in [Peers -> [Events -> Payload \cup {Nothing}]]
    /\ call \in [Calls -> Call]
    /\ removed \in 0..MaxRemoved /\ faults \in 0..MaxFaults
    /\ withheld \subseteq Events /\ tangled \subseteq Events /\ lost \subseteq Events
    /\ \A e \in Events : event[e] # NoEvent => here /\ e \in made
    /\ \A p \in Peers \ peers, e \in Events : queued[p][e] = Nothing

Settled(e) == \A c \in Calls : call[c].at \in Queueing => call[c].event # e

\* When no call is left to publish it, what was last queued of an event is what
\* the row says, or the tombstone of a row that is gone, whatever the settings
\* say of it (publish.go:79, "the deletion still has to travel"). Excepted are
\* an edit that was not to be published, two calls across each other, and a call
\* that broke off or met a gathering or a peer gone.
LastWordIsTheRow ==
    \A e \in made \ (tangled \cup lost), p \in peers :
        Settled(e) => IF event[e] = NoEvent THEN queued[p][e] = Tombstone
                      ELSE e \in withheld \/ queued[p][e] = event[e].starts

Unwritten(e) == \A c \in Calls : call[c].at \in {"update", "attend"} => call[c].event # e

\* A row that has started, with no call left that saw it before it did, stays as
\* it is until it is deleted (perms.go:139, "nothing about the event can change").
FrozenOnceStarted ==
    [][\A e \in Events :
          event[e] # NoEvent /\ event[e].starts <= now /\ Unwritten(e) =>
              Unwritten(e)' /\ event'[e] \in {event[e], NoEvent}]_vars
=============================================================================
