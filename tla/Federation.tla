------------------------------ MODULE Federation ------------------------------
(***************************************************************************)
(* An event's journey: the origin's queue (FederationSender), the network, *)
(* and the inboxes of its peers, each of which keeps the promise of Inbox  *)
(* that DirectoryReceiver implements. The origin's events live only as far *)
(* as federation sees them: updated, then deleted (EventService.publish,   *)
(* api/internal/csilservices/events.go).                                   *)
(*                                                                         *)
(* Every step is a step of FederationSender, or of the network and a peer. *)
(* A request carries the payload its pass read; the sender may stop        *)
(* waiting for it while it is still on its way or being worked on. Peers   *)
(* keep the origin approved, and the two clocks agree: DirectoryReceiver   *)
(* has both the other way round.                                           *)
(***************************************************************************)
EXTENDS FederationSender

CONSTANTS
    FreshnessWindow,    \* in ticks
    Nobody,             \* waits for a request whose sender gave up or stopped
    MaxLate             \* bound of the model: requests that outlive their sender's wait

ASSUME FreshnessAssumption ==
    FreshnessWindow \in Nat /\ MaxLate \in Nat /\ MaxPublishes \in Nat /\ Nobody \notin Senders

VARIABLES
    gone,       \* events the origin has deleted
    tombs,      \* payloads that are tombstones, with their event
    age,        \* of each signed payload, up to one past the window
    wire,       \* requests sent and not yet answered
    phase,      \* of each envelope at its peer, as in Inbox
    held,       \* keys whose event the peer shows
    late,
    \* History, read by properties only
    decided,    \* the last payload the peer stored, removed or rejected
    raced       \* the last payload queued met an older one on its way

networkVars == <<wire, late, raced>>
peerSide == <<phase, held, decided>>
originSide == <<gone, tombs>>
fedVars == <<vars, originSide, age, networkVars, peerSide>>

Payloads == 1..MaxPublishes
InboxOf == INSTANCE Inbox WITH Envelopes <- Keys \X Payloads
Request == [by : Senders \cup {Nobody}, key : Keys, payload : Payloads, taken : BOOLEAN]

FederationInit ==
    /\ Init
    /\ gone = {} /\ tombs = {}
    /\ age = [x \in Events \X Payloads |-> 0]
    /\ wire = {} /\ late = 0
    /\ InboxOf!Init
    /\ held = {}
    /\ decided = [k \in Keys |-> 0]
    /\ raced = [k \in Keys |-> FALSE]

----------------------------------------------------------------------------
(* The origin *)

\* EventService.publish of an event that is there to publish.
PublishUpdate(e) ==
    /\ e \notin gone
    /\ PublishEvent(e)
    /\ UNCHANGED <<originSide, age, networkVars, peerSide>>

\* EventService.DeleteEvent: the row first, then the tombstone, to the peers
\* that are published to at that moment.
DeleteEvent(e) ==
    /\ e \notin gone
    /\ gone' = gone \cup {e}
    /\ \/ PublishEvent(e) /\ tombs' = tombs \cup {<<e, published[e] + 1>>}
       \/ OutboundPeers = {} /\ UNCHANGED <<vars, tombs>>
    /\ UNCHANGED <<age, networkVars, peerSide>>

\* DeleteGathering takes the rows of its events with it, and queues no tombstone
\* for any of them; nor does a replica that stops between DeleteEvent's two steps.
DeleteGathering(e) ==
    /\ e \notin gone
    /\ gone' = gone \cup {e}
    /\ UNCHANGED <<vars, tombs, age, networkVars, peerSide>>

\* A payload inserted while an older one is on its way may be applied before it.
Queue(j) ==
    /\ EnqueueNext(j)
    /\ raced' = [k \in Keys |-> IF queued'[k] # queued[k] THEN \E r \in wire : r.key = k ELSE raced[k]]
    /\ UNCHANGED <<originSide, age, wire, late, peerSide>>

QueueEnds(j) ==
    /\ EnqueueFails(j) \/ CrashPublisher(j)
    /\ UNCHANGED <<originSide, age, networkVars, peerSide>>

----------------------------------------------------------------------------
(* The network *)

KeyOf(item) == <<item.peer, item.event>>

\* The bytes may be older than the row by now, or an older request still out.
PostRequest(s) ==
    /\ Post(s)
    /\ LET item == flight'[s]
           k == KeyOf(item)
       IN  /\ wire' = wire \cup {[by |-> s, key |-> k, payload |-> item.payload, taken |-> FALSE]}
           /\ raced' = [raced EXCEPT ![k] = @ \/ item.payload # box[k].payload
                                         \/ \E r \in wire : r.key = k /\ r.payload # item.payload]
    /\ UNCHANGED <<originSide, age, late, peerSide>>

\* The request ends without a reply from the service that the sender could
\* read: nothing came back in time, or an error of the transport's.
Fault(s) == Answer(s, "failed")

\* The request is over without one.
Broken(r) ==
    /\ wire' = wire \ {r}
    /\ IF r.by = Nobody THEN UNCHANGED vars ELSE Fault(r.by)
    /\ UNCHANGED <<originSide, age, late, raced>>

\* The request is over, with a reply that makes outcome o, or that is lost.
Over(r, o) ==
    \/ Broken(r)
    \/ /\ r.by # Nobody
       /\ wire' = wire \ {r}
       /\ Answer(r.by, o)
       /\ UNCHANGED <<originSide, age, late, raced>>

\* Mutant of Lose: the client has no timeout, and waits for ever.
LoseAndWait(r) ==
    /\ ~r.taken
    /\ wire' = wire \ {r}
    /\ UNCHANGED <<vars, originSide, age, late, raced, peerSide>>

\* The request never arrives, or its connection closed before it did.
Lose(r) ==
    /\ ~r.taken
    /\ Broken(r)
    /\ UNCHANGED peerSide

\* The HTTP client's timeout, with the request on its way or being worked on.
GiveUp(s) ==
    /\ late < MaxLate
    /\ late' = late + 1
    /\ \E r \in wire : r.by = s /\ wire' = (wire \ {r}) \cup {[r EXCEPT !.by = Nobody]}
    /\ Fault(s)
    /\ UNCHANGED <<originSide, age, raced, peerSide>>

----------------------------------------------------------------------------
(* The peer *)

Envelope(r) == <<r.key, r.payload>>
IsTombstone(r) == <<r.key[2], r.payload>> \in tombs
Stale(r) == age[<<r.key[2], r.payload>>] > FreshnessWindow

\* Mutant of RefuseRequest: the error arm is read as a refusal for good.
RefuseRequestForGood(r) ==
    /\ ~r.taken
    /\ Stale(r) \/ phase[Envelope(r)] # "new"
    /\ Over(r, "refused")
    /\ UNCHANGED peerSide

\* Out of the window, or its batch id is remembered: a ServiceError, which the
\* sender counts as a failure.
RefuseRequest(r) ==
    /\ ~r.taken
    /\ Stale(r) \/ phase[Envelope(r)] # "new"
    /\ Over(r, "failed")
    /\ UNCHANGED peerSide

TakeRequest(r) ==
    /\ ~r.taken /\ ~Stale(r)
    /\ InboxOf!Take(Envelope(r))
    /\ wire' = (wire \ {r}) \cup {[r EXCEPT !.taken = TRUE]}
    /\ UNCHANGED <<vars, originSide, age, late, raced, held, decided>>

\* Over one of the peer's allowances, from which tombstones are exempt. The
\* claim is released, unless that statement fails.
RefuseForRate(r) ==
    /\ r.taken /\ ~IsTombstone(r)
    /\ InboxOf!GiveBack(Envelope(r)) \/ InboxOf!Abandon(Envelope(r))
    /\ Over(r, "rateLimited")
    /\ UNCHANGED <<held, decided>>

Decide(r) == InboxOf!Apply(Envelope(r)) /\ decided' = [decided EXCEPT ![r.key] = r.payload]

StoreEvent(r) ==
    /\ r.taken /\ ~IsTombstone(r)
    /\ Decide(r) /\ Over(r, "accepted")
    /\ held' = held \cup {r.key}

RejectEvent(r) ==
    /\ r.taken /\ ~IsTombstone(r)
    /\ Decide(r) /\ Over(r, "refused")
    /\ UNCHANGED held

RemoveEvent(r) ==
    /\ r.taken /\ IsTombstone(r)
    /\ Decide(r) /\ Over(r, IF r.key \in held THEN "accepted" ELSE "refused")
    /\ held' = held \ {r.key}

\* A statement fails after the claim, or the request's context is cancelled.
FailRequest(r) ==
    /\ r.taken
    /\ InboxOf!GiveBack(Envelope(r)) \/ InboxOf!Abandon(Envelope(r))
    /\ Broken(r)
    /\ UNCHANGED <<held, decided>>

Serve(r) ==
    \/ RefuseRequest(r) \/ TakeRequest(r) \/ RefuseForRate(r)
    \/ StoreEvent(r) \/ RejectEvent(r) \/ RemoveEvent(r) \/ FailRequest(r)

----------------------------------------------------------------------------
(* The sender's other steps, the administrator and the clock *)

Record(s) ==
    /\ RecordRow(s) \/ RecordRowFails(s) \/ RecordPeer(s) \/ RecordPeerFails(s)
    /\ UNCHANGED <<originSide, age, networkVars, peerSide>>

Read(s) == StartPass(s) /\ UNCHANGED <<originSide, age, networkVars, peerSide>>

StopSender(s) ==
    /\ CrashSender(s)
    /\ wire' = {IF r.by = s THEN [r EXCEPT !.by = Nobody] ELSE r : r \in wire}
    /\ UNCHANGED <<originSide, age, late, raced, peerSide>>

Administer(p) == Admin(p) /\ UNCHANGED <<originSide, age, networkVars, peerSide>>

\* A request takes seconds of a tick of many minutes, unless it outlives its
\* sender's wait.
PassTime ==
    /\ \A s \in Senders : step[s] = "ready"
    /\ Tick
    /\ age' = [x \in DOMAIN age |-> IF x[2] <= published[x[1]] THEN Least(age[x] + 1, FreshnessWindow + 1)
                                    ELSE 0]
    /\ UNCHANGED <<originSide, networkVars, peerSide>>

----------------------------------------------------------------------------

SenderTurn(s) == Read(s) \/ PostRequest(s) \/ Record(s)

FederationNext ==
    \/ \E e \in Events : PublishUpdate(e) \/ DeleteEvent(e) \/ DeleteGathering(e)
    \/ \E j \in jobs : Queue(j) \/ QueueEnds(j)
    \/ \E s \in Senders : SenderTurn(s) \/ GiveUp(s) \/ StopSender(s)
    \/ \E r \in wire : Serve(r) \/ Lose(r)
    \/ \E p \in Peers : Administer(p)
    \/ PassTime

FederationSpec == FederationInit /\ [][FederationNext]_fedVars

\* A sender's loop goes on, and its HTTP client ends every request one way or
\* another; the store does not refuse one statement for ever; time passes.
FederationFairness ==
    /\ \A s \in Senders :
        /\ WF_fedVars(SenderTurn(s))
        /\ WF_fedVars(\E r \in wire : r.by = s /\ (Serve(r) \/ Lose(r)))
        /\ SF_fedVars(RecordRow(s) /\ Record(s))
        /\ SF_fedVars(RecordPeer(s) /\ Record(s))
    /\ SF_fedVars(PassTime)

FederationFairSpec == FederationSpec /\ FederationFairness

----------------------------------------------------------------------------
(* Properties *)

\* Every variable holds what it can hold, and only a sender waiting for a
\* request has one.
FederationTypeOK ==
    /\ gone \subseteq Events
    /\ tombs \subseteq Events \X Payloads
    /\ age \in [Events \X Payloads -> 0..FreshnessWindow + 1]
    /\ wire \subseteq Request
    /\ \A s \in Senders : step[s] = "posted" <=> \E r \in wire : r.by = s
    /\ phase \in [Keys \X Payloads -> {"new", "working", "applied", "abandoned"}]
    /\ held \subseteq Keys
    /\ late \in 0..MaxLate
    /\ decided \in [Keys -> 0..MaxPublishes]
    /\ raced \in [Keys -> BOOLEAN]

\* Nothing is on its way from the origin to the peer about the event.
Quiet(k) ==
    /\ jobs = {} /\ box[k].id = 0
    /\ \A s \in Senders : \A item \in Held(s) : KeyOf(item) # k
    /\ \A r \in wire : r.key # k

\* When the queue has nothing more to say of an event, the last thing the peer
\* did about it was to decide on the last payload queued, unless that payload
\* replaced one a sender had read, or met an older one on its way. Lost and
\* late answers, retries, refusals for rate, crashes and suspensions alone
\* never leave the peer with less, nor does it show what was taken back.
FinalStateIsKept ==
    \A k \in Keys : status[k[1]] # "removed" /\ queued[k] # 0 /\ Quiet(k) =>
        \/ overtaken[k] \/ raced[k]
        \/ decided[k] = queued[k] /\ (<<k[2], queued[k]>> \in tombs => k \notin held)

\* sender.go: a failing peer is retried, but not forever. Whatever a peer does
\* (refuse for rate every time, apply and never answer, fail every call) its
\* queue empties, or it is suspended, removed or no longer published to,
\* unless an administrator keeps resuming it.
RetriesEnd ==
    <>[][\A p \in Peers : ~ResumePeer(p)]_fedVars =>
        \A p \in Peers, e \in Events : Queued(p, e) ~> ~Deliverable(p, e)
=============================================================================
