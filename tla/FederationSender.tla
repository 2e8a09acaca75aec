-------------------------- MODULE FederationSender --------------------------
(***************************************************************************)
(* The origin's half of federation: federation.Publisher, which queues a   *)
(* signed payload once per peer, federation.Sender, which every replica    *)
(* runs to drain the queue, and the columns of federation_outbox and       *)
(* federation_peers they share (api/internal/federation/publish.go,        *)
(* sender.go, store/sqlite/federation.go).                                 *)
(*                                                                         *)
(* Time is discrete and relative: a row carries the ticks left until its   *)
(* next attempt, a peer the age of its failure run, and Tick moves all of  *)
(* them. A payload is the number of the PublishEvent call that built it.   *)
(***************************************************************************)
EXTENDS Integers, FiniteSets

CONSTANTS
    Peers,          \* peer rows, each known by the rank of its address
    Events,
    Senders,        \* one Sender loop per replica, none of which claims rows
    BatchSize,      \* rows one pass reads
    FailureWindow,  \* ticks of failure before a peer is suspended
    BaseDelay, MaxDelay, RateDelay,
    NoItem,
    \* Bounds of the model, none of them the code's
    MaxPublishes,   \* PublishEvent calls for one event
    MaxPublishers,  \* PublishEvent calls at work at once
    MaxCrashes,
    AttemptCap      \* attempts stop counting here, where the delay has saturated

Item == [peer : Peers, event : Events, id : Nat, payload : Nat, wait : Int, attempts : Nat]

ASSUME PeersAssumption == Peers \subseteq Nat \ {0} /\ IsFiniteSet(Peers) /\ IsFiniteSet(Events)
ASSUME SendersAssumption == IsFiniteSet(Senders)
ASSUME DelaysAssumption ==
    /\ FailureWindow \in Nat \ {0} /\ BatchSize \in Nat \ {0}
    /\ BaseDelay \in Nat \ {0} /\ MaxDelay \in Nat \ {0} /\ RateDelay \in Nat \ {0}
    /\ AttemptCap \in Nat
\* The exponent of the backoff is capped, so every delay is a number.
ASSUME PowersAssumption == \A k \in 0..16 : BaseDelay * 2^k \in Nat
ASSUME NoItemAssumption == NoItem \notin Item

VARIABLES
    box,        \* federation_outbox: the row of a peer and an event
    status,     \* outbound_status: "approved", "waiting" (any other), or "removed"
    suspended,  \* suspended_at is not null
    failAge,    \* ticks since first_failure_at, or NoRun
    jobs,       \* PublishEvent calls between OutboundPeers and their last insert
    batch,      \* what a Sender read and has not yet posted
    flight,     \* the item a Sender is delivering
    step,       \* where in the loop body a Sender is
    outcome,    \* how the delivery ended
    published,  \* PublishEvent calls so far, by event
    crashes,
    \* History, read by properties only
    queued,     \* the last payload inserted for a peer and an event
    answered,   \* payloads the peer accepted or refused outright
    overtaken,  \* the last insert replaced a payload that a Sender had read
    sinceReached, \* ticks since the peer last answered or was resumed
    overrun     \* deliveries begun since a suspension

peerVars == <<status, suspended, failAge>>
senderVars == <<batch, flight, step, outcome>>
publisherVars == <<jobs, published>>
history == <<queued, answered, overtaken, sinceReached, overrun>>
vars == <<box, peerVars, senderVars, publisherVars, crashes, history>>

NoRun == -1
Keys == Peers \X Events
Row == [id : Nat, payload : Nat, wait : Int, attempts : Nat]
NoRow == [id |-> 0, payload |-> 0, wait |-> 0, attempts |-> 0]
Job == [event : Events, payload : Nat, left : SUBSET Peers]
Outcomes == {"accepted", "rateLimited", "refused", "failed"}

Queued(p, e) == box[<<p, e>>].id # 0
Least(a, b) == IF a < b THEN a ELSE b

\* What a Sender holds in memory: rows as they were when its pass read them.
Held(s) == batch[s] \cup (IF step[s] = "ready" THEN {} ELSE {flight[s]})

Init ==
    /\ box = [k \in Keys |-> NoRow]
    /\ status = [p \in Peers |-> "approved"]
    /\ suspended = [p \in Peers |-> FALSE]
    /\ failAge = [p \in Peers |-> NoRun]
    /\ jobs = {}
    /\ batch = [s \in Senders |-> {}]
    /\ flight = [s \in Senders |-> NoItem]
    /\ step = [s \in Senders |-> "ready"]
    /\ outcome = [s \in Senders |-> "none"]
    /\ published = [e \in Events |-> 0]
    /\ crashes = 0
    /\ queued = [k \in Keys |-> 0]
    /\ answered = [k \in Keys |-> {}]
    /\ overtaken = [k \in Keys |-> FALSE]
    /\ sinceReached = [p \in Peers |-> 0]
    /\ overrun = [p \in Peers |-> 0]

----------------------------------------------------------------------------
(* Publisher *)

OutboundPeers == {p \in Peers : status[p] = "approved" /\ ~suspended[p]}

\* The peers are read and the payload signed once; inserting it is a loop.
PublishEvent(e) ==
    /\ published[e] < MaxPublishes
    /\ Cardinality(jobs) < MaxPublishers
    /\ OutboundPeers # {}
    /\ published' = [published EXCEPT ![e] = @ + 1]
    /\ jobs' = jobs \cup {[event |-> e, payload |-> published[e] + 1, left |-> OutboundPeers]}
    /\ UNCHANGED <<box, peerVars, senderVars, crashes, history>>

\* INSERT .. ON CONFLICT (peer_id, event_id) DO UPDATE: the row keeps its id.
\* A new row's id is the number of the payload it was inserted with.
EnqueueDelivery(p, e, n) ==
    /\ box' = [box EXCEPT ![<<p, e>>] = [id |-> IF Queued(p, e) THEN box[<<p, e>>].id ELSE n,
                                     payload |-> n, wait |-> 0, attempts |-> 0]]
    /\ queued' = [queued EXCEPT ![<<p, e>>] = n]
    /\ overtaken' = [overtaken EXCEPT ![<<p, e>>] =
            \E s \in Senders : \E item \in Held(s) :
                Queued(p, e) /\ item.peer = p /\ item.event = e /\ item.id = box[<<p, e>>].id]

Rest(j, p) == IF j.left = {p} THEN {}
              ELSE {[event |-> j.event, payload |-> j.payload, left |-> j.left \ {p}]}

\* One turn of the loop, in address order.
EnqueueNext(j) ==
    \E p \in j.left :
        /\ \A q \in j.left : p <= q
        /\ status[p] # "removed"
        /\ EnqueueDelivery(p, j.event, j.payload)
        /\ jobs' = (jobs \ {j}) \cup Rest(j, p)
        /\ UNCHANGED <<peerVars, senderVars, published, crashes, answered, sinceReached, overrun>>

\* The next peer was removed since it was read: the insert breaks its foreign
\* key, and the error returns past the peers that were still to come.
EnqueueFails(j) ==
    /\ \E p \in j.left : (\A q \in j.left : p <= q) /\ status[p] = "removed"
    /\ jobs' = jobs \ {j}
    /\ UNCHANGED <<box, peerVars, senderVars, published, crashes, history>>

----------------------------------------------------------------------------
(* Sender *)

ItemOf(p, e) == [peer |-> p, event |-> e, id |-> box[<<p, e>>].id, payload |-> box[<<p, e>>].payload,
                 wait |-> box[<<p, e>>].wait, attempts |-> box[<<p, e>>].attempts]

DueRows(among) == {ItemOf(k[1], k[2]) : k \in
    {x \in Keys : Queued(x[1], x[2]) /\ box[x].wait <= 0 /\ x[1] \in among}}

\* Mutant of Due: a suspended peer's rows are still due.
DueThoughSuspended == DueRows({p \in Peers : status[p] = "approved"})

Due == DueRows({p \in Peers : status[p] = "approved" /\ ~suspended[p]})

\* Mutant of DueDeliveries: no ORDER BY, so LIMIT may cut the oldest rows.
DueInNoOrder == {found \in SUBSET Due : Cardinality(found) = Least(BatchSize, Cardinality(Due))}

\* ORDER BY next_attempt_at LIMIT BatchSize. Nothing is claimed, so the passes
\* of two replicas may hold the same row.
DueDeliveries == {found \in SUBSET Due :
    /\ Cardinality(found) = Least(BatchSize, Cardinality(Due))
    /\ \A i \in found, j \in Due \ found : i.wait <= j.wait}

StartPass(s) ==
    /\ step[s] = "ready" /\ batch[s] = {}
    /\ \E found \in DueDeliveries \ {{}} : batch' = [batch EXCEPT ![s] = found]
    /\ UNCHANGED <<box, peerVars, flight, step, outcome, publisherVars, crashes, history>>

\* The request goes out with the bytes the pass read.
Post(s) ==
    /\ step[s] = "ready"
    /\ \E item \in batch[s] :
        /\ \A other \in batch[s] : item.wait <= other.wait
        /\ batch' = [batch EXCEPT ![s] = @ \ {item}]
        /\ flight' = [flight EXCEPT ![s] = item]
        /\ overrun' = IF suspended[item.peer]
                      THEN [overrun EXCEPT ![item.peer] = @ + 1] ELSE overrun
    /\ step' = [step EXCEPT ![s] = "posted"]
    /\ UNCHANGED <<box, peerVars, outcome, publisherVars, crashes,
                   queued, answered, overtaken, sinceReached>>

\* The receipt, or any error on the way to reading one.
Answer(s, o) ==
    /\ step[s] = "posted"
    /\ step' = [step EXCEPT ![s] = "answered"]
    /\ outcome' = [outcome EXCEPT ![s] = o]
    /\ answered' = IF o \in {"accepted", "refused"}
                   THEN [answered EXCEPT ![<<flight[s].peer, flight[s].event>>] = @ \cup {flight[s].payload}]
                   ELSE answered
    /\ UNCHANGED <<box, peerVars, batch, flight, publisherVars, crashes,
                   queued, overtaken, sinceReached, overrun>>

NextWait(attempts) ==
    LET delay == BaseDelay * 2^Least(attempts, 16)
    IN  IF delay > MaxDelay \/ delay <= 0 THEN MaxDelay ELSE delay

\* UPDATE or DELETE .. WHERE id = the id of the row the pass read.
WriteRow(item, row) ==
    box' = IF box[<<item.peer, item.event>>].id = item.id
           THEN [box EXCEPT ![<<item.peer, item.event>>] = row] ELSE box

MarkDelivered(item) == WriteRow(item, NoRow)

MarkDeliveryFailed(item) ==
    LET row == box[<<item.peer, item.event>>]
    IN  WriteRow(item, [id |-> row.id, payload |-> row.payload,
                        wait |-> NextWait(item.attempts),
                        attempts |-> Least(row.attempts + 1, AttemptCap)])

\* Mutant of DeferDelivery: a refusal for rate is taken for a delivery.
DropForRate(item) == MarkDelivered(item)

DeferDelivery(item) ==
    WriteRow(item, [box[<<item.peer, item.event>>] EXCEPT !.wait = RateDelay])

\* The first of the two statements that record a delivery.
RecordRow(s) ==
    /\ step[s] = "answered"
    /\ \/ outcome[s] \in {"accepted", "refused"} /\ MarkDelivered(flight[s])
       \/ outcome[s] = "rateLimited" /\ DeferDelivery(flight[s])
       \/ outcome[s] = "failed" /\ MarkDeliveryFailed(flight[s])
    /\ step' = [step EXCEPT ![s] = "recorded"]
    /\ UNCHANGED <<peerVars, batch, flight, outcome, publisherVars, crashes, history>>

\* That statement returns an error, which is logged; the second one is still made.
RecordRowFails(s) ==
    /\ step[s] = "answered"
    /\ step' = [step EXCEPT ![s] = "recorded"]
    /\ UNCHANGED <<box, peerVars, batch, flight, outcome, publisherVars, crashes, history>>

\* Mutant of RecordDeliverySuccess: the failure run is left open.
SuccessLeavesRunOpen(p) == UNCHANGED <<failAge, suspended>>

RecordDeliverySuccess(p) ==
    /\ failAge' = [failAge EXCEPT ![p] = NoRun]
    /\ UNCHANGED suspended

\* Mutant of RecordDeliveryFailure: the run is measured from its last failure.
FailureRestartsRun(p) ==
    /\ failAge' = [failAge EXCEPT ![p] = 0]
    /\ suspended' = [suspended EXCEPT ![p] = @ \/ failAge[p] >= FailureWindow]

\* first_failure_at = COALESCE(first_failure_at, now), and the suspension when
\* that is at or before now less the window.
RecordDeliveryFailure(p) ==
    /\ failAge' = [failAge EXCEPT ![p] = IF @ = NoRun THEN 0 ELSE @]
    /\ suspended' = [suspended EXCEPT ![p] = @ \/ failAge[p] >= FailureWindow]

\* Mutant of DoneWith: the loop body does not end.
DoneButForItsStep(s) ==
    /\ flight' = [flight EXCEPT ![s] = NoItem]
    /\ outcome' = [outcome EXCEPT ![s] = "none"]
    /\ UNCHANGED step

\* The loop body ends.
DoneWith(s) ==
    /\ step' = [step EXCEPT ![s] = "ready"]
    /\ flight' = [flight EXCEPT ![s] = NoItem]
    /\ outcome' = [outcome EXCEPT ![s] = "none"]

\* The second statement. Any answer, a refusal included, is a success here.
RecordPeer(s) ==
    LET p == flight[s].peer
    IN  /\ step[s] = "recorded" /\ status[p] # "removed"
        /\ IF outcome[s] = "failed"
           THEN RecordDeliveryFailure(p) /\ UNCHANGED sinceReached
           ELSE RecordDeliverySuccess(p) /\ sinceReached' = [sinceReached EXCEPT ![p] = 0]
        /\ DoneWith(s)
        /\ UNCHANGED <<box, status, batch, publisherVars, crashes,
                       queued, answered, overtaken, overrun>>

\* The peer was removed and has no row to update, or the statement returns an
\* error, which is logged.
RecordPeerFails(s) ==
    /\ step[s] = "recorded"
    /\ DoneWith(s)
    /\ UNCHANGED <<box, peerVars, batch, publisherVars, crashes, history>>

----------------------------------------------------------------------------
(* The administrator, the clock and the process *)

\* SetPeerStatus with an outbound status: the other columns stay as they are.
SetOutboundStatus(p) ==
    /\ status[p] # "removed"
    /\ status' = [status EXCEPT ![p] = IF @ = "approved" THEN "waiting" ELSE "approved"]
    /\ UNCHANGED <<box, suspended, failAge, senderVars, publisherVars, crashes, history>>

\* Everything waiting for the peer becomes due now, its attempts forgotten.
DueNow(row) == [id |-> row.id, payload |-> row.payload, wait |-> 0, attempts |-> 0]
RequeueAll(p) == [k \in Keys |-> IF k[1] = p /\ box[k].id # 0 THEN DueNow(box[k]) ELSE box[k]]

\* One transaction over the peer and its rows.
ResumePeer(p) ==
    /\ status[p] # "removed"
    /\ suspended' = [suspended EXCEPT ![p] = FALSE]
    /\ failAge' = [failAge EXCEPT ![p] = NoRun]
    /\ box' = RequeueAll(p)
    /\ sinceReached' = [sinceReached EXCEPT ![p] = 0]
    /\ overrun' = [overrun EXCEPT ![p] = 0]
    /\ UNCHANGED <<status, senderVars, publisherVars, crashes, queued, answered, overtaken>>

\* ON DELETE CASCADE takes the peer's rows with it. A peer added again is
\* another row of federation_peers, so another member of Peers.
RemovePeer(p) ==
    /\ status[p] # "removed"
    /\ status' = [status EXCEPT ![p] = "removed"]
    /\ suspended' = [suspended EXCEPT ![p] = FALSE]
    /\ failAge' = [failAge EXCEPT ![p] = NoRun]
    /\ box' = [k \in Keys |-> IF k[1] = p THEN NoRow ELSE box[k]]
    /\ UNCHANGED <<senderVars, publisherVars, crashes, history>>

\* A row's wait a tick later. Of how overdue a row is only the order matters,
\* so an overdue row counts the rows that came due after it and by now.
DueAfter(k) == {x \in Keys : box[x].id # 0 /\ box[k].wait < box[x].wait /\ box[x].wait <= 0}
Aged(k) == IF box[k].wait > 0 THEN box[k].wait - 1 ELSE -1 - Cardinality(DueAfter(k))

\* Time passes anywhere except between the statements that record a delivery,
\* which take milliseconds of a tick of many seconds.
Tick ==
    /\ \A s \in Senders : step[s] \in {"ready", "posted"}
    /\ box' = [k \in Keys |-> IF box[k].id = 0 THEN box[k]
                              ELSE [box[k] EXCEPT !.wait = Aged(k)]]
    /\ failAge' = [p \in Peers |-> IF failAge[p] = NoRun THEN NoRun
                                   ELSE Least(failAge[p] + 1, FailureWindow)]
    /\ sinceReached' = [p \in Peers |-> Least(sinceReached[p] + 1, FailureWindow)]
    /\ UNCHANGED <<status, suspended, senderVars, publisherVars, crashes,
                   queued, answered, overtaken, overrun>>

\* A replica's Sender stops and starts again: what it had read is gone.
CrashSender(s) ==
    /\ crashes < MaxCrashes
    /\ Held(s) # {}
    /\ crashes' = crashes + 1
    /\ batch' = [batch EXCEPT ![s] = {}]
    /\ DoneWith(s)
    /\ UNCHANGED <<box, peerVars, publisherVars, history>>

\* A replica stops inside a PublishEvent: the remaining peers get nothing.
CrashPublisher(j) ==
    /\ crashes < MaxCrashes
    /\ crashes' = crashes + 1
    /\ jobs' = jobs \ {j}
    /\ UNCHANGED <<box, peerVars, senderVars, published, history>>

----------------------------------------------------------------------------

SenderStep(s) ==
    \/ StartPass(s)
    \/ Post(s)
    \/ \E o \in Outcomes : Answer(s, o)
    \/ RecordRow(s) \/ RecordRowFails(s)
    \/ RecordPeer(s) \/ RecordPeerFails(s)

Admin(p) == SetOutboundStatus(p) \/ ResumePeer(p) \/ RemovePeer(p)

Next ==
    \/ \E e \in Events : PublishEvent(e)
    \/ \E j \in jobs : EnqueueNext(j) \/ EnqueueFails(j) \/ CrashPublisher(j)
    \/ \E s \in Senders : SenderStep(s) \/ CrashSender(s)
    \/ \E p \in Peers : Admin(p)
    \/ Tick

Spec == Init /\ [][Next]_vars

\* The ticker starts passes and the loop runs to its end (the HTTP client has a
\* timeout, so every request is answered or fails); the store does not refuse
\* one statement forever; time does not stop.
Fairness ==
    /\ \A s \in Senders : WF_vars(SenderStep(s)) /\ SF_vars(RecordRow(s))
    /\ SF_vars(Tick)

FairSpec == Spec /\ Fairness

----------------------------------------------------------------------------
(* Properties *)

\* Every variable holds what its column or its local can hold.
TypeOK ==
    /\ box \in [Keys -> Row]
    /\ status \in [Peers -> {"approved", "waiting", "removed"}]
    /\ suspended \in [Peers -> BOOLEAN]
    /\ failAge \in [Peers -> (0..FailureWindow) \cup {NoRun}]
    /\ jobs \subseteq Job
    /\ batch \in [Senders -> SUBSET Item]
    /\ flight \in [Senders -> Item \cup {NoItem}]
    /\ step \in [Senders -> {"ready", "posted", "answered", "recorded"}]
    /\ \A s \in Senders : step[s] # "ready" => flight[s] \in Item
    /\ outcome \in [Senders -> Outcomes \cup {"none"}]
    /\ published \in [Events -> Nat]
    /\ crashes \in Nat
    /\ queued \in [Keys -> Nat]
    /\ answered \in [Keys -> SUBSET Nat]
    /\ overtaken \in [Keys -> BOOLEAN]
    /\ sinceReached \in [Peers -> 0..FailureWindow]
    /\ overrun \in [Peers -> Nat]

\* The only payload that can leave the queue without the peer having accepted
\* it or refused it outright is one inserted over a row that a Sender had
\* already read: MarkDelivered then deletes by the id the new payload kept.
\* A refusal for rate, a failure, a crash, a second replica or a store error
\* loses nothing.
OnlyOvertakenIsLost ==
    \A p \in Peers, e \in Events :
        queued[<<p, e>>] # 0 /\ status[p] # "removed" =>
            \/ Queued(p, e) /\ box[<<p, e>>].payload = queued[<<p, e>>]
            \/ queued[<<p, e>>] \in answered[<<p, e>>]
            \/ overtaken[<<p, e>>]

\* The inductive strengthening of OnlyOvertakenIsLost.
\* A row holds the last payload queued, and a removed peer has no row.
RowIsLastQueued ==
    \A p \in Peers, e \in Events : Queued(p, e) =>
        status[p] # "removed" /\ box[<<p, e>>].payload = queued[<<p, e>>]

\* What a Sender holds of a row is what the row still holds, unless overtaken.
HeldIsCurrent ==
    \A s \in Senders : \A item \in Held(s) :
        LET k == <<item.peer, item.event>>
        IN  box[k].id = item.id => item.payload = box[k].payload \/ overtaken[k]

\* A delivery settled by its outcome was answered for with its own payload.
SettledIsAnswered ==
    \A s \in Senders : step[s] \in {"answered", "recorded"} /\ outcome[s] \in {"accepted", "refused"}
        => flight[s].payload \in answered[<<flight[s].peer, flight[s].event>>]

\* Row ids are fresh: no row and no item in memory has the id that a waiting
\* insert would give, and no two calls for an event have the same payload.
IdsAreFresh ==
    /\ \A i, j \in jobs : i.event = j.event /\ i.payload = j.payload => i = j
    /\ \A j \in jobs : j.payload \in 1..published[j.event]
    /\ \A j \in jobs : \A p \in j.left : box[<<p, j.event>>].id # j.payload
    /\ \A j \in jobs, s \in Senders : \A item \in Held(s) :
          item.event = j.event /\ item.peer \in j.left => item.id # j.payload
    /\ \A p \in Peers, e \in Events : box[<<p, e>>].id <= published[e]
    /\ \A s \in Senders : \A item \in Held(s) : item.id # 0 /\ item.id <= published[item.event]

NoLossInv == RowIsLastQueued /\ HeldIsCurrent /\ SettledIsAnswered /\ IdsAreFresh /\ OnlyOvertakenIsLost

\* A peer is suspended only when it has been unreachable for the whole window:
\* no answer, not even a refusal for rate, and no resume was recorded in it,
\* whichever replica saw the failures.
SuspendedOnlyAfterAWindow ==
    [][\A p \in Peers : ~suspended[p] /\ suspended'[p] => sinceReached[p] = FailureWindow]_vars

\* Its inductive strengthening: a failure run is no older than the silence.
RunIsYoung == \A p \in Peers : failAge[p] <= sinceReached[p]

\* Suspension stops deliveries: at most the items already read by the passes
\* under way still go out to the peer.
BoundedOverrun ==
    \A p \in Peers : overrun[p] <= BatchSize * Cardinality(Senders)

\* A suspension ends only with everything queued for the peer due at once and
\* its backoff forgotten (or with the peer itself).
LiftedSuspensionRequeues ==
    [][\A p \in Peers : suspended[p] /\ ~suspended'[p] =>
          \A e \in Events : box'[<<p, e>>].id # 0 => box'[<<p, e>>].wait = 0 /\ box'[<<p, e>>].attempts = 0]_vars

\* No queued row starves behind others, however few rows a pass reads: unless
\* the peer stops being sent to, every row is posted or gone. (A resume makes
\* all of a peer's rows tie again, so an administrator who resumes it before
\* every pass, for ever, is left out.)
Deliverable(p, e) == Queued(p, e) /\ status[p] = "approved" /\ ~suspended[p]
Posting(p, e) == \E s \in Senders :
    step[s] # "ready" /\ flight[s].peer = p /\ flight[s].event = e
AttemptedEventually ==
    <>[][\A p \in Peers : ~ResumePeer(p)]_vars =>
        \A p \in Peers, e \in Events : Deliverable(p, e) ~> (Posting(p, e) \/ ~Deliverable(p, e))
=============================================================================
