-------------------------- MODULE DirectoryReceiver --------------------------
(***************************************************************************)
(* The receiving half of federation: FederationService.DeliverEvents, many *)
(* calls of which run at once on any replica, the replay table, the two    *)
(* allowances it spends (api/internal/csilservices/federation.go,          *)
(* store/sqlite/federation.go, store/sqlite/settings.go) and the hourly    *)
(* sweep (api/cmd/serve.go). One peer: every statement is keyed by its id. *)
(*                                                                         *)
(* A tick is the minute the allowances are counted in. An envelope, once   *)
(* sent, may arrive any number of times, at any time and in any order. A   *)
(* refusal that changes nothing is not a step.                             *)
(***************************************************************************)
EXTENDS Integers, FiniteSets, Sequences

CONSTANTS
    Calls,              \* DeliverEvents calls that may be at work at once
    Ids,                \* batch ids, one per envelope the peer signs
    Batches,            \* the event lists an envelope may carry
    NoBatch,
    Events, Orgs, Peer,
    FreshnessWindow,    \* in ticks
    Retention,          \* RetentionDays in ticks; none below 1
    PeerLimit, OriginLimit,     \* per-minute settings; no limit below 1
    Overrides,          \* what an administrator sets on the peer
    NoOverride,
    \* Bounds of the model, none of them the code's
    MaxSkew,            \* how far the peer's clock is from this one
    MaxClock,
    MaxFaults

FederatedEvent ==
    [event : Events, org : Orgs, deleted : BOOLEAN, valid : BOOLEAN, ends : Nat]

ASSUME BatchesAssumption == Batches \subseteq Seq(FederatedEvent)
ASSUME WindowAssumption ==
    FreshnessWindow \in Nat /\ Retention \in Int /\ MaxSkew \in Nat /\ MaxClock \in Nat
ASSUME LimitsAssumption ==
    PeerLimit \in Int /\ OriginLimit \in Int /\ Overrides \subseteq Int /\ NoOverride \notin Int
ASSUME AccountsAssumption == Peer \notin Orgs /\ NoBatch \notin Ids

VARIABLES
    now,
    status,         \* inbound_status: "approved", "waiting" (any other), or "removed"
    override,       \* rate_limit_per_minute of the peer
    seen,           \* federation_seen_batches: seen_at, or Never
    rows,           \* remote_events: the envelope that wrote an event last, its ends_at
    window,         \* the rate window of the peer and of each organization
    sent,           \* envelopes the peer has signed
    faults,
    \* The locals of a call
    pc,             \* "idle", "admitted", "claimed" or "charged"
    env,            \* its batch id
    own,            \* the override it read with the peer
    budget,         \* peerBudget, and budget by organization
    unpaid,         \* organizations whose allowance it has yet to take
    next,           \* the event it walks next
    receipt,        \* accepted, rejected and rate-limited so far
    \* History, read by properties only
    reached,        \* events of its batch that a call acted on
    consumed,       \* envelopes applied in full
    broken,         \* envelopes whose call ended without releasing its claim
    minute,         \* the windows a call's allowances were counted in
    stored          \* updates stored on the allowance of a window, by account and window

peerVars == <<status, override>>
locals == <<env, own, budget, unpaid, next, receipt, reached, minute>>
vars == <<now, peerVars, seen, rows, window, sent, faults, pc, locals,
          consumed, broken, stored>>

Never == -1
NotSent == [at |-> 0, events |-> <<>>]
NoRow == [from |-> NoBatch, ends |-> 0]
NoReceipt == [accepted |-> 0, rejected |-> 0, limited |-> 0]
Minutes == 0..MaxClock
\* Who has an allowance: the peer, and each organization inside it.
Accounts == Orgs \cup {Peer}
Unlimited == 2147483647

Least(a, b) == IF a < b THEN a ELSE b
Most(a, b) == IF a > b THEN a ELSE b

Batch(c) == sent[env[c]].events
Current(c) == Batch(c)[next[c]]
Updates(b) == {i \in DOMAIN b : ~b[i].deleted}

Init ==
    /\ now = 0
    /\ status = "approved" /\ override = NoOverride
    /\ seen = [i \in Ids |-> Never]
    /\ rows = [e \in Events |-> NoRow]
    /\ window = [a \in Accounts |-> [start |-> Never, count |-> 0]]
    /\ sent = [i \in Ids |-> NotSent]
    /\ faults = 0
    /\ pc = [c \in Calls |-> "idle"]
    /\ env = [c \in Calls |-> NoBatch]
    /\ own = [c \in Calls |-> NoOverride]
    /\ budget = [c \in Calls |-> [a \in Accounts |-> 0]]
    /\ unpaid = [c \in Calls |-> {}]
    /\ next = [c \in Calls |-> 1]
    /\ receipt = [c \in Calls |-> NoReceipt]
    /\ reached = [c \in Calls |-> {}]
    /\ consumed = {} /\ broken = {}
    /\ minute = [c \in Calls |-> [a \in Accounts |-> Never]]
    /\ stored = [k \in Accounts \X Minutes |-> 0]

----------------------------------------------------------------------------
(* Admission *)

\* The peer signs a batch, by a clock that may be ahead of this one or behind.
Send(i, b, at) ==
    /\ sent[i] = NotSent
    /\ sent' = [sent EXCEPT ![i] = [at |-> at, events |-> b]]
    /\ UNCHANGED <<now, peerVars, seen, rows, window, faults, pc, locals,
                   consumed, broken, stored>>

\* verifiedPeer, and the inbound status of the row it read. Verification asks
\* the network for the sender's keys, so much may happen before the claim.
Admit(c, i) ==
    /\ pc[c] = "idle" /\ sent[i] # NotSent
    /\ status = "approved"
    /\ pc' = [pc EXCEPT ![c] = "admitted"]
    /\ env' = [env EXCEPT ![c] = i]
    /\ own' = [own EXCEPT ![c] = override]
    /\ UNCHANGED <<now, peerVars, seen, rows, window, sent, faults, budget, unpaid, next,
                   receipt, reached, minute, consumed, broken, stored>>

Fresh(i) == now - sent[i].at <= FreshnessWindow /\ sent[i].at - now <= FreshnessWindow

\* The call returns, and its locals with it.
Return(c) ==
    /\ pc' = [pc EXCEPT ![c] = "idle"]
    /\ env' = [env EXCEPT ![c] = NoBatch]
    /\ own' = [own EXCEPT ![c] = NoOverride]
    /\ budget' = [budget EXCEPT ![c] = [a \in Accounts |-> 0]]
    /\ unpaid' = [unpaid EXCEPT ![c] = {}]
    /\ next' = [next EXCEPT ![c] = 1]
    /\ receipt' = [receipt EXCEPT ![c] = NoReceipt]
    /\ reached' = [reached EXCEPT ![c] = {}]
    /\ minute' = [minute EXCEPT ![c] = [a \in Accounts |-> Never]]

\* Mutant of Claim: the insert replaces an earlier row.
ClaimAgain(c) ==
    /\ pc[c] = "admitted"
    /\ Fresh(env[c])
    /\ status # "removed"
    /\ seen' = [seen EXCEPT ![env[c]] = now]
    /\ pc' = [pc EXCEPT ![c] = "claimed"]
    /\ UNCHANGED <<now, peerVars, rows, window, sent, faults, locals,
                   consumed, broken, stored>>

\* RememberBatch: the insert is the check.
Claim(c) ==
    /\ pc[c] = "admitted"
    /\ Fresh(env[c])
    /\ seen[env[c]] = Never /\ status # "removed"
    /\ seen' = [seen EXCEPT ![env[c]] = now]
    /\ pc' = [pc EXCEPT ![c] = "claimed"]
    /\ UNCHANGED <<now, peerVars, rows, window, sent, faults, locals,
                   consumed, broken, stored>>

\* Out of the window, already applied (or being applied), or the peer is gone
\* and the insert breaks its foreign key.
RefuseClaim(c) ==
    /\ pc[c] = "admitted"
    /\ ~Fresh(env[c]) \/ seen[env[c]] # Never \/ status = "removed"
    /\ Return(c)
    /\ UNCHANGED <<now, peerVars, seen, rows, window, sent, faults, consumed, broken, stored>>

----------------------------------------------------------------------------
(* Allowances *)

\* The first `allowed` updates of the batch: those the peer's allowance admits.
Admissible(b, allowed) ==
    {i \in Updates(b) : Cardinality({j \in Updates(b) : j <= i}) <= allowed}

\* The one UPDATE that takes an allowance for minute m. A statement that was
\* late for its minute counts in the window it finds.
Used(a, m) == IF window[a].start < m THEN 0 ELSE window[a].count

\* Mutant of NewCount: a limit lowered in mid-minute takes back what was spent.
CappedCount(a, m, wanted, limit) == Least(Used(a, m) + wanted, limit)

NewCount(a, m, wanted, limit) == Least(Used(a, m) + wanted, Most(limit, Used(a, m)))
Allowed(a, m, wanted, limit) == NewCount(a, m, wanted, limit) - Used(a, m)

\* Mutant of TakeAllowance: the window moves back for a late statement.
TakeAllowanceBackwards(c, a, m, wanted, limit) ==
    /\ window' = [window EXCEPT ![a] = [start |-> m, count |-> NewCount(a, m, wanted, limit)]]
    /\ minute' = [minute EXCEPT ![c][a] = m]

TakeAllowance(c, a, m, wanted, limit) ==
    LET start == Most(window[a].start, m)
    IN  /\ window' = [window EXCEPT ![a] = [start |-> start, count |-> NewCount(a, m, wanted, limit)]]
        /\ minute' = [minute EXCEPT ![c][a] = start]

\* The minute of s.now(), read before the statement runs.
Issued == {now - 1, now} \cap Minutes

\* ConsumePeerAllowance over the batch's updates, and the share of them each
\* organization will ask for.
ChargePeer(c, m) ==
    LET limit == IF own[c] = NoOverride THEN PeerLimit ELSE own[c]
        wanted == Cardinality(Updates(Batch(c)))
        counted == limit > 0 /\ wanted > 0
        allowed == IF counted THEN Allowed(Peer, m, wanted, limit) ELSE wanted
        share == [o \in Orgs |-> Cardinality({i \in Admissible(Batch(c), allowed) : Batch(c)[i].org = o})]
    IN  /\ pc[c] = "claimed"
        /\ counted => status # "removed"
        /\ IF counted THEN TakeAllowance(c, Peer, m, wanted, limit) ELSE UNCHANGED <<window, minute>>
        /\ budget' = [budget EXCEPT ![c] = [a \in Accounts |-> IF a = Peer THEN allowed ELSE share[a]]]
        /\ unpaid' = [unpaid EXCEPT ![c] = {o \in Orgs : share[o] > 0}]
        /\ receipt' = [receipt EXCEPT ![c].limited = wanted - allowed]
        /\ pc' = [pc EXCEPT ![c] = "charged"]
        /\ UNCHANGED <<now, peerVars, seen, rows, sent, faults, env, own, next, reached,
                       consumed, broken, stored>>

\* ConsumeOriginAllowance, for the organizations in any order.
ChargeOrigin(c, o, m) ==
    LET limit == IF OriginLimit <= 0 THEN Unlimited ELSE OriginLimit
        wanted == budget[c][o]
        allowed == Allowed(o, m, wanted, limit)
    IN  /\ pc[c] = "charged" /\ o \in unpaid[c]
        /\ status # "removed"
        /\ TakeAllowance(c, o, m, wanted, limit)
        /\ budget' = [budget EXCEPT ![c][o] = allowed]
        /\ unpaid' = [unpaid EXCEPT ![c] = @ \ {o}]
        /\ receipt' = [receipt EXCEPT ![c].limited = @ + wanted - allowed]
        /\ UNCHANGED <<now, peerVars, seen, rows, sent, faults, pc, env, own, next, reached,
                       consumed, broken, stored>>

----------------------------------------------------------------------------
(* The walk *)

Walking(c) == pc[c] = "charged" /\ unpaid[c] = {} /\ next[c] \in DOMAIN Batch(c)
OverBudget(c) == budget[c][Peer] <= 0 \/ budget[c][Current(c).org] <= 0

Acted(c) == next' = [next EXCEPT ![c] = @ + 1] /\ reached' = [reached EXCEPT ![c] = @ \cup {next[c]}]

Spend(c) == budget' = [budget EXCEPT ![c][Peer] = @ - 1, ![c][Current(c).org] = @ - 1]

\* DeleteRemoteEvent. One for something never held counts as rejected.
ApplyTombstone(c) ==
    /\ Walking(c) /\ Current(c).deleted
    /\ rows' = [rows EXCEPT ![Current(c).event] = NoRow]
    /\ receipt' = IF rows[Current(c).event] # NoRow
                  THEN [receipt EXCEPT ![c].accepted = @ + 1]
                  ELSE [receipt EXCEPT ![c].rejected = @ + 1]
    /\ Acted(c)
    /\ UNCHANGED <<now, peerVars, seen, window, sent, faults, pc, env, own, budget, unpaid, minute,
                   consumed, broken, stored>>

\* Mutant of SkipForRate: the budgets are looked at before the kind of event.
SkipTombstonesToo(c) ==
    /\ Walking(c) /\ OverBudget(c)
    /\ next' = [next EXCEPT ![c] = @ + 1]
    /\ UNCHANGED <<now, peerVars, seen, rows, window, sent, faults, pc, env, own, budget, unpaid,
                   receipt, reached, minute, consumed, broken, stored>>

SkipForRate(c) ==
    /\ Walking(c) /\ ~Current(c).deleted /\ OverBudget(c)
    /\ next' = [next EXCEPT ![c] = @ + 1]
    /\ UNCHANGED <<now, peerVars, seen, rows, window, sent, faults, pc, env, own, budget, unpaid,
                   receipt, reached, minute, consumed, broken, stored>>

\* validateFederatedEvent finds a problem, the allowance already spent.
RejectInvalid(c) ==
    /\ Walking(c) /\ ~Current(c).deleted /\ ~OverBudget(c) /\ ~Current(c).valid
    /\ Spend(c)
    /\ receipt' = [receipt EXCEPT ![c].rejected = @ + 1]
    /\ Acted(c)
    /\ UNCHANGED <<now, peerVars, seen, rows, window, sent, faults, pc, env, own, unpaid, minute,
                   consumed, broken, stored>>

\* UpsertRemoteEvent. The statistics of RecordOriginAccepted are left out.
StoreUpdate(c) ==
    /\ Walking(c) /\ ~Current(c).deleted /\ ~OverBudget(c) /\ Current(c).valid
    /\ status # "removed"
    /\ Spend(c)
    /\ rows' = [rows EXCEPT ![Current(c).event] = [from |-> env[c], ends |-> Current(c).ends]]
    /\ receipt' = [receipt EXCEPT ![c].accepted = @ + 1]
    /\ Acted(c)
    /\ stored' = [k \in DOMAIN stored |->
            IF k[1] \in {Peer, Current(c).org} /\ minute[c][k[1]] = k[2] THEN stored[k] + 1 ELSE stored[k]]
    /\ UNCHANGED <<now, peerVars, seen, window, sent, faults, pc, env, own, unpaid, minute,
                   consumed, broken>>

----------------------------------------------------------------------------
(* The end of a call *)

\* The deferred ForgetBatch, which may itself fail: that is logged.
Release(c) ==
    \/ seen' = [seen EXCEPT ![env[c]] = Never] /\ UNCHANGED <<broken, faults>>
    \/ /\ faults < MaxFaults /\ faults' = faults + 1
       /\ broken' = broken \cup {env[c]} /\ UNCHANGED seen

Finished(c) == pc[c] = "charged" /\ unpaid[c] = {} /\ next[c] \notin DOMAIN Batch(c)

\* Nothing was deferred for rate: the claim stays.
FinishApplied(c) ==
    /\ Finished(c) /\ receipt[c].limited = 0
    /\ Return(c)
    /\ consumed' = consumed \cup {env[c]}
    /\ UNCHANGED <<now, peerVars, seen, rows, window, sent, faults, broken, stored>>

FinishLimited(c) ==
    /\ Finished(c) /\ receipt[c].limited # 0
    /\ Return(c)
    /\ Release(c)
    /\ UNCHANGED <<now, peerVars, rows, window, sent, consumed, stored>>

\* Mutant of Fail: the claim is only released for a batch refused for rate.
FailKeepsClaim(c) ==
    /\ pc[c] \in {"claimed", "charged"} /\ ~Finished(c)
    /\ Return(c)
    /\ UNCHANGED <<now, peerVars, seen, rows, window, sent, faults, consumed, broken, stored>>

\* A statement returns an error, which a removed peer's foreign keys make sure of.
Fail(c) ==
    /\ pc[c] \in {"claimed", "charged"} /\ ~Finished(c)
    /\ Walking(c) => Current(c).deleted \/ (~OverBudget(c) /\ Current(c).valid)
    /\ Return(c)
    /\ Release(c)
    /\ UNCHANGED <<now, peerVars, rows, window, sent, consumed, stored>>

\* The replica stops, or the sender gives up waiting: the request's context is
\* cancelled, and with it the statement that would release the claim.
Abandon(c) ==
    /\ pc[c] # "idle" /\ faults < MaxFaults
    /\ faults' = faults + 1
    /\ Return(c)
    /\ broken' = IF pc[c] = "admitted" THEN broken ELSE broken \cup {env[c]}
    /\ UNCHANGED <<now, peerVars, seen, rows, window, sent, consumed, stored>>

----------------------------------------------------------------------------
(* The administrator, the clock and the sweep *)

SetInboundStatus ==
    /\ status # "removed"
    /\ status' = IF status = "approved" THEN "waiting" ELSE "approved"
    /\ UNCHANGED <<now, override, seen, rows, window, sent, faults, pc, locals,
                   consumed, broken, stored>>

SetPeerRateLimit(limit) ==
    /\ status # "removed" /\ override # limit
    /\ override' = limit
    /\ UNCHANGED <<now, status, seen, rows, window, sent, faults, pc, locals,
                   consumed, broken, stored>>

\* Everything kept about the peer goes with it.
RemovePeer ==
    /\ status # "removed"
    /\ status' = "removed" /\ override' = NoOverride
    /\ seen' = [i \in Ids |-> Never]
    /\ rows' = [e \in Events |-> NoRow]
    /\ window' = [a \in Accounts |-> [start |-> Never, count |-> 0]]
    /\ UNCHANGED <<now, sent, faults, pc, locals, consumed, broken, stored>>

Tick ==
    /\ now < MaxClock
    /\ now' = now + 1
    /\ UNCHANGED <<peerVars, seen, rows, window, sent, faults, pc, locals,
                   consumed, broken, stored>>

\* Mutant of SweepBatches: ids are kept for one freshness window.
SweepBatchesEarly ==
    /\ Retention > 0
    /\ seen' = [i \in Ids |-> IF seen[i] < now - FreshnessWindow THEN Never ELSE seen[i]]
    /\ UNCHANGED <<now, peerVars, rows, window, sent, faults, pc, locals,
                   consumed, broken, stored>>

\* The two statements of the sweep; either goes ahead if the other fails.
SweepBatches ==
    /\ Retention > 0
    /\ seen' = [i \in Ids |-> IF seen[i] < now - 2 * FreshnessWindow THEN Never ELSE seen[i]]
    /\ UNCHANGED <<now, peerVars, rows, window, sent, faults, pc, locals,
                   consumed, broken, stored>>

SweepEvents ==
    /\ Retention > 0
    /\ rows' = [e \in Events |-> IF rows[e].ends < now - Retention THEN NoRow ELSE rows[e]]
    /\ UNCHANGED <<now, peerVars, seen, window, sent, faults, pc, locals,
                   consumed, broken, stored>>

----------------------------------------------------------------------------

Walk(c) == ApplyTombstone(c) \/ SkipForRate(c) \/ RejectInvalid(c) \/ StoreUpdate(c)

DeliverEvents(c) ==
    \/ \E i \in Ids : Admit(c, i)
    \/ Claim(c) \/ RefuseClaim(c)
    \/ \E m \in Issued : ChargePeer(c, m) \/ \E o \in Orgs : ChargeOrigin(c, o, m)
    \/ Walk(c)
    \/ FinishApplied(c) \/ FinishLimited(c)
    \/ Fail(c) \/ Abandon(c)

Next ==
    \/ \E i \in Ids, b \in Batches, at \in (now - MaxSkew)..(now + MaxSkew) : Send(i, b, at)
    \/ \E c \in Calls : DeliverEvents(c)
    \/ SetInboundStatus \/ RemovePeer \/ \E limit \in Overrides \cup {NoOverride} : SetPeerRateLimit(limit)
    \/ Tick
    \/ SweepBatches \/ SweepEvents

Spec == Init /\ [][Next]_vars

----------------------------------------------------------------------------
(* Properties *)

\* Every variable holds what its column or its local can hold.
TypeOK ==
    /\ now \in Minutes
    /\ status \in {"approved", "waiting", "removed"}
    /\ override \in Overrides \cup {NoOverride}
    /\ seen \in [Ids -> Minutes \cup {Never}]
    /\ rows \in [Events -> [from : Ids, ends : Nat] \cup {NoRow}]
    /\ window \in [Accounts -> [start : Minutes \cup {Never}, count : Nat]]
    /\ sent \in [Ids -> [at : Int, events : Batches \cup {<<>>}]]
    /\ pc \in [Calls -> {"idle", "admitted", "claimed", "charged"}]
    /\ env \in [Calls -> Ids \cup {NoBatch}]
    /\ own \in [Calls -> Overrides \cup {NoOverride}]
    /\ budget \in [Calls -> [Accounts -> Nat]]
    /\ unpaid \in [Calls -> SUBSET Orgs]
    /\ \A c \in Calls : pc[c] # "idle" => next[c] \in 1..Len(Batch(c)) + 1
    /\ receipt \in [Calls -> [accepted : Nat, rejected : Nat, limited : Nat]]
    /\ reached \in [Calls -> SUBSET Nat]
    /\ consumed \subseteq Ids /\ broken \subseteq Ids
    /\ minute \in [Calls -> [Accounts -> Minutes \cup {Never}]]
    /\ stored \in [Accounts \X Minutes -> Nat]
    /\ faults \in Nat

Working(c) == pc[c] \in {"claimed", "charged"}

\* A batch applied in full is never worked on again, however often its
\* envelope arrives, whatever the sweep has forgotten and however far apart
\* the two clocks are.
ReplayIsRefused == \A c \in Calls : Working(c) => env[c] \notin consumed

\* Two copies of an envelope are never at work at once: nothing a call does is
\* done by another one underneath it. (A call whose claim was lost is gone.)
OneCallPerBatch ==
    \A c, d \in Calls : Working(c) /\ Working(d) /\ env[c] = env[d] => c = d

\* The inductive strengthening of both. An envelope that was settled, or is
\* being worked on, cannot be claimed again: its id is remembered by an instant
\* that reaches a whole window past the envelope's own, or it is out of the
\* window for good, or the peer is gone.
Settled == consumed \cup broken
Unclaimable(i) ==
    \/ status = "removed"
    \/ seen[i] # Never /\ sent[i].at <= seen[i] + FreshnessWindow
    \/ now - sent[i].at > FreshnessWindow
EnvelopesAreSent ==
    /\ \A c \in Calls : pc[c] # "idle" => env[c] \in Ids /\ sent[env[c]] # NotSent
    /\ \A i \in Settled : sent[i] # NotSent
SettledIsLeftAlone == \A c \in Calls : Working(c) => env[c] \notin Settled
ReplayInv ==
    /\ EnvelopesAreSent
    /\ \A i \in Settled : Unclaimable(i)
    /\ \A c \in Calls : Working(c) => Unclaimable(env[c])
    /\ SettledIsLeftAlone /\ OneCallPerBatch

\* DeliverEvents keeps the promise of Inbox, whatever it does for each event of
\* a batch: an envelope is taken by one call, which applies it, gives it back
\* or dies with it, and no sweep, late arrival or store error opens it again.
AtWork(i) == \E c \in Calls : Working(c) /\ env[c] = i
PhaseOf(i) == IF AtWork(i) THEN "working"
              ELSE IF i \in consumed THEN "applied"
              ELSE IF i \in broken THEN "abandoned" ELSE "new"
Phase == [i \in Ids |-> PhaseOf(i)]
Promise == INSTANCE Inbox WITH Envelopes <- Ids, phase <- Phase
KeepsPromise == Promise!Spec

\* No more updates are stored on the allowance of one minute than a limit that
\* was set, by however many calls and on however many retries, with statements
\* that run late for their minute and limits changed in the middle of it (then
\* than the highest of them).
Limits(a) ==
    IF a = Peer THEN Overrides \cup {PeerLimit}
    ELSE {IF OriginLimit > 0 THEN OriginLimit ELSE Unlimited}
WithinLimit(a, n) == n = 0 \/ \E limit \in Limits(a) : n <= limit
NeverOverLimit == \A a \in Accounts, m \in Minutes : WithinLimit(a, stored[<<a, m>>])

\* No allowance keeps a deletion out: a call that is through has acted on every
\* tombstone of its batch, however many updates it skipped.
ActsOnTombstones == \A c \in Calls : Finished(c) =>
    (DOMAIN Batch(c) \ Updates(Batch(c))) \subseteq reached[c]

\* And its receipt accounts for every event of the batch exactly once, although
\* the two budgets are taken up front and spent one event at a time.
ReceiptAddsUp ==
    /\ \A c \in Calls : Finished(c) =>
        receipt[c].accepted + receipt[c].rejected + receipt[c].limited = Len(Batch(c))
    /\ ActsOnTombstones

\* A claim outlives its call only when the batch was applied in full or when
\* the call ended without being able to release it.
OnlyBrokenCallsKeepTheirClaim ==
    \A i \in Ids : seen[i] # Never =>
        i \in consumed \cup broken \/ \E c \in Calls : Working(c) /\ env[c] = i
=============================================================================
