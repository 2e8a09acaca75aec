# Tinku in TLA+

Tinku is a directory of gatherings and their events (Go: `api/`, `coredb/`). An
instance keeps its own events, and *federates*: it signs each published event,
queues it for the peers it publishes to and delivers it to their directories,
which store it. Every instance may run several replicas over one database
(SQLite or PostgreSQL). This directory holds the TLA+ modules that model it, the
TLC configurations that check them on small instances and the TLAPS proofs of
what matters most. Paths below are relative to the repository's root.

## The system

| Component | Code | State | Operations |
|---|---|---|---|
| Publisher | `api/internal/federation/publish.go` | the outbox | `PublishEvent`: read the outbound peers, sign once, insert one row a peer |
| Sender | `api/internal/federation/sender.go` | the outbox, a peer's delivery health | a pass of every replica: read due rows, post each, record the outcome; backoff, suspension |
| Receiver | `csilservices/federation.go` | seen batch ids, remote events, rate windows | `DeliverEvents`: verify, claim, charge, walk, release |
| Peer administration | `csilservices/federation.go` | peers | `RequestPeering`, `AddPeer`, `SetPeerStatus`, `SetPeerRateLimit`, `ResumePeer`, `RemovePeer` |
| Keys | `federation/keyring.go`, `enrollment.go`, `verify.go` | signing keys | enrol, renew, retire, verify |
| Event lifecycle | `csilservices/events.go`, `publish.go` | events, attendees | create, update, delete (each publishes and notifies), attend; locked once started |
| Series | `csilservices/series.go`, `recurrence.go` | a rule and its horizon, occurrences | create, update, delete, expand |
| Communities | `csilservices/organizations.go`, `gatherings.go`, `offers.go`, `perms.go` | members, owners, offers | create, delete, change owners, offer and respond, adopt |
| Administration | `csilservices/admin.go` | administrators, the instance's settings | grant and revoke, update settings |
| Webhooks | `api/internal/webhooks`, `csilservices/webhooks.go`, `notify.go` | webhooks, their queue | queue, drain, switch off |
| Sessions | `csilservices/auth.go`, `linkkeys/nonce.go` | sessions | begin and complete a login, mint, expire |
| Process | `api/cmd/serve.go`, `coredb/migrate.go` | | boot, the hourly sweep, shutdown, migrations |
| Transport, codecs, search | `transport/`, `server/`, `csilservices/search.go` | none | encode, dispatch, query |

**How they interact.** The event service writes its row and then calls the
publisher, in the request. The publisher and all senders share only the database:
no row is claimed, every write of a sender is one statement by row or peer id,
and two statements record one delivery. A sender's request and a receiver's
call share the network. A receiver's calls share the replay table and the rate
windows with each other, on every replica, and with the hourly sweep. The
administrator writes the same rows as all of them at any time.

**What is hard.** No locks and few transactions: nearly every operation reads,
decides and writes in separate statements, and other calls run between them. The sender holds rows in memory for
minutes while the queue changes under them. A signed envelope is sent again byte
for byte, so the receiver must tell a retry from a replay, across restarts,
lost answers and a bounded memory. Allowances are counted by minute, with
statements that run late. `PROJECT.json` lists each hazard at its line.

**What makes each component correct.**

* Publisher and sender: a queued payload is lost only when the peer answered
  for it; no row starves; a suspension means a window of silence; a resume
  really resumes.
* Receiver: an envelope is applied at most once; two calls never work on the
  same one; limits hold however calls interleave; deletions are exempt.
* The composition: when nothing is left to send, the peer's last decision is
  about the last payload queued; a queue does not retry for ever.
* Event lifecycle: a started event does not change; what is queued last is what
  was stored last. Series: the occurrences are those of the rule up to the
  horizon, the past is kept. Communities: never ownerless by its own rules, an
  accepted offer moves ownership exactly once. Administration: never without an
  administrator. Webhooks: bounded queue, a delivery ends.

## Modules

| Module | Models | |
|---|---|---|
| `FederationSender` | publisher, sender, outbox, peer health | machine |
| `DirectoryReceiver` | `DeliverEvents`, replay table, allowances, sweep | machine |
| `Inbox` | what a directory promises about an envelope | abstract specification |
| `Federation` | event, sender, network and peer's inbox | composition |
| `EventSeries` | a rule, its horizon, its occurrences | machine |
| `Communities` | organizations, gatherings, owners, offers | machine |
| `Webhooks` | webhooks, their queue, dispatch, senders | machine |
| `Publishing` | events written, attended and queued | machine |
| `Administration` | administrators, settings, the publish decision | machine |
| `Peering` | the peers' rows, who writes them, who is heard | machine |
| `Federation_proofs` (of the sender too), `DirectoryReceiver_proofs`, `EventSeries_proofs`, `Communities_proofs`, `Webhooks_proofs`, `Publishing_proofs`, `Administration_proofs`, `Peering_proofs` | | theorems |
| `MC` and the name of a machine | | instances for TLC |

`Federation` EXTENDS `FederationSender` and conjoins to its actions what they do
to the network and the peer; its inbox is `INSTANCE Inbox`, and
`DirectoryReceiver` is checked and proved to implement the same `Inbox`. So what
the composition assumes of a directory is what the receiver provides, and its
runs need no allowances, walks and sweeps. The other machines meet in tables
that only one of them changes: `Publishing` queues what `FederationSender`
sends, if `Administration` says so, to the rows that `Peering` approves.

In every machine of service calls a call is `call[c]`: the statement it has come
to (`at`) and what it carries in its local variables. One action is one
statement or one transaction, so that other calls run between any two, and a
call may break off before each (`BreakOff`, `Break`, `Fail`, `MaxFaults` times). Variables
under "History" are read by properties only: they remember that two calls met,
so that a property can say when it holds and name the one way it does not.

### FederationSender

`box[<<peer, event>>]` is the row of `federation_outbox` (the pair is unique):
its id, payload, ticks to `next_attempt_at` and attempts. `status`,
`suspended`, `failAge` are the peer's columns, `failAge` the age of
`first_failure_at`. A payload is the number of the `PublishEvent` call that built
it. `jobs` are `PublishEvent` calls in their loop; `batch`, `flight`, `step` and
`outcome` are the locals of a sender's pass. One action is one statement or one
request: `StartPass` (`DueDeliveries`), `Post`, `Answer`, `RecordRow` and
`RecordPeer` (the two statements of `recordSuccess`, `recordFailure`, ...), each
of which may fail on its own.

Time is relative. `Tick` ages everything; of overdue rows only the order by
`next_attempt_at` is kept, so that a queue that is never drained has finitely
many states. A tick is long against the statements of one record (`Tick` waits
for them) and not against a request or a pass.

### DirectoryReceiver

One peer, since every statement is keyed by it, and any number of calls on any
replicas. A call's `pc` is "admitted" after `verifiedPeer` and the status check,
"claimed" after `RememberBatch`, "charged" after `ConsumePeerAllowance`; the walk
is one action an event. `window` is the row of a rate window, of the peer or of
an organization, and `Allowed`/`NewCount` its one UPDATE, issued for the minute
read before it ran (`Issued`). `seen` is the replay table. The peer's clock may
differ by `MaxSkew`. Refusals that change nothing are not steps; `Fail` is a
store error after the claim, `Abandon` the end of a process or of a request's
context, which also takes the deferred `ForgetBatch` with it.

### Federation

`wire` holds requests and who waits for them: a sender, or `Nobody` once its HTTP
client timed out or its process stopped. The request may still be taken and
applied. `phase` is the inbox, `held` what the peer shows, `decided` the last
payload it stored, removed or rejected. `age` is the age of a signed payload:
`sent_at` is part of the signed bytes. `RefuseRequest` is the receiver's
ServiceError, which the sender counts as a failure. `PublishUpdate` and
`DeleteEvent` are the event service's calls into the publisher.

Simplifications, each on the side of its own module: the peer keeps the origin
approved and the clocks agree (DirectoryReceiver has both the other way round);
a request takes seconds of a tick of many minutes unless it outlives its sender's
wait. The event service's calls do not overlap: what is published is what was
stored last.

### EventSeries

`series` is the row of `event_series` (its rule, `materialized_through`, and a
number for the version of the rule), `occ[t]` the row of `events` at an instant,
with the version it was made from. A rule is the set of its instants: weekdays,
time zones and short months only decide which these are. One action is one
statement: `ReadSeries`, `Materialize` and `RecordHorizon` are a read that
extends the series, `StoreRule`, `DropFuture` and `Reload` (and then the former
two) an update, `DropForGood` and `RemoveSeries` a deletion, and `Break` ends a
call after any of them. `UpdateEvent`, `DeleteEvent` and `DeleteHistory` are the
calls on one occurrence, their check of the clock at most a tick old.

Between calls that do not meet, the rows of the future are the rule's. `away`
remembers what was moved or deleted by hand, `tangled` that a rewrite met another
call, that a rewrite or a deletion broke off between its statements, or that an
extension stopped at `maxOccurrencesPerExpansion`: the ways the property can
fail, and a rewrite that meets nobody heals them all.

### Communities

`roster` is `organization_members`, `owners` is `gathering_owners`, `offers` is
`gathering_offers`, `status` the rows of organizations and gatherings. Removing
or demoting an owner is three statements (`ReadRole`, `CountOwners`,
`WriteRoster`: `refuseLastOwnerChange` and its write), taking an owner off a
gathering two. Answering an offer is a compare-and-set (`ResolveGatheringOffer`), and what
accepting carries out is a statement for the ownership and two for every owner
after it (`ReadOwners` to `Enroll`). Foreign keys and cascades are those of the migrations. Who
calls is an input, checked where the code checks it. `raced` are the rows whose
owners changed between another call's check and its write, `orphaned` the
gatherings whose only owner was an organization that was deleted, `undone` the
accepted offers that broke off or were taken back by hand.

### Webhooks

`hooks` and `queue` are the tables, of PostgreSQL, which is the store that
replicas share (in SQLite the count and the insert of `CreateWebhook` cannot
meet). `Drain` reads the first `BatchSize` due rows of hooks that are on, by
`next_try_at`; of these times the model keeps the order only: `later[d]` are the
rows that came due after `d` did (a record takes seconds of a wait of minutes, so
a row comes due after all that are due by then). `Post` sends one and
keeps what it was answered, and the statements of `WebhookDelivered` and
`WebhookFailed` follow one by one. No row is claimed: both senders may hold one.
Payload, scope, secret and the count of failures, which nothing reads, are left
out; which of a level's hooks a change matches is open. With each row the model
keeps whether the receiver took it and how often it refused it.

### Publishing

An event is its start, which stands for everything an edit may change, and its
attendees. A call reads the row, checks the clock, writes, and then `publish`
rereads it, decides, reads the peers and queues one payload per peer, each a
statement. `queued[p][e]` is what was last queued, whoever delivered it since.
Roles are taken as decided. `withheld` are events whose last edit the levels did
not let through, `tangled` those that two calls wrote or queued across each
other, `lost` those of which a call broke off or met its gathering or a peer
gone. An edit that meets nobody heals `tangled`.

### Administration

`admins`, `settings` (`instance_settings`, a table of keys and values
that is written whole in one transaction), what organizations and the gathering
say. The organizations that own the gathering are fixed: one that is gone
(`publish.go:103`) counts as one that says "unset" does. `CountAdmins` and `RevokeAdmin` are the two statements of
`SetAdmin`, `ReadInstanceSettings` and `PutInstanceSettings` the
read-modify-write of `UpdateInstanceSettings`. A publisher (`asking`) reads the gathering, the
settings and each organization as `publish.go` does, one action each, and a
read may fail where the code goes on without it. `MayPublish` states the
three-level rule on its own, for the publisher to be compared with.

### Peering

`peer` is `federation_peers`, by row: address, identity (subject and application
as one) and the two statuses. `heard` are the identities whose deliveries were
stored under a row, `vouched` those that an administrator accepted it under, by
an approval with the identity in the row or in the request. `AddPeer` and
`Introduce` insert after a read, `SetPeerStatus` reads and writes, a request to
be accepted (`RequestPeering`) reads the row and makes it pending; `Verify` is
`verifiedPeer` with the status check, `StoreDelivery` what is stored after it. Addresses pass from one account to another
freely.

## Runs

| Run | Question | Instance |
|---|---|---|
| `sender` | What can leave the queue undelivered, when is a peer suspended, what still goes out to it? | 1 peer, 1 event published twice, 2 senders, 1 crash |
| `sender_live` | Can a row starve behind another? | 2 events, a pass reads 1 row |
| `receiver` | Replays, claims, and the promise of `Inbox` | 1 envelope, 2 calls, 5 minutes, skew 1, 1 fault |
| `receiver_rates` | Limits, receipts, tombstones | 2 envelopes of 3 events, 2 calls, limits below both |
| `federation` | Is the peer's last decision about the last payload? | 1 event, 2 publications, 1 sender, 1 late request |
| `federation_live` | Does a queue empty, or its peer get suspended? | 1 publication, 1 crash, 1 late request |
| `series` | Is a calendar what its rule says, and is the past kept, whatever calls interleave or break off? | 3 rules, 2 calls, 3 instants, 1 edit by hand, 1 fault |
| `communities` | Is somebody left who can manage an organization or a gathering, and what became of an accepted offer? | 2 users (1 administrator), 1 organization, 1 gathering, 1 offer, 2 calls, 1 fault |
| `webhooks` | What leaves the queue, can a row be held up behind another, what outlives its level? | 1 level, 2 hooks, limit 1, 2 deliveries, a pass reads 1 row, 2 senders, 2 calls, 2 attempts, 1 fault; calls at work, rows and faults at most 3, and a call begins beside one of these or a pass |
| `publishing` | Is what was queued last what the row says, and is a started event left alone? | 1 event, 1 user, 2 peers, 2 calls, instants 0 to 3, 1 peer removed, 1 fault |
| `administration` | Is there always an administrator, are settings kept, is the decision the rule's? | 2 administrators, 2 organizations, 1 publisher, 2 calls, 3 changes, 1 fault |
| `peering` | Whose deliveries are stored, and who decides? | 1 address, 2 identities, 2 rows, 2 calls, 3 decisions, 1 fault |

All runs pass. What each property says, and of which lines, is in the comment
above it.

**Bounds and why they are enough.** Two publications are the least that let one
overtake another; two senders, or two calls, the least that race. A failure
window of two ticks with delays of one and two lets failures, answers and
resumes fall inside it, at its end and outside. Five minutes are two freshness
windows and one more, so the sweep may forget an id at the first moment it can,
with a sender's clock ahead, in step and behind. One fault at any point is
enough to lose a claim or an answer, or to break a call off at any statement. The
receiver's rates need batches whose updates exceed both allowances with an
invalid event and a tombstone among them, over one change of minute. The three
rules of `series` share instants, start in the past or beyond the horizon, and
one has more instants than an extension makes; the clock passes the instants of
two of them. In `federation` one replica sends: with two, a pass that read an
older payload can post it after the newer one was applied, which reverts the
peer. `raced` marks such keys and FinalStateIsKept exempts them. The queue's own
theorems hold for any number of replicas.

Two users, one of them an owner and one to be, are enough for a last owner to be
counted twice; the one organization and gathering are created, offered, owned
and deleted in every order. A limit of one webhook and two hooks let two inserts
go over it; two attempts let a refusal be retried and exhausted, and be recorded
by both senders. One row a pass and two rows are the least that let one be held
up behind another, by refusals or by new rows of the other's webhook: without the
order, QueueDrains fails. `BoundedWork`, an ACTION_CONSTRAINT of MCWebhooks,
keeps that run small. It cuts off only steps that begin a call, queue a row or
are a fault, none of which fairness asks for: no fair step is hidden from TLC,
and every fair behaviour that is left is one of Webhooks. What a call would find
on beginning later, it finds having begun before and gone on later. Instants 0 to 3 let an event be read before it starts, be moved,
and be written after. Two peers are needed for an insert that fails to leave one
of them behind. Three changes are one to each of the three levels or three to
one of them between the reads of one publisher. Two identities in turn at one
address, and two rows for one that is removed and added again, with three
decisions: approve, block, approve again.

**Symmetry.** Calls, offers, peers, organizations, identities and rows are
interchangeable where a cfg says SYMMETRY, which is only in runs without
liveness; `webhooks` checks liveness and has none.

**Deadlock.** It is checked wherever the system goes on for ever: the sender's
and the composition's runs. The others say CHECK_DEADLOCK FALSE: their clocks,
their identifiers (a row is created once) or their bounded changes run out.

**Fairness.** `Fairness` of FederationSender: the ticker of `Sender.Run` starts a
pass at every interval and the loop runs to its end, because the client has a
timeout, so every sender step is weakly fair; the store may refuse a statement
but not for ever, and a tick is never shut out for ever, so those two are
strongly fair. FederationFairness says the same of the composition, and that
a request with a sender waiting for it ends, by an answer or by the client's
timeout. In Webhooks the loop of each sender is weakly fair for the same reason
(`DeliveryTimeout`), and so is the end of a delivery's wait; nothing is assumed
of the receiver's answer. Nothing is assumed of the peer, of requests nobody
waits for, of the publisher or of any service call, except in the two properties
that name the one thing that may defeat them: an administrator who resumes a
peer for ever.

## Where the code and its comments part

Each property below holds with an exception that its run reaches. The exception
is what the code does and its comment, or a document, says that it does not.

* `internal/store/store.go:329-332`, "delivered once, in its final state": an
  update queued while its predecessor is being delivered keeps the row's id and
  is deleted by the predecessor's acknowledgement. OnlyOvertakenIsLost: it is the
  only way the queue loses a payload (proved).
* `csilservices/federation.go:384-389`, an honest sender "must be able to retry":
  a call that ends with its context takes the deferred release with it and leaves
  its batch remembered though it was not applied. OnlyBrokenCallsKeepTheirClaim:
  only such calls do.
* `internal/federation/sender.go:235-237`, "suspension is for a peer that cannot
  be reached": what was signed more than a freshness window ago is refused on
  every retry, and the peer that answers so is suspended; a resume sends the same
  bytes again. RetriesEnd: the queue does not retry for ever.
* `docs/OPERATING.md:334`, "a deletion always travels": deleting a gathering, or
  deleting or rewriting a series, takes published events with it and queues no
  tombstone. LastWordIsTheRow excepts them (`lost`); for DeleteEvent it holds.
* `csilservices/series.go:341`, "safe to call at any time from any path": an
  extension that overlaps a rewrite of its rule inserts what the old rule wanted
  and puts its own horizon over the one the rewrite had put back.
  InStepUnlessTangled: calls that do not meet, or a later rewrite alone, leave
  the calendar in step.
* `csilservices/admin.go:132-134`, two administrators "do not undo each other's
  work": the settings are written whole from what was read. UnnamedIsLeftAlone excepts
  a request that another write overtook (`overtaken`).
* `csilservices/admin.go:45`, "the last admin cannot be revoked", and
  `organizations.go:310`: a count and a write. AnAdministratorRemains and
  OrganizationKeepsAnOwner except two at once (`unguarded`, `raced`).
* `store/postgres/webhooks.go:27-30`, count and insert are one statement, which
  "is the rule": two such statements at once count the same rows.
  WithinLimitUnlessRaced excepts such levels.
* `store/postgres/webhooks.go:108-109`, what was queued before an endpoint was
  switched off "must not go out afterwards": a pass that has read it posts it.
  The model does so too; no property says otherwise.
* `csilservices/federation.go:604`, asking again "is not a way out of a decision":
  a request that read the row before the decision makes it pending.
  AskingAgainIsNoWayOut excepts it (`overtaken`).

Met while reading, and outside the properties: AddPeer (`federation.go:122-129`)
says that the sender asks the peer to accept us, which nothing does, and AddPeer
broken off between its two statements leaves a row that a second AddPeer
refuses. The six attempts of a webhook take 1+2+4+8+16 = 31 minutes and not
"roughly an hour" (`webhooks/sender.go:16-19`). With federation on, the event
service is built a second time without its webhook dispatcher
(`cmd/serve.go:163`), so that its changes reach no webhook.

## Proofs

Every theorem holds for all values of the constants under the named ASSUMEs:
peers are finitely many ranks (`PeersAssumption`), delays are positive and the
capped powers are numbers (`DelaysAssumption`, `PowersAssumption`), limits and
windows are integers, webhooks and senders are finitely many
(`FiniteAssumption`, `SendersAssumption`), there is an administrator at first
(`AdministratorsAssumption`), the users and organizations of Communities are
finitely many (`PeopleAssumption`, `IdentifiersAssumption`), and what stands for
"no row" is not a row. The bounds of the models are among the constants, so the
theorems hold however large they are.

* **Federation_proofs, the sender.** (These stand first in the module and use
  nothing of the composition.) `SenderTypeOK`. `SenderLosesOnlyOvertaken`: alone,
  OnlyOvertakenIsLost is not inductive, because the DELETE of an acknowledgement
  is by row id. `NoLossInv` adds that a row holds the last payload queued
  (RowIsLastQueued), that what a sender holds of a row is current unless
  overtaken (HeldIsCurrent), that a settled delivery was answered with its own
  payload (SettledIsAnswered) and that no waiting insert can mint an id somebody
  holds (IdsAreFresh). `SenderSuspendsAfterAWindow` follows from RunIsYoung: a
  failure run is never older than the silence. `SenderRequeuesOnResume` is an
  action property. `SenderOverrunIsBounded` from `OverrunInv`: the deliveries
  begun since a suspension and the items still to be posted (`Unposted`) are
  together no more than the passes under way can hold; none is read while the
  suspension lasts, and the bound comes from numbering the items of each pass.
* **DirectoryReceiver_proofs.** `ReceiverRefusesReplays` and `ReceiverWorksAlone`
  from `ReplayInv`: an envelope that was settled or is being worked on cannot be
  claimed (`Unclaimable`: its id is remembered by an instant that reaches a whole
  window past its own, or it is out of the window for good, or the peer is gone).
  The heart is `ReplaySweep`: forgetting an id after two windows is safe because
  a claim at `s` proves `sent_at <= s + window`. `ReceiverKeepsPromise`: Spec
  implements Inbox under the mapping `Phase`. `ReceiverReleasesClaims` from
  `ClaimInv`: each way a call can end gives its claim back, is recorded as
  broken, or has applied the batch. `ReceiverTypeOK`: no allowance, budget or
  receipt goes below zero and no call walks off its batch. `ReceiverActsOnTombstones`
  is the half of ReceiptAddsUp about deletions (`PassedTombstones`: a call has
  acted on every tombstone it is past). `ReceiverStaysWithinLimits` from `RateInv`:
  the updates stored on the allowance of a minute and those that calls may still
  store on it (`Owed`) are together within a limit that was set, and no more than
  the window has counted as long as it stands at that minute; a window that moves
  on leaves nothing owed on the minutes it has not come to. A sum over calls is
  the cardinality of a set of pairs, one for each update, so no induction over
  data is needed. `ReceiverReceiptsAddUp` from `SumsInv`, the same way: of a call
  that was charged, the updates refused for rate, those acted on and one pair
  for each left in the organizations' budgets (`Unspent`) are all the updates of
  the batch; the peer's budget is no less than their sum, and no organization has more
  budget than updates to come (`SumsHold`). So one that is skipped has no budget
  left, and at the end none has. `FirstOnes` and `SharesAddUp` are the lemmas that
  the shares of the admitted updates add up to what the peer's allowance gave.
* **Federation_proofs, the composition.** `FederationIsSender` and `FederationIsInbox`: the
  composition implements both its parts. From the first,
  `FederationLosesOnlyOvertaken` carries the sender's theorems over.
  `FederationKeepsTypes`. `FederationKeepsFinalState`: once nothing is on its way
  to a peer about an event, the peer's last decision was on the last payload
  queued, but for keys that are overtaken or raced. It needs that a payload is
  inserted once for a peer (`PayloadsAreFresh`), that a sender waits for one
  request at a time (`WaitsForOne`), and `KeptInv`: unless raced, no request for
  the key carries anything but that payload, and its answer follows the decision.
* **EventSeries_proofs.** `SeriesTypeOK`, and `SeriesKeepsHistory`: what cuts or
  checks is a clock that a call read at most a tick ago (ClockInv), so no
  interleaving reaches further back. `SeriesStaysInStep` from `CalendarInv`:
  unless calls met, a rewrite is alone (`LiveInv`), what it has still to
  do is all that is out of step, and an extension has covered its rule as far as
  the horizon it will record (`CallInStep`).
* **Communities_proofs.** `CommunitiesTypeOK`, `CommunitiesKeepOwners`,
  `CommunitiesAreManaged`, `CommunitiesCarryOut`, and the action properties
  `CommunitiesAnswerOnce` and `CommunitiesOwnersStay`, all from one `IInv`: what
  a call has found out (`Fits`: that the one it is to take off is not the last
  owner, that a member it enrols is not an owner) is so now, unless the thing it
  relied on is `raced`. A statement that changes who owns something a call relies
  on makes it `raced`, and every other step keeps `Fits`; each action is proved by
  the frame it leaves (`LeavesCalls`, `LeavesPromises`).
* **Webhooks_proofs.** `WebhooksAnswered` needs `AnswerInv`: the attempts of a row
  and the senders that have a refusal of it yet to record (`Refusing`) are
  together no more than the refusals it was given, and a sender that deletes a row has
  it taken or exhausted. Two senders that post one row are why it counts them.
  `WebhooksNoOrphans`: a level gone is `orphaned` or is being deleted, by which
  call; `WebhooksLimit` from `LimitInv`: on a level nobody raced at most one call
  is past its count, and it left room for one. `WebhooksTypeOK` has that the
  queue's foreign key holds.
* **Publishing_proofs.** `PublishingLastWord` from `WordInv`: of an event that is
  neither tangled nor lost either one call has it in hand (`Has`) and carries what
  the row says (`Faithful`), with the peers before it in its list queued to, or
  none has and every peer's last payload is the row's (`Said`).
  `PublishingFreezes` is an action property: each action that writes a row is
  one of a call that read it, and `Locked` never turns false.
* **Administration_proofs.** `AdministrationRemains` from `AdminInv`: a call about
  to revoke leaves somebody, unless it was overtaken. `AdministrationUnnamed` from
  `SettingsInv`: what a call is to put differs from the settings in the field it
  names only. `AdministrationDecides` and `AdministrationOutStands` from `ReadingInv`: a
  publisher that nothing met has read what the levels say (`AsRead`), and one
  that passed a firm organization has its "out" (`Firm`).
* **Peering_proofs.** `PeeringTrust` from `TrustInv`: a call that is to approve
  carries an identity that is, or becomes with its write, vouched for (`Meant`).
  `PeeringDecisionsStand` adds that a request which is not overtaken writes a
  row on which nothing was decided (`Modest`).

Every invariant and every safety property that a run checks is stated by a
theorem. Model-checked only: what holds under fairness (AttemptedEventually,
RetriesEnd, QueueDrains; the prover does not do ENABLED). What a recursion
computes is out of the prover's reach, and no module has one.
SenderRequeuesOnResume is proved of a property that no run checks
(LiftedSuspensionRequeues).

## Not modelled

* Signing, keys, enrolment, sessions: cryptography and exchanges with a key
  directory or an identity provider. That a signature verifies for the identity
  it claims, and who a caller is, are inputs of the modules.
* Codecs, dispatch and the RPC carrier have no state: their failures are outcomes
  of the actions that use them. Lists and searches only read, and conversions
  only format. RecordOriginAccepted is a statistic.
* Joining and leaving a gathering are one statement each, and nothing modelled
  depends on them; neither do text, slugs, notes and base URLs.
* The per-organization override of a peer's limit is a second value of the same
  column (`Overrides` has the peer's).
* Boot, readiness, migrations and configuration: wiring, read once.
* The SQLite and the PostgreSQL backend have the same statements but for the
  webhooks' insert; the map names the one that a definition was translated from.
* Generated codecs, types and clients, in Go and in TypeScript, and the web
  application keep nothing the API relies on.

The map therefore covers a small share of the counted lines: most of these are
the generated files (each twice, for the server and the clients), the second
backend and code that converts or lists. Of the hand-written files that change
state, the services, the two senders and the store below them, it covers most.

## Plan

1. *Done*: FederationSender, DirectoryReceiver, Inbox, Federation, EventSeries,
   and their proofs.
2. *Done*: Communities, Webhooks, Publishing, Administration, Peering, and the
   proofs of the last four.
3. *Done*: the proofs of Communities, and of NeverOverLimit and ReceiptAddsUp of
   the receiver.
4. Left: the life of keys (renewal and retirement beside deliveries signed before
   them), sessions and the login nonce, and Publishing composed with
   FederationSender over one queue.
