------------------------------ MODULE Webhooks ------------------------------
(***************************************************************************)
(* The webhooks of a gathering or an organization (a level), the           *)
(* deliveries a change queues for them, and the senders, one in every      *)
(* replica, that drain the queue (api/internal/webhooks/, csilservices/    *)
(* webhooks.go, store/postgres/webhooks.go).  No row is claimed: two       *)
(* senders may post one delivery, and each records what it was answered.   *)
(* The store is PostgreSQL, which is the one that replicas share.  Which   *)
(* changes a webhook's scope lets through is left open, and the count of   *)
(* failures and the last status, which nothing reads, are left out.        *)
(***************************************************************************)
EXTENDS Naturals, FiniteSets

CONSTANTS
    Levels, Hooks, Deliveries,
    NoHook, NoRow, NoJob,
    Senders,        \* one in each replica
    Calls,          \* service calls that may be at work at once
    Limit,          \* WebhooksPerOwner
    BatchSize,      \* rows one pass reads
    MaxAttempts,
    MaxFaults       \* bound of the model: what breaks off

Hook == [level : Levels, active : BOOLEAN]
Row == [hook : Hooks, attempts : Nat, due : BOOLEAN, taken : BOOLEAN, refused : Nat]
Held == [id : Deliveries, hook : Hooks]
Job == [at : {"taken", "refused", "exhausted", "off"}, what : Held]

ASSUME LimitsAssumption ==
    Limit \in Nat \ {0} /\ BatchSize \in Nat \ {0} /\ MaxAttempts \in Nat \ {0} /\ MaxFaults \in Nat
ASSUME FiniteAssumption == IsFiniteSet(Hooks) /\ IsFiniteSet(Senders)
ASSUME AbsentAssumption == NoHook \notin Hook /\ NoRow \notin Row /\ NoJob \notin Job

VARIABLES
    levels,     \* those that have not been deleted
    hooks,      \* the table webhooks
    queue,      \* the table webhook_deliveries, and with each row, for the
                \* properties only, whether it was taken and how often refused
    later,      \* for each delivery, those whose next_try_at came after its own
    call,       \* what each call has left to do
    held, job,  \* what a pass of each sender has yet to post, and what it is recording
    faults,
    \* History, read by properties only
    orphaned,   \* levels whose deletion met a new webhook or broke off
    raced       \* levels with two calls past the count at once

tables == <<levels, hooks, queue, later>>
sender == <<held, job>>
history == <<orphaned, raced>>
vars == <<tables, call, sender, faults, history>>

Idle == [at |-> "idle"]
Begin(c, k) == call[c] = Idle /\ call' = [call EXCEPT ![c] = k]
GoOn(c, k) == call' = [call EXCEPT ![c] = k]
Return(c) == GoOn(c, Idle)

Init ==
    /\ levels = Levels
    /\ hooks = [h \in Hooks |-> NoHook]
    /\ queue = [d \in Deliveries |-> NoRow]
    /\ later = [d \in Deliveries |-> {}]
    /\ call = [c \in Calls |-> Idle]
    /\ held = [s \in Senders |-> {}]
    /\ job = [s \in Senders |-> NoJob]
    /\ faults = 0
    /\ orphaned = {} /\ raced = {}

\* The deliveries a sender is to post, or has yet to record.
At(s) == held[s] \cup IF job[s] = NoJob THEN {} ELSE {job[s].what}

\* An identifier is given out again only when nothing speaks of it any more.
FreshHook(h) ==
    /\ hooks[h] = NoHook
    /\ \A c \in Calls : /\ call[c].at = "update" => call[c].hook # h
                        /\ call[c].at \in {"match", "queue"} => h \notin call[c].found
    /\ \A s \in Senders : \A r \in At(s) : r.hook # h

FreshDelivery(d) == queue[d] = NoRow /\ \A s \in Senders : \A r \in At(s) : r.id # d

----------------------------------------------------------------------------
(* Webhooks *)

OnLevel(l) == {h \in Hooks : hooks[h] # NoHook /\ hooks[h].level = l}

\* An owner adds one to a level that is there.
CreateWebhook(c, l) ==
    /\ l \in levels
    /\ Begin(c, [at |-> "count", level |-> l])
    /\ UNCHANGED <<tables, sender, faults, history>>

\* Mutant of CountWebhooks: one more than the limit.
CountWebhooks_OneMore(c) ==
    /\ call[c].at = "count"
    /\ IF Cardinality(OnLevel(call[c].level)) <= Limit
       THEN GoOn(c, [call[c] EXCEPT !.at = "insert"]) ELSE Return(c)
    /\ UNCHANGED <<tables, sender, faults, history>>

\* The count and the insert are one statement, which counts the rows of its
\* snapshot: of two at once neither counts the other's.
CountWebhooks(c) ==
    /\ call[c].at = "count"
    /\ IF Cardinality(OnLevel(call[c].level)) < Limit
       THEN /\ GoOn(c, [call[c] EXCEPT !.at = "insert"])
            /\ raced' = raced \cup {l \in {call[c].level} : \E d \in Calls \ {c} :
                                        call[d].at = "insert" /\ call[d].level = l}
       ELSE Return(c) /\ UNCHANGED raced
    /\ UNCHANGED <<tables, sender, faults, orphaned>>

\* The level is a pair of columns and no foreign key.
InsertWebhook(c, h) ==
    /\ call[c].at = "insert" /\ FreshHook(h)
    /\ hooks' = [hooks EXCEPT ![h] = [level |-> call[c].level, active |-> TRUE]]
    /\ orphaned' = orphaned \cup ({call[c].level} \ levels)
    /\ Return(c)
    /\ UNCHANGED <<levels, queue, later, sender, faults, raced>>

\* UpdateWebhook reads the row and then writes all of it: where the request says
\* nothing of it, the webhook is switched to what it was when it was read.
UpdateWebhook(c, h, active) ==
    /\ hooks[h] # NoHook
    /\ Begin(c, [at |-> "update", hook |-> h, active |-> active])
    /\ UNCHANGED <<tables, sender, faults, history>>

StoreWebhook(c) ==
    /\ call[c].at = "update"
    /\ LET h == call[c].hook IN
       hooks' = IF hooks[h] = NoHook THEN hooks
                ELSE [hooks EXCEPT ![h].active = call[c].active]
    /\ Return(c)
    /\ UNCHANGED <<levels, queue, later, sender, faults, history>>

\* Mutant of RemoveHooks: nothing cascades to the deliveries.
RemoveHooks_KeepQueue(gone) ==
    /\ hooks' = [h \in Hooks |-> IF h \in gone THEN NoHook ELSE hooks[h]]
    /\ UNCHANGED queue

\* Their deliveries go with them.
RemoveHooks(gone) ==
    /\ hooks' = [h \in Hooks |-> IF h \in gone THEN NoHook ELSE hooks[h]]
    /\ queue' = [d \in Deliveries |-> IF queue[d] # NoRow /\ queue[d].hook \in gone
                                      THEN NoRow ELSE queue[d]]

DeleteWebhook(h) ==
    /\ hooks[h] # NoHook
    /\ RemoveHooks({h})
    /\ UNCHANGED <<levels, later, call, sender, faults, history>>

\* Mutant of DeleteLevel: the webhooks are left to a cascade that is not there.
DeleteLevel_RowOnly(c, l) ==
    /\ l \in levels /\ call[c] = Idle
    /\ levels' = levels \ {l}
    /\ UNCHANGED <<hooks, queue, later, call, sender, faults, history>>

\* DeleteOrganization and DeleteGathering: the row, and then its webhooks.
DeleteLevel(c, l) ==
    /\ l \in levels
    /\ levels' = levels \ {l}
    /\ Begin(c, [at |-> "hooks", level |-> l])
    /\ UNCHANGED <<hooks, queue, later, sender, faults, history>>

DeleteWebhooksFor(c) ==
    /\ call[c].at = "hooks"
    /\ RemoveHooks(OnLevel(call[c].level))
    /\ Return(c)
    /\ UNCHANGED <<levels, later, sender, faults, history>>

----------------------------------------------------------------------------
(* Dispatching a change *)

\* A change of an event, of a series or of a level is matched with the webhooks
\* of the levels it is under, one level after the other.
Dispatch(c, under) ==
    /\ under # {}
    /\ Begin(c, [at |-> "match", under |-> under, found |-> {}])
    /\ UNCHANGED <<tables, sender, faults, history>>

\* Of those that are on, a webhook's scope may leave it out.
MatchLevel(c, l) ==
    /\ call[c].at = "match" /\ l \in call[c].under
    /\ \E wanting \in SUBSET {h \in OnLevel(l) : hooks[h].active} :
          LET found == call[c].found \cup wanting
              rest == call[c].under \ {l} IN
          GoOn(c, IF rest # {} THEN [call[c] EXCEPT !.under = rest, !.found = found]
                  ELSE IF found # {} THEN [at |-> "queue", found |-> found] ELSE Idle)
    /\ UNCHANGED <<tables, sender, faults, history>>

\* The next_try_at of a delivery is reached, after that of all that are due. (Of
\* two with one instant either may be the first.)
ComesDue(d) == later' = [e \in Deliveries |-> IF e = d THEN {} ELSE later[e] \cup {d}]

\* One row for each that was found, due at once. At the first that has been deleted the
\* insert fails, the dispatch ends, and the rest of them hear nothing.
QueueWebhookDelivery(c, h, d) ==
    /\ call[c].at = "queue" /\ h \in call[c].found /\ FreshDelivery(d)
    /\ LET rest == call[c].found \ {h} IN
       IF hooks[h] = NoHook THEN Return(c) /\ UNCHANGED <<queue, later>>
       ELSE /\ queue' = [queue EXCEPT ![d] = [hook |-> h, attempts |-> 0, due |-> TRUE,
                                              taken |-> FALSE, refused |-> 0]]
            /\ ComesDue(d)
            /\ GoOn(c, IF rest = {} THEN Idle ELSE [call[c] EXCEPT !.found = rest])
    /\ UNCHANGED <<levels, hooks, sender, faults, history>>

\* A call breaks off; what was to be told of a change is not.
BreakOff(c) ==
    /\ call[c] # Idle /\ faults < MaxFaults
    /\ faults' = faults + 1
    /\ orphaned' = IF call[c].at = "hooks" THEN orphaned \cup {call[c].level} ELSE orphaned
    /\ Return(c)
    /\ UNCHANGED <<tables, sender, raced>>

----------------------------------------------------------------------------
(* Sending *)

Due == {d \in Deliveries : queue[d] # NoRow /\ queue[d].due /\ hooks[queue[d].hook].active}

Least(a, b) == IF a < b THEN a ELSE b

\* Mutant of DueWebhookDeliveries: the query has no ORDER BY.
DueWebhookDeliveries_InNoOrder ==
    {found \in SUBSET Due : Cardinality(found) = Least(BatchSize, Cardinality(Due))}

\* ORDER BY next_try_at LIMIT BatchSize. No row is claimed: what another sender
\* has read is due as well.
DueWebhookDeliveries ==
    {found \in SUBSET Due :
        /\ Cardinality(found) = Least(BatchSize, Cardinality(Due))
        /\ \A d \in found, e \in Due \ found : e \in later[d]}

Drain(s) ==
    /\ held[s] = {} /\ job[s] = NoJob /\ Due # {}
    /\ \E found \in DueWebhookDeliveries :
          held' = [held EXCEPT ![s] = {[id |-> d, hook |-> queue[d].hook] : d \in found}]
    /\ UNCHANGED <<tables, call, job, faults, history>>

\* The request, and the answer or the lack of one. What is deleted or switched
\* off since the pass read it is posted all the same. The loop goes through the
\* batch in its order, which is one of those allowed here.
Post(s, r, answer) ==
    /\ job[s] = NoJob /\ r \in held[s]
    /\ held' = [held EXCEPT ![s] = @ \ {r}]
    /\ job' = [job EXCEPT ![s] = [at |-> answer, what |-> r]]
    /\ queue' = IF queue[r.id] = NoRow THEN queue
                ELSE IF answer = "taken" THEN [queue EXCEPT ![r.id].taken = TRUE]
                ELSE [queue EXCEPT ![r.id].refused = @ + 1]
    /\ UNCHANGED <<levels, hooks, later, call, faults, history>>

Recording(s, at) == job[s] # NoJob /\ job[s].at = at
Recorded(s) == job' = [job EXCEPT ![s] = NoJob]
LeaveQueue(d) == queue' = [queue EXCEPT ![d] = NoRow]

WebhookDelivered(s) ==
    /\ Recording(s, "taken")
    /\ LeaveQueue(job[s].what.id)
    /\ Recorded(s)
    /\ UNCHANGED <<levels, hooks, later, call, held, faults, history>>

\* Mutant of Exhausted: the first attempt is not counted.
Exhausted_OffByOne(attempts) == attempts + 1 >= MaxAttempts

Exhausted(attempts) == attempts >= MaxAttempts

\* WebhookFailed is three statements: it counts the attempt and sets the next
\* one; at the last it drops the delivery; and it switches the webhook off.
WebhookFailed(s) ==
    /\ Recording(s, "refused")
    /\ LET d == job[s].what.id IN
       IF queue[d] = NoRow THEN Recorded(s) /\ UNCHANGED queue
       ELSE /\ queue' = [queue EXCEPT ![d].attempts = @ + 1, ![d].due = FALSE]
            /\ IF Exhausted(queue[d].attempts + 1)
               THEN job' = [job EXCEPT ![s].at = "exhausted"] ELSE Recorded(s)
    /\ UNCHANGED <<levels, hooks, later, call, held, faults, history>>

DropExhausted(s) ==
    /\ Recording(s, "exhausted")
    /\ LeaveQueue(job[s].what.id)
    /\ job' = [job EXCEPT ![s].at = "off"]
    /\ UNCHANGED <<levels, hooks, later, call, held, faults, history>>

SwitchOff(s) ==
    /\ Recording(s, "off")
    /\ LET h == job[s].what.hook IN
       hooks' = IF hooks[h] = NoHook THEN hooks ELSE [hooks EXCEPT ![h].active = FALSE]
    /\ Recorded(s)
    /\ UNCHANGED <<levels, queue, later, call, held, faults, history>>

\* A statement fails, which is logged, or the replica stops.
SenderFault(s) ==
    /\ (held[s] # {} \/ job[s] # NoJob) /\ faults < MaxFaults
    /\ faults' = faults + 1
    /\ Recorded(s)
    /\ held' \in {held, [held EXCEPT ![s] = {}]}
    /\ UNCHANGED <<tables, call, history>>

\* The wait of a delivery, of one to sixteen minutes, is over.
WaitIsOver(d) ==
    /\ queue[d] # NoRow /\ ~queue[d].due
    /\ queue' = [queue EXCEPT ![d].due = TRUE]
    /\ ComesDue(d)
    /\ UNCHANGED <<levels, hooks, call, sender, faults, history>>

SenderStep(s) ==
    \/ Drain(s) \/ \E r \in held[s] : Post(s, r, "taken") \/ Post(s, r, "refused")
    \/ WebhookDelivered(s)
    \/ WebhookFailed(s) \/ DropExhausted(s) \/ SwitchOff(s)

CallStep(c) ==
    \/ \E l \in Levels : CreateWebhook(c, l) \/ MatchLevel(c, l) \/ DeleteLevel(c, l)
    \/ CountWebhooks(c) \/ \E h \in Hooks : InsertWebhook(c, h)
    \/ \E h \in Hooks, active \in BOOLEAN : UpdateWebhook(c, h, active)
    \/ StoreWebhook(c)
    \/ DeleteWebhooksFor(c)
    \/ \E under \in SUBSET Levels : Dispatch(c, under)
    \/ \E h \in Hooks, d \in Deliveries : QueueWebhookDelivery(c, h, d)

Next ==
    \/ \E c \in Calls : CallStep(c) \/ BreakOff(c)
    \/ \E h \in Hooks : DeleteWebhook(h)
    \/ \E s \in Senders : SenderStep(s) \/ SenderFault(s)
    \/ \E d \in Deliveries : WaitIsOver(d)

\* A sender's loop runs for as long as its replica does, and time passes.
Fairness ==
    /\ \A s \in Senders : WF_vars(SenderStep(s))
    /\ \A d \in Deliveries : WF_vars(WaitIsOver(d))

Spec == Init /\ [][Next]_vars
FairSpec == Spec /\ Fairness

----------------------------------------------------------------------------
(* Properties *)

Call ==
    {Idle}
    \cup [at : {"count", "insert"}, level : Levels]
    \cup [at : {"update"}, hook : Hooks, active : BOOLEAN]
    \cup [at : {"hooks"}, level : Levels]
    \cup [at : {"match"}, under : SUBSET Levels, found : SUBSET Hooks]
    \cup [at : {"queue"}, found : SUBSET Hooks]

\* The rows are rows of the schema, and a delivery in the queue is a webhook's.
TypeOK ==
    /\ levels \subseteq Levels
    /\ hooks \in [Hooks -> Hook \cup {NoHook}]
    /\ queue \in [Deliveries -> Row \cup {NoRow}]
    /\ later \in [Deliveries -> SUBSET Deliveries]
    /\ call \in [Calls -> Call]
    /\ held \in [Senders -> SUBSET Held]
    /\ job \in [Senders -> Job \cup {NoJob}]
    /\ faults \in 0..MaxFaults
    /\ orphaned \subseteq Levels /\ raced \subseteq Levels
    /\ \A d \in Deliveries : queue[d] # NoRow => hooks[queue[d].hook] # NoHook

\* What leaves the queue while its webhook stays was taken by the receiver, or
\* was refused as often as MaxAttempts, whichever senders posted it, and
\* whatever broke off (sender.go:34, "a missed one is not recoverable at all").
LeavesOnlyAnswered ==
    [][\A d \in Deliveries : queue[d] # NoRow /\ queue'[d] = NoRow /\ hooks'[queue[d].hook] # NoHook =>
            queue[d].taken \/ queue[d].refused >= MaxAttempts]_vars

\* A level that is gone has no webhooks, but while its deletion goes on, and
\* after one that broke off or that a new webhook slipped past (store.go:487).
NoOrphans ==
    \A l \in Levels \ levels :
        \/ OnLevel(l) = {} \/ l \in orphaned
        \/ \E c \in Calls : call[c].at = "hooks" /\ call[c].level = l

\* Only a level that two calls counted at once goes over the limit (webhooks.go:21).
WithinLimitUnlessRaced ==
    \A l \in Levels \ raced : Cardinality(OnLevel(l)) <= Limit

\* No delivery stays queued for a webhook that stays on, however few rows a pass
\* reads: it is taken or dropped, though another one is refused again and again,
\* or is followed by a new one whenever it is taken, or two senders post the same
\* (sender.go:18, how "one dead endpoint becomes everybody's problem").
QueueDrains ==
    \A d \in Deliveries : []<>(queue[d] = NoRow \/ ~hooks[queue[d].hook].active)
=============================================================================
