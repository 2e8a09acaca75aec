--------------------------- MODULE Webhooks_proofs ---------------------------
(***************************************************************************)
(* What leaves the queue, what a deleted level leaves behind, and how many *)
(* webhooks a level has, for every number of levels, replicas and calls.   *)
(***************************************************************************)
EXTENDS Webhooks, FiniteSetTheorems, TLAPS

\* What a call at each point has in hand.
LEMMA CallShapes ==
    ASSUME TypeOK, NEW c \in Calls
    PROVE  /\ call[c].at \in {"count", "insert"} =>
                call[c] \in [at : {"count", "insert"}, level : Levels]
           /\ call[c].at = "update" => call[c].hook \in Hooks /\ call[c].active \in BOOLEAN
           /\ call[c].at = "hooks" => call[c].level \in Levels
           /\ call[c].at = "match" =>
                call[c] \in [at : {"match"}, under : SUBSET Levels, found : SUBSET Hooks]
           /\ call[c].at = "queue" => call[c] \in [at : {"queue"}, found : SUBSET Hooks]
  BY DEF TypeOK, Call, Idle

\* What a sender has in hand.
LEMMA SenderShapes ==
    ASSUME TypeOK, NEW s \in Senders
    PROVE  /\ held[s] \in SUBSET Held /\ \A r \in held[s] : r.id \in Deliveries /\ r.hook \in Hooks
           /\ job[s] # NoJob =>
                /\ job[s].at \in {"taken", "refused", "exhausted", "off"} /\ job[s].what \in Held
                /\ job[s].what.id \in Deliveries /\ job[s].what.hook \in Hooks
  BY DEF TypeOK, Held, Job

\* What the senders write into a row.
LEMMA RowChanged ==
    ASSUME NEW q \in Row
    PROVE  /\ [q EXCEPT !.taken = TRUE] \in Row
           /\ [q EXCEPT !.refused = @ + 1] \in Row
           /\ [q EXCEPT !.refused = @ + 1].refused = q.refused + 1
           /\ [q EXCEPT !.refused = @ + 1].attempts = q.attempts
           /\ [q EXCEPT !.refused = @ + 1].taken = q.taken
           /\ [q EXCEPT !.attempts = @ + 1, !.due = FALSE] \in Row
           /\ [q EXCEPT !.attempts = @ + 1, !.due = FALSE].attempts = q.attempts + 1
           /\ [q EXCEPT !.attempts = @ + 1, !.due = FALSE].refused = q.refused
           /\ [q EXCEPT !.attempts = @ + 1, !.due = FALSE].taken = q.taken
<1>1. q.attempts + 1 \in Nat /\ q.refused + 1 \in Nat
  <2>1. q.attempts \in Nat /\ q.refused \in Nat
    BY DEF Row
  <2>2. QED
    BY <2>1
<1>2. \A n, m \in Nat : /\ [q EXCEPT !.taken = TRUE] \in Row
                        /\ [q EXCEPT !.refused = m] \in Row
                        /\ [q EXCEPT !.attempts = n, !.due = FALSE] \in Row
                        /\ [q EXCEPT !.refused = m].refused = m
                        /\ [q EXCEPT !.refused = m].attempts = q.attempts
                        /\ [q EXCEPT !.refused = m].taken = q.taken
                        /\ [q EXCEPT !.attempts = n, !.due = FALSE].attempts = n
                        /\ [q EXCEPT !.attempts = n, !.due = FALSE].refused = q.refused
                        /\ [q EXCEPT !.attempts = n, !.due = FALSE].taken = q.taken
  BY DEF Row
<1>3. QED
  BY <1>1, <1>2

\* A row that is changed is still a row.
LEMMA RowIsKept ==
    ASSUME NEW q, NEW x, queue \in [Deliveries -> Row \cup {NoRow}], x \in Deliveries,
           queue[x] # NoRow,
           \/ q = [queue EXCEPT ![x].taken = TRUE] \/ q = [queue EXCEPT ![x].due = TRUE]
           \/ q = [queue EXCEPT ![x].refused = @ + 1]
           \/ q = [queue EXCEPT ![x].attempts = @ + 1, ![x].due = FALSE]
    PROVE  \A d \in Deliveries : queue[d] # NoRow => q[d] # NoRow
<1>1. queue[x] \in Row
  OBVIOUS
<1>2. q[x] \in Row
  <2>1. [queue[x] EXCEPT !.due = TRUE] \in Row
    BY <1>1 DEF Row
  <2>2. q[x] \in {[queue[x] EXCEPT !.taken = TRUE], [queue[x] EXCEPT !.due = TRUE],
                 [queue[x] EXCEPT !.refused = @ + 1],
                 [queue[x] EXCEPT !.attempts = @ + 1, !.due = FALSE]}
    OBVIOUS
  <2>3. QED
    BY <1>1, <2>1, <2>2, RowChanged
<1>3. \A d \in Deliveries : d # x => q[d] = queue[d]
  OBVIOUS
<1>4. QED
  BY <1>2, <1>3, AbsentAssumption

----------------------------------------------------------------------------
(* Types *)

Rowed == \A d \in Deliveries : queue[d] # NoRow => hooks[queue[d].hook] # NoHook

LEMMA TypeInit == Init => TypeOK
<1> SUFFICES ASSUME Init
             PROVE  TypeOK
  OBVIOUS
<1>1. hooks \in [Hooks -> Hook \cup {NoHook}] /\ queue \in [Deliveries -> Row \cup {NoRow}]
  BY DEF Init
<1>2. call \in [Calls -> Call]
  BY DEF Init, Call
<1>3. held \in [Senders -> SUBSET Held] /\ job \in [Senders -> Job \cup {NoJob}]
  BY DEF Init
<1>4. faults \in 0..MaxFaults
  BY LimitsAssumption DEF Init
<1>5. /\ later \in [Deliveries -> SUBSET Deliveries]
      /\ levels \subseteq Levels /\ orphaned \subseteq Levels /\ raced \subseteq Levels
  BY DEF Init
<1>6. \A d \in Deliveries : queue[d] = NoRow
  BY DEF Init
<1>7. QED
  BY <1>1, <1>2, <1>3, <1>4, <1>5, <1>6 DEF TypeOK

\* A delivery that comes due is put after the others.
LEMMA TypeComesDue ==
    ASSUME TypeOK, NEW d \in Deliveries, ComesDue(d)
    PROVE  later' \in [Deliveries -> SUBSET Deliveries]
  BY DEF TypeOK, ComesDue

\* A call moves, and no table changes.
LEMMA TypeCall ==
    ASSUME TypeOK, NEW c \in Calls, NEW k \in Call, GoOn(c, k),
           UNCHANGED <<hooks, queue, later, held, job>>, levels' \subseteq Levels, faults' \in 0..MaxFaults,
           orphaned' \subseteq Levels, raced' \subseteq Levels
    PROVE  TypeOK'
  BY DEF TypeOK, GoOn

\* A sender moves, and rows of the queue may go or change, but not their webhook.
LEMMA TypeSend ==
    ASSUME TypeOK, NEW s \in Senders, UNCHANGED <<levels, hooks, later, call, orphaned, raced>>,
           faults' \in 0..MaxFaults,
           held' \in [Senders -> SUBSET Held], job' \in [Senders -> Job \cup {NoJob}],
           queue' \in [Deliveries -> Row \cup {NoRow}],
           \A d \in Deliveries : queue'[d] # NoRow =>
               queue[d] # NoRow /\ queue'[d].hook = queue[d].hook
    PROVE  TypeOK'
  BY DEF TypeOK

\* What is removed takes its deliveries along.
LEMMA TypeRemove ==
    ASSUME TypeOK, NEW gone, RemoveHooks(gone)
    PROVE  /\ hooks' \in [Hooks -> Hook \cup {NoHook}] /\ queue' \in [Deliveries -> Row \cup {NoRow}]
           /\ Rowed'
           /\ \A h \in Hooks : hooks'[h] = IF h \in gone THEN NoHook ELSE hooks[h]
<1>1. \A h \in Hooks : hooks'[h] = IF h \in gone THEN NoHook ELSE hooks[h]
  BY DEF RemoveHooks
<1>2. \A d \in Deliveries : queue'[d] = IF queue[d] # NoRow /\ queue[d].hook \in gone
                                        THEN NoRow ELSE queue[d]
  BY DEF RemoveHooks
<1>3. hooks' \in [Hooks -> Hook \cup {NoHook}] /\ queue' \in [Deliveries -> Row \cup {NoRow}]
  BY DEF RemoveHooks, TypeOK
<1>4. \A d \in Deliveries : queue[d] # NoRow => queue[d].hook \in Hooks /\ hooks[queue[d].hook] # NoHook
  BY DEF TypeOK, Row
<1>5. Rowed'
  BY <1>1, <1>2, <1>4 DEF Rowed
<1>6. QED
  BY <1>1, <1>3, <1>5

LEMMA TypeCallStep == ASSUME TypeOK, NEW c \in Calls, CallStep(c) PROVE TypeOK'
<1> USE DEF tables, sender, history
<1>0. Idle \in Call
  BY DEF Call
<1>1. ASSUME NEW l \in Levels, CreateWebhook(c, l)
      PROVE  TypeOK'
  <2>1. [at |-> "count", level |-> l] \in Call
    BY DEF Call
  <2>2. QED
    BY <1>1, <2>1, TypeCall DEF CreateWebhook, Begin, GoOn, TypeOK
<1>2. CASE CountWebhooks(c)
  <2> DEFINE k == [call[c] EXCEPT !.at = "insert"]
  <2>1. call[c] \in [at : {"count", "insert"}, level : Levels]
    BY <1>2, CallShapes DEF CountWebhooks
  <2>2. k \in Call
    BY <2>1 DEF Call
  <2>3. GoOn(c, k) \/ GoOn(c, Idle)
    BY <1>2 DEF CountWebhooks, Return
  <2>4. raced' \subseteq Levels
    BY <1>2, <2>1 DEF CountWebhooks, TypeOK
  <2>5. QED
    BY <1>0, <1>2, <2>2, <2>3, <2>4, TypeCall DEF CountWebhooks, TypeOK
<1>3. ASSUME NEW h \in Hooks, InsertWebhook(c, h)
      PROVE  TypeOK'
  <2>1. call[c].level \in Levels
    BY <1>3, CallShapes DEF InsertWebhook
  <2>2. [level |-> call[c].level, active |-> TRUE] \in Hook
    BY <2>1 DEF Hook
  <2>3. /\ hooks' \in [Hooks -> Hook \cup {NoHook}]
        /\ \A x \in Hooks : hooks[x] # NoHook => hooks'[x] # NoHook
    BY <1>3, <2>2, AbsentAssumption DEF InsertWebhook, TypeOK
  <2>4. orphaned' \subseteq Levels /\ call' \in [Calls -> Call]
    BY <1>0, <1>3, <2>1 DEF InsertWebhook, Return, GoOn, TypeOK
  <2>5. \A d \in Deliveries : queue[d] # NoRow => queue[d].hook \in Hooks
    BY DEF TypeOK, Row
  <2>6. UNCHANGED <<levels, queue, later, held, job, faults, raced>>
    BY <1>3 DEF InsertWebhook
  <2>7. QED
    BY <2>3, <2>4, <2>5, <2>6 DEF TypeOK
<1>4. ASSUME NEW h \in Hooks, NEW active \in BOOLEAN, UpdateWebhook(c, h, active)
      PROVE  TypeOK'
  <2>1. [at |-> "update", hook |-> h, active |-> active] \in Call
    BY DEF Call
  <2>2. QED
    BY <1>4, <2>1, TypeCall DEF UpdateWebhook, Begin, GoOn, TypeOK
<1>5. CASE StoreWebhook(c)
  <2> DEFINE h == call[c].hook
             r == [hooks[h] EXCEPT !.active = call[c].active]
  <2>1. h \in Hooks /\ call[c].active \in BOOLEAN
    BY <1>5, CallShapes DEF StoreWebhook
  <2>2. hooks[h] # NoHook => r \in Hook
    BY <2>1 DEF TypeOK, Hook
  <2>3. hooks' = hooks \/ (hooks[h] # NoHook /\ hooks' = [hooks EXCEPT ![h] = r])
    BY <1>5 DEF StoreWebhook
  <2>4. /\ hooks' \in [Hooks -> Hook \cup {NoHook}]
        /\ \A x \in Hooks : hooks[x] # NoHook => hooks'[x] # NoHook
    BY <2>1, <2>2, <2>3, AbsentAssumption DEF TypeOK
  <2>5. \A d \in Deliveries : queue[d] # NoRow => queue[d].hook \in Hooks
    BY DEF TypeOK, Row
  <2>6. UNCHANGED <<levels, queue, later, held, job, faults, orphaned, raced>> /\ call' \in [Calls -> Call]
    BY <1>0, <1>5 DEF StoreWebhook, Return, GoOn, TypeOK
  <2>7. QED
    BY <2>4, <2>5, <2>6 DEF TypeOK
<1>6. ASSUME NEW l \in Levels, DeleteLevel(c, l)
      PROVE  TypeOK'
  <2>1. [at |-> "hooks", level |-> l] \in Call
    BY DEF Call
  <2>2. QED
    BY <1>6, <2>1, TypeCall DEF DeleteLevel, Begin, GoOn, TypeOK
<1>7. CASE DeleteWebhooksFor(c)
  <2>1. UNCHANGED <<levels, later, held, job, faults, orphaned, raced>> /\ call' \in [Calls -> Call]
    BY <1>0, <1>7 DEF DeleteWebhooksFor, Return, GoOn, TypeOK
  <2>2. QED
    BY <1>7, <2>1, TypeRemove DEF DeleteWebhooksFor, TypeOK, Rowed
<1>8. ASSUME NEW under \in SUBSET Levels, Dispatch(c, under)
      PROVE  TypeOK'
  <2>1. [at |-> "match", under |-> under, found |-> {}] \in Call
    BY DEF Call
  <2>2. QED
    BY <1>8, <2>1, TypeCall DEF Dispatch, Begin, GoOn, TypeOK
<1>9. ASSUME NEW l \in Levels, MatchLevel(c, l)
      PROVE  TypeOK'
  <2>1. call[c] \in [at : {"match"}, under : SUBSET Levels, found : SUBSET Hooks]
    BY <1>9, CallShapes DEF MatchLevel
  <2>2. PICK wanting \in SUBSET Hooks :
            LET found == call[c].found \cup wanting
                rest == call[c].under \ {l} IN
            GoOn(c, IF rest # {} THEN [call[c] EXCEPT !.under = rest, !.found = found]
                    ELSE IF found # {} THEN [at |-> "queue", found |-> found] ELSE Idle)
    BY <1>9 DEF MatchLevel, OnLevel
  <2> DEFINE found == call[c].found \cup wanting
             rest == call[c].under \ {l}
  <2>3. [call[c] EXCEPT !.under = rest, !.found = found] \in Call
    BY <2>1 DEF Call
  <2>4. [at |-> "queue", found |-> found] \in Call
    BY <2>1 DEF Call
  <2>5. QED
    BY <1>0, <1>9, <2>2, <2>3, <2>4, TypeCall DEF MatchLevel, TypeOK
<1>10. ASSUME NEW h \in Hooks, NEW d \in Deliveries, QueueWebhookDelivery(c, h, d)
       PROVE  TypeOK'
  <2> DEFINE rest == call[c].found \ {h}
             new == [hook |-> h, attempts |-> 0, due |-> TRUE, taken |-> FALSE, refused |-> 0]
             k == IF rest = {} THEN Idle ELSE [call[c] EXCEPT !.found = rest]
  <2>1. call[c] \in [at : {"queue"}, found : SUBSET Hooks]
    BY <1>10, CallShapes DEF QueueWebhookDelivery
  <2>2. k \in Call /\ new \in Row
    BY <1>0, <2>1 DEF Call, Row
  <2>3. CASE hooks[h] = NoHook
    BY <1>0, <1>10, <2>3, TypeCall DEF QueueWebhookDelivery, Return, TypeOK
  <2>4. CASE hooks[h] # NoHook
    <3>1. queue' = [queue EXCEPT ![d] = new] /\ GoOn(c, k)
      BY <1>10, <2>4 DEF QueueWebhookDelivery
    <3>2. queue' \in [Deliveries -> Row \cup {NoRow}] /\ call' \in [Calls -> Call]
      BY <2>2, <3>1 DEF GoOn, TypeOK
    <3>3. \A x \in Deliveries : queue'[x] # NoRow => hooks[queue'[x].hook] # NoHook
      BY <2>4, <3>1 DEF TypeOK
    <3>4. /\ UNCHANGED <<levels, hooks, held, job, faults, orphaned, raced>>
          /\ later' \in [Deliveries -> SUBSET Deliveries]
      BY <1>10, <2>4, TypeComesDue DEF QueueWebhookDelivery
    <3>5. QED
      BY <3>2, <3>3, <3>4 DEF TypeOK
  <2>5. QED
    BY <2>3, <2>4
<1>11. QED
  BY <1>1, <1>2, <1>3, <1>4, <1>5, <1>6, <1>7, <1>8, <1>9, <1>10 DEF CallStep

LEMMA TypeSenderStep == ASSUME TypeOK, NEW s \in Senders, SenderStep(s) \/ SenderFault(s) PROVE TypeOK'
<1> USE DEF tables, history
<1>1. CASE Drain(s)
  <2>1. PICK found \in SUBSET Due :
            held' = [held EXCEPT ![s] = {[id |-> d, hook |-> queue[d].hook] : d \in found}]
    BY <1>1 DEF Drain, DueWebhookDeliveries
  <2>2. \A d \in found : d \in Deliveries /\ queue[d].hook \in Hooks
    BY DEF Due, TypeOK, Row
  <2>3. {[id |-> d, hook |-> queue[d].hook] : d \in found} \subseteq Held
    BY <2>2 DEF Held
  <2>4. held' \in [Senders -> SUBSET Held]
    BY <2>1, <2>3 DEF TypeOK
  <2>5. QED
    BY <1>1, <2>4, TypeSend DEF Drain, TypeOK
<1>2. ASSUME NEW r \in held[s], NEW answer \in {"taken", "refused"}, Post(s, r, answer)
      PROVE  TypeOK'
  <2>1. r \in Held /\ r.id \in Deliveries /\ [at |-> answer, what |-> r] \in Job
    BY SenderShapes DEF Job
  <2>2. held' \in [Senders -> SUBSET Held] /\ job' \in [Senders -> Job \cup {NoJob}]
    BY <1>2, <2>1 DEF Post, TypeOK
  <2>3. queue[r.id] # NoRow =>
          /\ [queue[r.id] EXCEPT !.taken = TRUE] \in Row
          /\ [queue[r.id] EXCEPT !.refused = @ + 1] \in Row
    <3>1. queue[r.id] # NoRow => queue[r.id] \in Row
      BY <2>1 DEF TypeOK
    <3>2. QED
      BY <3>1, RowChanged
  <2>4. \/ queue' = queue
        \/ /\ queue[r.id] # NoRow
           /\ \/ queue' = [queue EXCEPT ![r.id] = [queue[r.id] EXCEPT !.taken = TRUE]]
              \/ queue' = [queue EXCEPT ![r.id] = [queue[r.id] EXCEPT !.refused = @ + 1]]
    BY <1>2 DEF Post
  <2>5. queue' \in [Deliveries -> Row \cup {NoRow}]
    BY <2>1, <2>3, <2>4 DEF TypeOK
  <2>6. \A d \in Deliveries : queue'[d] # NoRow => queue[d] # NoRow /\ queue'[d].hook = queue[d].hook
    BY <2>1, <2>3, <2>4 DEF TypeOK, Row
  <2>7. QED
    BY <1>2, <2>2, <2>5, <2>6, TypeSend DEF Post, TypeOK
<1>3. ASSUME job[s] # NoJob, queue' \in {queue, [queue EXCEPT ![job[s].what.id] = NoRow]},
             NEW j \in Job \cup {NoJob}, job' = [job EXCEPT ![s] = j],
             held' \in [Senders -> SUBSET Held], faults' \in 0..MaxFaults,
             UNCHANGED <<levels, hooks, later, call, orphaned, raced>>
      PROVE  TypeOK'
  <2>1. job[s].what.id \in Deliveries
    BY <1>3, SenderShapes
  <2>2. job' \in [Senders -> Job \cup {NoJob}] /\ queue' \in [Deliveries -> Row \cup {NoRow}]
    BY <1>3, <2>1 DEF TypeOK
  <2>3. \A d \in Deliveries : queue'[d] # NoRow => queue[d] # NoRow /\ queue'[d].hook = queue[d].hook
    BY <1>3, <2>1 DEF TypeOK
  <2>4. QED
    BY <1>3, <2>2, <2>3, TypeSend
<1>4. CASE WebhookDelivered(s)
  BY <1>3, <1>4 DEF WebhookDelivered, Recording, Recorded, LeaveQueue, TypeOK
<1>5. CASE WebhookFailed(s)
  <2> DEFINE d == job[s].what.id
             r == [queue[d] EXCEPT !.attempts = @ + 1, !.due = FALSE]
             j == [job[s] EXCEPT !.at = "exhausted"]
  <2>1. job[s] # NoJob /\ d \in Deliveries /\ j \in Job
    BY <1>5, SenderShapes DEF WebhookFailed, Recording, Job, TypeOK
  <2>2. CASE queue[d] = NoRow
    BY <1>3, <1>5, <2>1, <2>2 DEF WebhookFailed, Recorded, TypeOK
  <2>3. CASE queue[d] # NoRow
    <3>1. r \in Row /\ r.hook = queue[d].hook
      <4>1. queue[d] \in Row
        BY <2>1, <2>3 DEF TypeOK
      <4>2. r \in Row
        BY <4>1, RowChanged
      <4>3. QED
        BY <4>1, <4>2 DEF Row
    <3>2. queue' = [queue EXCEPT ![d] = r]
      BY <1>5, <2>1, <2>3 DEF WebhookFailed, TypeOK
    <3>3. job' \in [Senders -> Job \cup {NoJob}]
      BY <1>5, <2>1, <2>3 DEF WebhookFailed, Recorded, TypeOK
    <3>4. queue' \in [Deliveries -> Row \cup {NoRow}]
      BY <3>1, <3>2 DEF TypeOK
    <3>5. \A x \in Deliveries : queue'[x] # NoRow => queue[x] # NoRow /\ queue'[x].hook = queue[x].hook
      BY <2>3, <3>1, <3>2 DEF TypeOK
    <3>6. QED
      BY <1>5, <3>3, <3>4, <3>5, TypeSend DEF WebhookFailed, TypeOK
  <2>4. QED
    BY <2>2, <2>3
<1>6. CASE DropExhausted(s)
  <2> DEFINE j == [job[s] EXCEPT !.at = "off"]
  <2>1. job[s] # NoJob /\ j \in Job
    BY <1>6, SenderShapes DEF DropExhausted, Recording, Job, TypeOK
  <2>2. QED
    BY <1>3, <1>6, <2>1 DEF DropExhausted, LeaveQueue, TypeOK
<1>7. CASE SwitchOff(s)
  <2> DEFINE h == job[s].what.hook
  <2>1. h \in Hooks
    BY <1>7, SenderShapes DEF SwitchOff, Recording
  <2>2. /\ hooks' \in [Hooks -> Hook \cup {NoHook}]
        /\ \A x \in Hooks : hooks[x] # NoHook => hooks'[x] # NoHook
    BY <1>7, <2>1, AbsentAssumption DEF SwitchOff, TypeOK, Hook
  <2>3. \A d \in Deliveries : queue[d] # NoRow => queue[d].hook \in Hooks
    BY DEF TypeOK, Row
  <2>4. job' \in [Senders -> Job \cup {NoJob}]
    BY <1>7 DEF SwitchOff, Recorded, TypeOK
  <2>5. UNCHANGED <<levels, queue, later, call, held, faults, orphaned, raced>>
    BY <1>7 DEF SwitchOff
  <2>6. QED
    BY <2>2, <2>3, <2>4, <2>5 DEF TypeOK
<1>8. CASE SenderFault(s)
  <2>1. faults' \in 0..MaxFaults
    BY <1>8, LimitsAssumption DEF SenderFault, TypeOK
  <2>2. held' \in [Senders -> SUBSET Held] /\ job' \in [Senders -> Job \cup {NoJob}]
    BY <1>8 DEF SenderFault, Recorded, TypeOK
  <2>3. QED
    BY <1>8, <2>1, <2>2, TypeSend DEF SenderFault, TypeOK
<1>9. QED
  BY <1>1, <1>2, <1>4, <1>5, <1>6, <1>7, <1>8 DEF SenderStep

LEMMA TypeStep == TypeOK /\ [Next]_vars => TypeOK'
<1> SUFFICES ASSUME TypeOK, [Next]_vars
             PROVE  TypeOK'
  OBVIOUS
<1>1. ASSUME NEW c \in Calls, BreakOff(c)
      PROVE  TypeOK'
  <2>1. faults' \in 0..MaxFaults
    BY <1>1, LimitsAssumption DEF BreakOff, TypeOK
  <2>2. orphaned' \subseteq Levels
    BY <1>1, CallShapes DEF BreakOff, TypeOK
  <2>3. Idle \in Call
    BY DEF Call
  <2>4. QED
    BY <1>1, <2>1, <2>2, <2>3, TypeCall DEF BreakOff, Return, tables, sender, TypeOK
<1>2. ASSUME NEW h \in Hooks, DeleteWebhook(h)
      PROVE  TypeOK'
  BY <1>2, TypeRemove DEF DeleteWebhook, sender, history, TypeOK, Rowed
<1>3. ASSUME NEW d \in Deliveries, WaitIsOver(d)
      PROVE  TypeOK'
  <2> DEFINE r == [queue[d] EXCEPT !.due = TRUE]
  <2>1. queue[d] # NoRow /\ queue' = [queue EXCEPT ![d] = r]
    BY <1>3 DEF WaitIsOver
  <2>2. r \in Row /\ r.hook = queue[d].hook
    BY <2>1 DEF TypeOK, Row
  <2>3. queue' \in [Deliveries -> Row \cup {NoRow}]
    BY <2>1, <2>2 DEF TypeOK
  <2>4. \A x \in Deliveries : queue'[x] # NoRow => queue[x] # NoRow /\ queue'[x].hook = queue[x].hook
    BY <2>1, <2>2 DEF TypeOK
  <2>5. /\ UNCHANGED <<levels, hooks, call, held, job, faults, orphaned, raced>>
        /\ later' \in [Deliveries -> SUBSET Deliveries]
    BY <1>3, TypeComesDue DEF WaitIsOver, sender, history
  <2>6. QED
    BY <2>3, <2>4, <2>5 DEF TypeOK
<1>4. CASE UNCHANGED vars
  BY <1>4 DEF vars, tables, sender, history, TypeOK
<1>5. QED
  BY <1>1, <1>2, <1>3, <1>4, TypeCallStep, TypeSenderStep DEF Next

\* The rows are rows of the schema, and a delivery in the queue is a webhook's.
THEOREM WebhooksTypeOK == Spec => []TypeOK
  BY TypeInit, TypeStep, PTL DEF Spec

----------------------------------------------------------------------------
(* What leaves the queue *)

Refusing(d) == {s \in Senders : job[s] # NoJob /\ job[s].at = "refused" /\ job[s].what.id = d}

\* A refusal was answered before it is counted, and by as many senders as are
\* yet to count it.
Answered(d) ==
    queue[d] # NoRow =>
        /\ queue[d].attempts + Cardinality(Refusing(d)) <= queue[d].refused
        /\ \A s \in Senders : job[s] # NoJob /\ job[s].what.id = d =>
                /\ job[s].at = "taken" => queue[d].taken
                /\ job[s].at = "exhausted" => queue[d].refused >= MaxAttempts

AnswerInv == TypeOK /\ \A d \in Deliveries : Answered(d)

LEMMA AnswerInit == Init => AnswerInv
  BY TypeInit DEF Init, AnswerInv, Answered

LEMMA RefusingIsFinite ==
    \A d : IsFiniteSet(Refusing(d)) /\ Cardinality(Refusing(d)) \in Nat
<1> SUFFICES ASSUME NEW d
             PROVE  IsFiniteSet(Refusing(d)) /\ Cardinality(Refusing(d)) \in Nat
  OBVIOUS
<1>1. Refusing(d) \in SUBSET Senders
  BY DEF Refusing
<1>2. IsFiniteSet(Refusing(d))
  BY <1>1, FiniteAssumption, FS_Subset
<1>3. QED
  BY <1>2, FS_CardinalityType

\* A delivery that no sender is told of anything new, and that counts nothing.
LEMMA AnswerKept ==
    ASSUME NEW d \in Deliveries, TypeOK, Answered(d),
           queue'[d] # NoRow => /\ queue[d] # NoRow /\ queue'[d].attempts = queue[d].attempts
                                /\ queue'[d].refused = queue[d].refused
                                /\ queue'[d].taken = queue[d].taken,
           Refusing(d)' \subseteq Refusing(d),
           \A s \in Senders : job'[s] # NoJob /\ job'[s].what.id = d =>
               job'[s].at \notin {"taken", "exhausted"} \/ job'[s] = job[s]
    PROVE  Answered(d)'
<1> SUFFICES ASSUME queue'[d] # NoRow
             PROVE  Answered(d)'
  BY DEF Answered
<1>1. queue[d] # NoRow /\ queue[d].attempts \in Nat /\ queue[d].refused \in Nat
  BY DEF TypeOK, Row
<1>2. /\ Cardinality(Refusing(d)) \in Nat /\ Cardinality(Refusing(d)') \in Nat
      /\ Cardinality(Refusing(d)') <= Cardinality(Refusing(d))
  <2>1. IsFiniteSet(Refusing(d)) /\ Cardinality(Refusing(d)) \in Nat
    BY RefusingIsFinite
  <2>2. IsFiniteSet(Refusing(d)') /\ Cardinality(Refusing(d)') <= Cardinality(Refusing(d))
    BY <2>1, FS_Subset
  <2>3. QED
    BY <2>1, <2>2, FS_CardinalityType
<1>3. queue'[d].attempts + Cardinality(Refusing(d)') <= queue'[d].refused
  BY <1>1, <1>2 DEF Answered
<1>4. QED
  BY <1>1, <1>3 DEF Answered

\* Nothing of the senders changes, and rows only go.
LEMMA AnswerQuiet ==
    ASSUME AnswerInv, TypeOK', job' = job,
           \A d \in Deliveries : queue'[d] \in {queue[d], NoRow}
    PROVE  AnswerInv'
<1>1. \A d \in Deliveries : Refusing(d)' = Refusing(d)
  BY DEF Refusing
<1>2. QED
  BY <1>1, AnswerKept DEF AnswerInv

LEMMA AnswerStep == AnswerInv /\ [Next]_vars => AnswerInv'
<1> SUFFICES ASSUME AnswerInv, [Next]_vars
             PROVE  AnswerInv'
  OBVIOUS
<1> USE DEF tables, sender, history
<1>0. TypeOK /\ TypeOK'
  BY TypeStep DEF AnswerInv
<1>1. ASSUME NEW gone, RemoveHooks(gone), job' = job
      PROVE  AnswerInv'
  BY <1>0, <1>1, AnswerQuiet DEF RemoveHooks
<1>2. ASSUME NEW c \in Calls, NEW h \in Hooks, NEW d \in Deliveries, QueueWebhookDelivery(c, h, d)
      PROVE  AnswerInv'
  <2>1. CASE hooks[h] = NoHook
    BY <1>0, <1>2, <2>1, AnswerQuiet DEF QueueWebhookDelivery
  <2>2. CASE hooks[h] # NoHook
    <3>1. /\ queue' = [queue EXCEPT ![d] = [hook |-> h, attempts |-> 0, due |-> TRUE,
                                           taken |-> FALSE, refused |-> 0]]
          /\ job' = job
      BY <1>2, <2>2 DEF QueueWebhookDelivery
    <3>2. \A s \in Senders : job[s] # NoJob => job[s].what.id # d
      BY <1>2 DEF QueueWebhookDelivery, FreshDelivery, At
    <3>3. Refusing(d)' = {}
      BY <3>1, <3>2 DEF Refusing
    <3>4. Cardinality(Refusing(d)') = 0
      BY <3>3, FS_EmptySet
    <3>5. queue'[d].attempts = 0 /\ queue'[d].refused = 0
      BY <1>0, <3>1 DEF TypeOK
    <3>6. Answered(d)'
      BY <3>1, <3>2, <3>4, <3>5 DEF Answered
    <3>7. ASSUME NEW x \in Deliveries, x # d
          PROVE  Answered(x)'
      <4>1. queue'[x] = queue[x] /\ Refusing(x)' = Refusing(x)
        BY <1>0, <3>1, <3>7 DEF TypeOK, Refusing
      <4>2. QED
        BY <1>0, <3>1, <4>1, AnswerKept DEF AnswerInv
    <3>8. QED
      BY <1>0, <3>6, <3>7 DEF AnswerInv
  <2>3. QED
    BY <2>1, <2>2
<1>3. ASSUME NEW c \in Calls, CallStep(c)
      PROVE  AnswerInv'
  BY <1>0, <1>1, <1>2, <1>3, AnswerQuiet
     DEF CallStep, CreateWebhook, CountWebhooks, InsertWebhook, UpdateWebhook, StoreWebhook,
         DeleteLevel, DeleteWebhooksFor, Dispatch, MatchLevel
<1>4. ASSUME NEW s \in Senders, SenderStep(s) \/ SenderFault(s)
      PROVE  AnswerInv'
  <2>1. CASE Drain(s)
    BY <1>0, <2>1, AnswerQuiet DEF Drain
  <2>2. ASSUME NEW r \in held[s], NEW answer \in {"taken", "refused"}, Post(s, r, answer)
        PROVE  AnswerInv'
    <3> DEFINE j == [at |-> answer, what |-> r]
    <3>1. /\ job[s] = NoJob /\ job' = [job EXCEPT ![s] = j] /\ r.id \in Deliveries
          /\ j.at = answer /\ j.what.id = r.id
          /\ queue' = IF queue[r.id] = NoRow THEN queue
                     ELSE IF answer = "taken" THEN [queue EXCEPT ![r.id].taken = TRUE]
                     ELSE [queue EXCEPT ![r.id].refused = @ + 1]
      BY <1>0, <2>2, SenderShapes DEF Post
    <3>2. job'[s] = j /\ j # NoJob /\ \A x \in Senders \ {s} : job'[x] = job[x]
      <4>1. j \in Job
        BY <1>0, SenderShapes DEF Job
      <4>2. QED
        BY <1>0, <3>1, <4>1, AbsentAssumption DEF TypeOK
    <3> HIDE DEF j
    <3>3. ASSUME NEW d \in Deliveries, d # r.id
          PROVE  Answered(d)'
      <4>1. queue'[d] = queue[d] /\ Refusing(d)' = Refusing(d)
        BY <1>0, <3>1, <3>2, <3>3 DEF TypeOK, Refusing
      <4>2. QED
        BY <1>0, <3>1, <3>2, <3>3, <4>1, AnswerKept DEF AnswerInv
    <3>4. Answered(r.id)'
      <4> DEFINE d == r.id
      <4> SUFFICES ASSUME queue'[d] # NoRow
                   PROVE  Answered(r.id)'
        BY DEF Answered
      <4>1. queue[d] # NoRow
        BY <3>1
      <4>2. /\ queue[d].attempts \in Nat /\ queue[d].refused \in Nat
            /\ Cardinality(Refusing(d)) \in Nat /\ IsFiniteSet(Refusing(d)) /\ s \notin Refusing(d)
        <5>1. queue[d] \in Row
          BY <1>0, <3>1, <4>1 DEF TypeOK
        <5>2. s \notin Refusing(d)
          BY <3>1 DEF Refusing
        <5>3. QED
          BY <5>1, <5>2, RefusingIsFinite DEF Row
      <4>3. Answered(d) /\ queue[d].attempts + Cardinality(Refusing(d)) <= queue[d].refused
        BY <3>1, <4>1 DEF AnswerInv, Answered
      <4>4. CASE answer = "taken"
        <5>1. /\ queue'[d].attempts = queue[d].attempts /\ queue'[d].refused = queue[d].refused
              /\ queue'[d].taken
          <6>1. queue[d] \in Row /\ queue'[d] = [queue[d] EXCEPT !.taken = TRUE]
            BY <1>0, <3>1, <4>1, <4>4 DEF TypeOK
          <6>2. QED
            BY <6>1 DEF Row
        <5>2. Refusing(d)' = Refusing(d)
          BY <3>1, <3>2, <4>4 DEF Refusing
        <5>3. Cardinality(Refusing(d)') = Cardinality(Refusing(d))
          BY <5>2
        <5>4. \A x \in Senders \ {s} : job'[x] # NoJob /\ job'[x].what.id = d /\ job'[x].at = "exhausted" =>
                    queue'[d].refused >= MaxAttempts
          BY <3>2, <4>1, <4>3, <5>1 DEF Answered
        <5>5. QED
          BY <3>1, <3>2, <4>3, <4>4, <5>1, <5>3, <5>4 DEF Answered
      <4>5. CASE answer = "refused"
        <5>1. /\ queue'[d].attempts = queue[d].attempts /\ queue'[d].refused = queue[d].refused + 1
              /\ queue'[d].taken = queue[d].taken
          <6>1. queue[d] \in Row /\ queue'[d] = [queue[d] EXCEPT !.refused = @ + 1]
            BY <1>0, <3>1, <4>1, <4>5 DEF TypeOK
          <6>2. QED
            BY <6>1, RowChanged
        <5>2. Refusing(d)' = Refusing(d) \cup {s}
          BY <3>1, <3>2, <4>5 DEF Refusing
        <5>3. Cardinality(Refusing(d) \cup {s}) = Cardinality(Refusing(d)) + 1
          BY <4>2, FS_AddElement
        <5>4. queue'[d].attempts + Cardinality(Refusing(d)') <= queue'[d].refused
          BY <4>2, <4>3, <5>1, <5>2, <5>3
        <5>5. \A x \in Senders \ {s} : job'[x] # NoJob /\ job'[x].what.id = d =>
                  /\ job'[x].at = "taken" => queue'[d].taken
                  /\ job'[x].at = "exhausted" => queue[d].refused >= MaxAttempts
          BY <3>2, <4>1, <4>3, <5>1 DEF Answered
        <5>6. queue[d].refused >= MaxAttempts => queue'[d].refused >= MaxAttempts
          BY <4>2, <5>1, LimitsAssumption
        <5>7. QED
          BY <3>1, <3>2, <4>5, <5>4, <5>5, <5>6 DEF Answered
      <4>6. QED
        BY <4>4, <4>5
    <3>5. QED
      BY <1>0, <3>1, <3>3, <3>4 DEF AnswerInv
  <2>3. ASSUME job' = [job EXCEPT ![s] = NoJob],
               \A d \in Deliveries : queue'[d] \in {queue[d], NoRow}
        PROVE  AnswerInv'
    <3>1. job'[s] = NoJob /\ \A x \in Senders \ {s} : job'[x] = job[x]
      BY <1>0, <2>3 DEF TypeOK
    <3>2. \A d \in Deliveries : Refusing(d)' \subseteq Refusing(d)
      BY <3>1 DEF Refusing
    <3>3. QED
      BY <1>0, <2>3, <3>1, <3>2, AnswerKept DEF AnswerInv
  <2>4. CASE WebhookDelivered(s)
    BY <1>0, <2>3, <2>4 DEF WebhookDelivered, Recorded, LeaveQueue, TypeOK
  <2>5. CASE WebhookFailed(s)
    <3> DEFINE e == job[s].what.id
    <3>1. job[s] # NoJob /\ job[s].at = "refused" /\ e \in Deliveries /\ s \in Refusing(e)
      BY <1>0, <2>5, SenderShapes DEF WebhookFailed, Recording, Refusing
    <3>2. CASE queue[e] = NoRow
      BY <2>3, <2>5, <3>2 DEF WebhookFailed, Recorded
    <3>3. CASE queue[e] # NoRow
      <4> PICK d \in Deliveries : d = e
        BY <3>1
      <4>1. /\ queue' = [queue EXCEPT ![d].attempts = @ + 1, ![d].due = FALSE]
            /\ \/ job' = [job EXCEPT ![s] = NoJob]
               \/ /\ queue[d].attempts + 1 >= MaxAttempts
                  /\ job' = [job EXCEPT ![s].at = "exhausted"]
        BY <2>5, <3>3 DEF WebhookFailed, Exhausted, Recorded
      <4>2. /\ \A x \in Senders \ {s} : job'[x] = job[x]
            /\ \/ job'[s] = NoJob
               \/ /\ job'[s].at = "exhausted" /\ job'[s].what = job[s].what
                  /\ queue[d].attempts + 1 >= MaxAttempts
        <5>1. \A x \in Senders \ {s} : job'[x] = job[x]
          BY <1>0, <4>1 DEF TypeOK
        <5>2. CASE job' = [job EXCEPT ![s] = NoJob]
          BY <1>0, <5>1, <5>2 DEF TypeOK
        <5>3. CASE job' = [job EXCEPT ![s].at = "exhausted"]
          <6>1. job[s] \in Job
            BY <1>0, <3>1 DEF TypeOK
          <6>2. job'[s] = [job[s] EXCEPT !.at = "exhausted"]
            BY <1>0, <5>3 DEF TypeOK
          <6>3. job'[s].at = "exhausted" /\ job'[s].what = job[s].what
            BY <6>1, <6>2 DEF Job
          <6>4. CASE queue[d].attempts + 1 >= MaxAttempts
            BY <5>1, <6>3, <6>4
          <6>5. QED
            BY <4>1, <5>1, <5>2, <6>4
        <5>4. QED
          BY <4>1, <5>2, <5>3
      <4>3. /\ queue[d].attempts \in Nat /\ queue[d].refused \in Nat
            /\ Cardinality(Refusing(d)) \in Nat /\ IsFiniteSet(Refusing(d)) /\ s \in Refusing(d)
        BY <1>0, <3>1, <3>3, RefusingIsFinite DEF TypeOK, Row
      <4>4. Answered(d) /\ queue[d].attempts + Cardinality(Refusing(d)) <= queue[d].refused
        BY <3>3 DEF AnswerInv, Answered
      <4>5. /\ queue'[d].attempts = queue[d].attempts + 1 /\ queue'[d].refused = queue[d].refused
            /\ queue'[d].taken = queue[d].taken
        <5>0. queue[d] \in Row /\ queue \in [Deliveries -> Row \cup {NoRow}]
          BY <1>0, <3>3 DEF TypeOK
        <5>1. queue'[d] = [queue[d] EXCEPT !.attempts = @ + 1, !.due = FALSE]
          BY <4>1, <5>0
        <5>2. QED
          BY <5>0, <5>1, RowChanged
      <4>6. Refusing(d)' = Refusing(d) \ {s}
        BY <3>1, <4>2 DEF Refusing
      <4>7. Cardinality(Refusing(d) \ {s}) = Cardinality(Refusing(d)) - 1
        BY <4>3, FS_RemoveElement
      <4>8. Cardinality(Refusing(d) \ {s}) \in Nat
        BY <4>3, FS_RemoveElement, FS_CardinalityType
      <4>9. /\ queue'[d].attempts + Cardinality(Refusing(d)') <= queue'[d].refused
            /\ queue[d].attempts + 1 <= queue[d].refused
        BY <4>3, <4>4, <4>5, <4>6, <4>7, <4>8
      <4>10. job'[s] # NoJob /\ job'[s].at = "exhausted" => queue'[d].refused >= MaxAttempts
        BY <4>2, <4>3, <4>5, <4>9, LimitsAssumption
      <4>11. \A x \in Senders \ {s} : job'[x] # NoJob /\ job'[x].what.id = d =>
                  /\ job'[x].at = "taken" => queue'[d].taken
                  /\ job'[x].at = "exhausted" => queue'[d].refused >= MaxAttempts
        BY <3>3, <4>2, <4>4, <4>5 DEF Answered
      <4>12. Answered(d)'
        BY <4>2, <4>9, <4>10, <4>11 DEF Answered
      <4>13. ASSUME NEW x \in Deliveries, x # d
             PROVE  Answered(x)'
        <5>1. queue'[x] = queue[x]
          BY <1>0, <4>1, <4>13 DEF TypeOK
        <5>0. Refusing(x)' = Refusing(x)
          BY <3>1, <4>2, <4>13 DEF Refusing
        <5>2. \A y \in Senders : job'[y] # NoJob /\ job'[y].what.id = x => job'[y] = job[y]
          BY <3>1, <4>2, <4>13
        <5>3. QED
          BY <1>0, <5>0, <5>1, <5>2, AnswerKept DEF AnswerInv
      <4>14. QED
        BY <1>0, <4>12, <4>13 DEF AnswerInv
    <3>4. QED
      BY <3>2, <3>3
  <2>6. CASE DropExhausted(s)
    <3>1. /\ job[s] # NoJob /\ job[s].at = "exhausted"
          /\ \A x \in Senders \ {s} : job'[x] = job[x]
          /\ job'[s].at = "off" /\ job'[s].what = job[s].what
      BY <1>0, <2>6, SenderShapes DEF DropExhausted, Recording, TypeOK, Job
    <3>2. \A d \in Deliveries : Refusing(d)' \subseteq Refusing(d)
      BY <3>1 DEF Refusing
    <3>3. \A d \in Deliveries : queue'[d] \in {queue[d], NoRow}
      BY <1>0, <2>6 DEF DropExhausted, LeaveQueue, TypeOK
    <3>4. QED
      BY <1>0, <3>1, <3>2, <3>3, AnswerKept DEF AnswerInv
  <2>7. CASE SwitchOff(s) \/ SenderFault(s)
    BY <2>3, <2>7 DEF SwitchOff, SenderFault, Recorded
  <2>8. QED
    BY <1>4, <2>1, <2>2, <2>4, <2>5, <2>6, <2>7 DEF SenderStep
<1>5. ASSUME NEW c \in Calls, BreakOff(c)
      PROVE  AnswerInv'
  BY <1>0, <1>5, AnswerQuiet DEF BreakOff
<1>6. ASSUME NEW h \in Hooks, DeleteWebhook(h)
      PROVE  AnswerInv'
  BY <1>1, <1>6 DEF DeleteWebhook
<1>7. ASSUME NEW d \in Deliveries, WaitIsOver(d)
      PROVE  AnswerInv'
  <2>1. job' = job /\ queue[d] # NoRow /\ queue' = [queue EXCEPT ![d].due = TRUE]
    BY <1>7 DEF WaitIsOver
  <2>2. \A x \in Deliveries : Refusing(x)' = Refusing(x)
    BY <2>1 DEF Refusing
  <2>3. \A x \in Deliveries : queue'[x] # NoRow =>
              /\ queue[x] # NoRow /\ queue'[x].attempts = queue[x].attempts
              /\ queue'[x].refused = queue[x].refused /\ queue'[x].taken = queue[x].taken
    <3>1. queue[d] \in Row /\ queue'[d] = [queue[d] EXCEPT !.due = TRUE]
      BY <1>0, <2>1 DEF TypeOK
    <3>2. /\ queue'[d].attempts = queue[d].attempts /\ queue'[d].refused = queue[d].refused
          /\ queue'[d].taken = queue[d].taken
      BY <3>1 DEF Row
    <3>3. \A x \in Deliveries : x # d => queue'[x] = queue[x]
      BY <1>0, <2>1 DEF TypeOK
    <3>4. QED
      BY <2>1, <3>2, <3>3
  <2>4. QED
    BY <1>0, <2>1, <2>2, <2>3, AnswerKept DEF AnswerInv
<1>8. CASE UNCHANGED vars
  BY <1>0, <1>8, AnswerQuiet DEF vars
<1>9. QED
  BY <1>3, <1>4, <1>5, <1>6, <1>7, <1>8 DEF Next

\* What leaves the queue while its webhook stays was taken by the receiver, or
\* was refused as often as MaxAttempts, however many replicas post it.
THEOREM WebhooksAnswered == Spec => LeavesOnlyAnswered
<1>1. ASSUME AnswerInv, Next, NEW d \in Deliveries, queue[d] # NoRow, queue'[d] = NoRow,
             hooks'[queue[d].hook] # NoHook
      PROVE  queue[d].taken \/ queue[d].refused >= MaxAttempts
  <2> USE DEF tables, sender, history
  <2>0. TypeOK /\ Answered(d) /\ queue[d].hook \in Hooks
    BY <1>1 DEF AnswerInv, TypeOK, Row
  <2>1. \A gone : ~RemoveHooks(gone)
    BY <1>1, <2>0 DEF RemoveHooks
  <2>2. queue' # queue
    BY <1>1
  <2>3. \A c \in Calls, h \in Hooks, x \in Deliveries : ~QueueWebhookDelivery(c, h, x)
    BY <1>1, <2>0 DEF QueueWebhookDelivery, FreshDelivery, TypeOK
  <2>4. \A c \in Calls : ~CallStep(c) /\ ~BreakOff(c)
    BY <2>1, <2>2, <2>3
       DEF CallStep, BreakOff, CreateWebhook, CountWebhooks, InsertWebhook, UpdateWebhook,
           StoreWebhook, DeleteLevel, DeleteWebhooksFor, Dispatch, MatchLevel
  <2>5. \A x \in Deliveries : ~WaitIsOver(x)
    BY <1>1, <2>0, RowIsKept DEF WaitIsOver, TypeOK
  <2>6. PICK s \in Senders : SenderStep(s)
    BY <1>1, <2>1, <2>2, <2>4, <2>5 DEF Next, DeleteWebhook, SenderFault
  <2>7. \A r \in held[s], answer \in {"taken", "refused"} : ~Post(s, r, answer)
    BY <1>1, <2>0, RowIsKept DEF Post, TypeOK
  <2>8. ~WebhookFailed(s)
    BY <1>1, <2>0, RowIsKept DEF WebhookFailed, TypeOK
  <2>9. WebhookDelivered(s) \/ DropExhausted(s)
    BY <2>2, <2>6, <2>7, <2>8 DEF SenderStep, Drain, SwitchOff
  <2>10. queue' = [queue EXCEPT ![job[s].what.id] = NoRow] /\ job[s] # NoJob
         /\ job[s].at \in {"taken", "exhausted"}
    BY <2>9 DEF WebhookDelivered, DropExhausted, LeaveQueue, Recording
  <2>11. job[s].what.id = d
    BY <1>1, <2>0, <2>10 DEF TypeOK
  <2>12. QED
    BY <1>1, <2>0, <2>10, <2>11 DEF Answered
<1>2. AnswerInv /\ [Next]_vars =>
        [\A d \in Deliveries :
            queue[d] # NoRow /\ queue'[d] = NoRow /\ hooks'[queue[d].hook] # NoHook =>
                queue[d].taken \/ queue[d].refused >= MaxAttempts]_vars
  BY <1>1
<1>3. QED
  BY <1>2, AnswerInit, AnswerStep, PTL DEF Spec, LeavesOnlyAnswered

----------------------------------------------------------------------------
(* Levels *)

\* No webhook is new, and none has moved to another level.
Fewer ==
    \A h \in Hooks :
        hooks'[h] # NoHook => hooks[h] # NoHook /\ hooks'[h].level = hooks[h].level

\* The webhooks of the levels, as a step can change them.
LEMMA HooksStep ==
    ASSUME TypeOK, Next
    PROVE  \/ Fewer
           \/ \E c \in Calls, h \in Hooks : InsertWebhook(c, h)
<1> USE DEF tables, sender, history, Fewer
<1>1. ASSUME NEW gone, RemoveHooks(gone)
      PROVE  Fewer
  BY <1>1, TypeRemove
<1>2. ASSUME NEW h \in Hooks, hooks[h] # NoHook, NEW active, hooks' = [hooks EXCEPT ![h].active = active]
      PROVE  Fewer
  <2>1. hooks[h] \in Hook /\ hooks'[h] = [hooks[h] EXCEPT !.active = active]
    BY <1>2 DEF TypeOK
  <2>2. hooks'[h].level = hooks[h].level
    BY <2>1 DEF Hook
  <2>3. \A x \in Hooks : x # h => hooks'[x] = hooks[x]
    BY <1>2 DEF TypeOK
  <2>4. QED
    BY <1>2, <2>2, <2>3
<1>3. CASE hooks' = hooks
  BY <1>3
<1>4. ASSUME NEW c \in Calls, StoreWebhook(c)
      PROVE  Fewer
  BY <1>2, <1>3, <1>4, CallShapes DEF StoreWebhook
<1>5. ASSUME NEW s \in Senders, SwitchOff(s)
      PROVE  Fewer
  BY <1>2, <1>3, <1>5, SenderShapes DEF SwitchOff, Recording
<1>6. ASSUME NEW c \in Calls, CallStep(c), \A h \in Hooks : ~InsertWebhook(c, h)
      PROVE  Fewer
  BY <1>1, <1>3, <1>4, <1>6
     DEF CallStep, CreateWebhook, CountWebhooks, UpdateWebhook, DeleteLevel, DeleteWebhooksFor,
         Dispatch, MatchLevel, QueueWebhookDelivery
<1>7. ASSUME NEW s \in Senders, SenderStep(s) \/ SenderFault(s)
      PROVE  Fewer
  BY <1>3, <1>5, <1>7
     DEF SenderStep, SenderFault, Drain, Post, WebhookDelivered, WebhookFailed, DropExhausted
<1>8. QED
  BY <1>1, <1>3, <1>6, <1>7 DEF Next, BreakOff, DeleteWebhook, WaitIsOver

\* What a step makes of the webhooks of a level.
LEMMA OnLevelStep ==
    ASSUME TypeOK, Next, NEW l \in Levels
    PROVE  \/ OnLevel(l)' \subseteq OnLevel(l)
           \/ \E c \in Calls, h \in Hooks :
                 InsertWebhook(c, h) /\ call[c].level = l /\ OnLevel(l)' = OnLevel(l) \cup {h}
<1>1. CASE Fewer
  BY <1>1 DEF OnLevel, Fewer
<1>2. ASSUME NEW c \in Calls, NEW h \in Hooks, InsertWebhook(c, h)
      PROVE  \/ OnLevel(l)' \subseteq OnLevel(l)
             \/ call[c].level = l /\ OnLevel(l)' = OnLevel(l) \cup {h}
  <2>1. call[c].level \in Levels /\ hooks[h] = NoHook
    BY <1>2, CallShapes DEF InsertWebhook, FreshHook
  <2> DEFINE new == [level |-> call[c].level, active |-> TRUE]
  <2>2. new \in Hook /\ new.level = call[c].level
    BY <2>1 DEF Hook
  <2>3. hooks'[h] = new /\ new # NoHook /\ \A x \in Hooks \ {h} : hooks'[x] = hooks[x]
    BY <1>2, <2>2, AbsentAssumption DEF InsertWebhook, TypeOK
  <2> HIDE DEF new
  <2>4. CASE call[c].level = l
    BY <2>1, <2>2, <2>3, <2>4 DEF OnLevel
  <2>5. CASE call[c].level # l
    BY <2>1, <2>2, <2>3, <2>5 DEF OnLevel
  <2>6. QED
    BY <2>4, <2>5
<1>3. QED
  BY <1>1, <1>2, HooksStep

LEMMA OnLevelIsFinite ==
    \A l : OnLevel(l) \subseteq Hooks /\ IsFiniteSet(OnLevel(l)) /\ Cardinality(OnLevel(l)) \in Nat
<1> SUFFICES ASSUME NEW l
             PROVE  OnLevel(l) \subseteq Hooks /\ IsFiniteSet(OnLevel(l)) /\ Cardinality(OnLevel(l)) \in Nat
  OBVIOUS
<1>1. OnLevel(l) \in SUBSET Hooks
  BY DEF OnLevel
<1>2. IsFiniteSet(OnLevel(l))
  BY <1>1, FiniteAssumption, FS_Subset
<1>3. QED
  BY <1>1, <1>2, FS_CardinalityType

\* A deletion that goes on, as a step can change it.
LEMMA DeletingStep ==
    ASSUME TypeOK, Next, NEW c \in Calls, call[c].at = "hooks"
    PROVE  \/ call'[c] = call[c]
           \/ DeleteWebhooksFor(c)
           \/ call[c].level \in orphaned'
<1> USE DEF tables, sender, history
<1>1. ASSUME NEW d \in Calls, NEW k, GoOn(d, k), d # c
      PROVE  call'[c] = call[c]
  BY <1>1 DEF GoOn, TypeOK
<1>2. \A k : ~Begin(c, k)
  BY DEF Begin, Idle
<1>3. ASSUME NEW d \in Calls, CallStep(d)
      PROVE  call'[c] = call[c] \/ DeleteWebhooksFor(c)
  <2>1. CASE d # c
    <3>1. \E k : GoOn(d, k)
      BY <1>3
         DEF CallStep, CreateWebhook, CountWebhooks, InsertWebhook, UpdateWebhook, StoreWebhook,
             DeleteLevel, DeleteWebhooksFor, Dispatch, MatchLevel, QueueWebhookDelivery,
             Begin, GoOn, Return
    <3>2. QED
      BY <1>1, <2>1, <3>1
  <2>2. CASE d = c
    BY <1>2, <1>3, <2>2
       DEF CallStep, CreateWebhook, CountWebhooks, InsertWebhook, UpdateWebhook, StoreWebhook,
           DeleteLevel, Dispatch, MatchLevel, QueueWebhookDelivery
  <2>3. QED
    BY <2>1, <2>2
<1>4. ASSUME NEW d \in Calls, BreakOff(d)
      PROVE  call'[c] = call[c] \/ call[c].level \in orphaned'
  BY <1>1, <1>4 DEF BreakOff, Return
<1>5. CASE UNCHANGED call
  BY <1>5
<1>6. ASSUME NEW s \in Senders, SenderStep(s) \/ SenderFault(s)
      PROVE  UNCHANGED call
  BY <1>6
     DEF SenderStep, SenderFault, Drain, Post, WebhookDelivered, WebhookFailed, DropExhausted, SwitchOff
<1>7. QED
  BY <1>3, <1>4, <1>5, <1>6 DEF Next, DeleteWebhook, WaitIsOver

\* A level that is gone has no webhooks, but while its deletion goes on, and
\* after one that broke off or that a new webhook slipped past.
THEOREM WebhooksNoOrphans == Spec => []NoOrphans
<1> DEFINE Inv == TypeOK /\ NoOrphans
<1>1. Init => Inv
  BY TypeInit DEF Init, NoOrphans
<1>2. Inv /\ [Next]_vars => Inv'
  <2> SUFFICES ASSUME Inv, [Next]_vars
               PROVE  NoOrphans'
    BY TypeStep
  <2> USE DEF tables, sender, history
  <2>1. CASE UNCHANGED vars
    BY <2>1 DEF vars, NoOrphans, OnLevel
  <2>2. ASSUME Next, NEW l \in Levels \ levels'
        PROVE  \/ OnLevel(l)' = {} \/ l \in orphaned'
               \/ \E c \in Calls : call'[c].at = "hooks" /\ call'[c].level = l
    <3>1. orphaned \subseteq orphaned'
      BY <2>2
         DEF Next, CallStep, BreakOff, SenderStep, SenderFault, CreateWebhook, CountWebhooks,
             InsertWebhook, UpdateWebhook, StoreWebhook, DeleteLevel, DeleteWebhooksFor, Dispatch,
             MatchLevel, QueueWebhookDelivery, DeleteWebhook, Drain, Post, WebhookDelivered,
             WebhookFailed, DropExhausted, SwitchOff, WaitIsOver
    <3>2. CASE l \in levels
      <4>1. PICK c \in Calls : DeleteLevel(c, l)
        BY <2>2, <3>2
           DEF Next, CallStep, BreakOff, SenderStep, SenderFault, CreateWebhook, CountWebhooks,
               InsertWebhook, UpdateWebhook, StoreWebhook, DeleteLevel, DeleteWebhooksFor, Dispatch,
               MatchLevel, QueueWebhookDelivery, DeleteWebhook, Drain, Post, WebhookDelivered,
               WebhookFailed, DropExhausted, SwitchOff, WaitIsOver
      <4>2. call'[c].at = "hooks" /\ call'[c].level = l
        BY <4>1 DEF DeleteLevel, Begin, TypeOK
      <4>3. QED
        BY <4>2
    <3>3. CASE l \notin levels
      <4>1. CASE l \in orphaned
        BY <3>1, <4>1
      <4>2. CASE OnLevel(l) = {}
        <5>1. CASE OnLevel(l)' \subseteq OnLevel(l)
          BY <4>2, <5>1
        <5>2. ASSUME NEW c \in Calls, NEW h \in Hooks, InsertWebhook(c, h), call[c].level = l
              PROVE  l \in orphaned'
          BY <3>3, <5>2 DEF InsertWebhook
        <5>3. QED
          BY <2>2, <5>1, <5>2, OnLevelStep
      <4>3. ASSUME NEW c \in Calls, call[c].at = "hooks", call[c].level = l
            PROVE  \/ OnLevel(l)' = {} \/ l \in orphaned'
                   \/ \E d \in Calls : call'[d].at = "hooks" /\ call'[d].level = l
        <5>1. CASE DeleteWebhooksFor(c)
          <6>1. \A h \in Hooks : hooks'[h] = IF h \in OnLevel(l) THEN NoHook ELSE hooks[h]
            BY <4>3, <5>1, TypeRemove DEF DeleteWebhooksFor
          <6>2. QED
            BY <6>1 DEF OnLevel
        <5>2. QED
          BY <2>2, <4>3, <5>1, DeletingStep
      <4>4. QED
        BY <3>3, <4>1, <4>2, <4>3 DEF NoOrphans
    <3>4. QED
      BY <3>2, <3>3
  <2>3. QED
    BY <2>1, <2>2 DEF NoOrphans
<1>3. QED
  BY <1>1, <1>2, PTL DEF Spec

----------------------------------------------------------------------------
(* The limit *)

\* A call that has counted the webhooks of a level and is to insert one.
Inserting(c, l) == call[c].at = "insert" /\ call[c].level = l

\* On a level that was never counted by two at once, one call at most is to
\* insert, and there is room for what it inserts.
LimitInv ==
    /\ TypeOK
    /\ \A l \in Levels \ raced :
          /\ Cardinality(OnLevel(l)) <= Limit
          /\ \A c \in Calls : Inserting(c, l) => Cardinality(OnLevel(l)) < Limit
          /\ \A c, d \in Calls : Inserting(c, l) /\ Inserting(d, l) => c = d

\* A call comes to insert by counting, and then alone or as one of a race.
LEMMA InsertingStep ==
    ASSUME TypeOK, Next, NEW l \in Levels, NEW c \in Calls, Inserting(c, l)'
    PROVE  \/ Inserting(c, l)
           \/ /\ CountWebhooks(c)
              /\ Cardinality(OnLevel(l)) < Limit /\ OnLevel(l)' = OnLevel(l)
              /\ \A d \in Calls \ {c} : ~Inserting(d, l)' \/ l \in raced'
<1> USE DEF tables, sender, history, Inserting
<1>1. CASE call'[c] = call[c]
  BY <1>1
<1>2. ASSUME NEW d \in Calls, NEW k, GoOn(d, k), d # c
      PROVE  call'[c] = call[c]
  BY <1>2 DEF GoOn, TypeOK
<1>3. ASSUME NEW d \in Calls, NEW k, Begin(d, k), d # c
      PROVE  call'[c] = call[c]
  BY <1>3 DEF Begin, TypeOK
<1>4. ASSUME NEW d \in Calls, CallStep(d) \/ BreakOff(d), d # c
      PROVE  call'[c] = call[c]
  BY <1>2, <1>3, <1>4
     DEF CallStep, BreakOff, CreateWebhook, CountWebhooks, InsertWebhook, UpdateWebhook,
         StoreWebhook, DeleteLevel, DeleteWebhooksFor, Dispatch, MatchLevel,
         QueueWebhookDelivery, Return
<1>5. ASSUME NEW k, GoOn(c, k) \/ Begin(c, k)
      PROVE  call'[c] = k
  BY <1>5 DEF GoOn, Begin, TypeOK
<1>6. ~BreakOff(c)
  BY <1>5 DEF BreakOff, Return, Idle
<1>7. ASSUME CallStep(c)
      PROVE  CountWebhooks(c)
  <2>1. \A k : GoOn(c, k) \/ Begin(c, k) => k.at = "insert"
    BY <1>5
  <2>2. ~Return(c)
    BY <2>1 DEF Return, Idle
  <2>3. ASSUME NEW x \in Levels, MatchLevel(c, x)
        PROVE  FALSE
    <3> DEFINE rest == call[c].under \ {x}
               next(found) == IF rest # {} THEN [call[c] EXCEPT !.under = rest, !.found = found]
                              ELSE IF found # {} THEN [at |-> "queue", found |-> found] ELSE Idle
    <3>1. PICK wanting : GoOn(c, next(call[c].found \cup wanting)) /\ call[c].at = "match"
      BY <2>3 DEF MatchLevel
    <3>2. \A found : [call[c] EXCEPT !.under = rest, !.found = found].at = "match"
      BY <3>1, CallShapes
    <3>3. \A found : next(found).at # "insert"
      BY <3>2 DEF Idle
    <3> HIDE DEF next
    <3>4. QED
      BY <2>1, <3>1, <3>3
  <2>4. ASSUME NEW h \in Hooks, NEW d \in Deliveries, QueueWebhookDelivery(c, h, d)
        PROVE  FALSE
    <3> DEFINE next == IF call[c].found \ {h} = {} THEN Idle
                       ELSE [call[c] EXCEPT !.found = call[c].found \ {h}]
    <3>1. call[c].at = "queue" /\ GoOn(c, next)
      BY <2>2, <2>4 DEF QueueWebhookDelivery
    <3>2. [call[c] EXCEPT !.found = call[c].found \ {h}].at = "queue"
      BY <3>1, CallShapes
    <3>3. next.at # "insert"
      BY <3>2 DEF Idle
    <3> HIDE DEF next
    <3>4. QED
      BY <2>1, <3>1, <3>3
  <2>5. \A x \in Levels : ~CreateWebhook(c, x) /\ ~DeleteLevel(c, x)
    BY <2>1 DEF CreateWebhook, DeleteLevel
  <2>6. \A h \in Hooks, active \in BOOLEAN : ~UpdateWebhook(c, h, active)
    BY <2>1 DEF UpdateWebhook
  <2>7. \A under \in SUBSET Levels : ~Dispatch(c, under)
    BY <2>1 DEF Dispatch
  <2>8. ~StoreWebhook(c) /\ ~DeleteWebhooksFor(c) /\ \A h \in Hooks : ~InsertWebhook(c, h)
    BY <2>2 DEF StoreWebhook, DeleteWebhooksFor, InsertWebhook
  <2>9. QED
    BY <1>7, <2>3, <2>4, <2>5, <2>6, <2>7, <2>8 DEF CallStep
<1>8. ASSUME CountWebhooks(c)
      PROVE  /\ Cardinality(OnLevel(l)) < Limit /\ OnLevel(l)' = OnLevel(l)
             /\ \A d \in Calls \ {c} : ~Inserting(d, l)' \/ l \in raced'
  <2>1. Cardinality(OnLevel(call[c].level)) < Limit
        /\ call'[c] = [call[c] EXCEPT !.at = "insert"]
    BY <1>5, <1>8 DEF CountWebhooks, Return, Idle
  <2>2. call[c] \in [at : {"count", "insert"}, level : Levels]
    BY <1>8, CallShapes DEF CountWebhooks
  <2>3. call[c].level = l
    BY <2>1, <2>2
  <2>4. OnLevel(l)' = OnLevel(l)
    BY <1>8 DEF CountWebhooks, OnLevel
  <2>5. ASSUME NEW d \in Calls \ {c}, Inserting(d, l)'
        PROVE  l \in raced'
    <3>1. call'[d] = call[d]
      BY <1>2, <1>8, <2>5 DEF CountWebhooks, Return, GoOn, TypeOK
    <3>2. raced' = raced \cup {x \in {call[c].level} : \E e \in Calls \ {c} :
                                   call[e].at = "insert" /\ call[e].level = x}
      BY <1>8, <2>1 DEF CountWebhooks
    <3>3. QED
      BY <2>3, <2>5, <3>1, <3>2
  <2>6. QED
    BY <2>1, <2>3, <2>4, <2>5
<1>9. ASSUME NEW s \in Senders, SenderStep(s) \/ SenderFault(s)
      PROVE  UNCHANGED call
  BY <1>9
     DEF SenderStep, SenderFault, Drain, Post, WebhookDelivered, WebhookFailed, DropExhausted, SwitchOff
<1>10. QED
  BY <1>1, <1>4, <1>6, <1>7, <1>8, <1>9 DEF Next, DeleteWebhook, WaitIsOver

\* A history only grows.
LEMMA RacedGrows == ASSUME Next PROVE raced \subseteq raced'
BY DEF Next, CallStep, BreakOff, SenderStep, SenderFault, CreateWebhook, CountWebhooks,
       InsertWebhook, UpdateWebhook, StoreWebhook, DeleteLevel, DeleteWebhooksFor, Dispatch,
       MatchLevel, QueueWebhookDelivery, DeleteWebhook, Drain, Post, WebhookDelivered,
       WebhookFailed, DropExhausted, SwitchOff, WaitIsOver, tables, sender, history

LEMMA LimitStep ==
    ASSUME LimitInv, Next, NEW l \in Levels \ raced'
    PROVE  /\ Cardinality(OnLevel(l)') <= Limit
           /\ \A c \in Calls : Inserting(c, l)' => Cardinality(OnLevel(l)') < Limit
           /\ \A c, d \in Calls : Inserting(c, l)' /\ Inserting(d, l)' => c = d
<1>1. TypeOK /\ l \in Levels \ raced
  BY RacedGrows DEF LimitInv
<1>2. /\ Cardinality(OnLevel(l)) <= Limit
      /\ \A c \in Calls : Inserting(c, l) => Cardinality(OnLevel(l)) < Limit
      /\ \A c, d \in Calls : Inserting(c, l) /\ Inserting(d, l) => c = d
  BY <1>1 DEF LimitInv
<1>3. IsFiniteSet(OnLevel(l)) /\ Cardinality(OnLevel(l)) \in Nat /\ Limit \in Nat
  BY OnLevelIsFinite, LimitsAssumption
<1>4. CASE OnLevel(l)' \subseteq OnLevel(l)
  <2>1. Cardinality(OnLevel(l)') \in Nat /\ Cardinality(OnLevel(l)') <= Cardinality(OnLevel(l))
    BY <1>3, <1>4, FS_Subset, FS_CardinalityType
  <2>2. \A c \in Calls : Inserting(c, l)' => Cardinality(OnLevel(l)) < Limit
    BY <1>1, <1>2, InsertingStep
  <2>3. \A c, d \in Calls : Inserting(c, l)' /\ Inserting(d, l)' => c = d
    BY <1>1, <1>2, InsertingStep
  <2>4. QED
    BY <1>2, <1>3, <2>1, <2>2, <2>3
<1>5. ASSUME NEW c \in Calls, NEW h \in Hooks, InsertWebhook(c, h), call[c].level = l,
             OnLevel(l)' = OnLevel(l) \cup {h}
      PROVE  /\ Cardinality(OnLevel(l)') <= Limit
             /\ \A d \in Calls : ~Inserting(d, l)'
  <2>1. Inserting(c, l) /\ call' = [call EXCEPT ![c] = Idle]
    BY <1>5 DEF InsertWebhook, Inserting, Return, GoOn
  <2>2. Cardinality(OnLevel(l)) < Limit /\ \A d \in Calls : Inserting(d, l) => d = c
    BY <1>2, <2>1
  <2>3. Cardinality(OnLevel(l) \cup {h}) \in Nat
        /\ Cardinality(OnLevel(l) \cup {h}) <= Cardinality(OnLevel(l)) + 1
    BY <1>3, FS_AddElement
  <2>4. \A d \in Calls : ~Inserting(d, l)'
    BY <1>1, <2>1, <2>2 DEF Inserting, Idle, TypeOK
  <2>5. QED
    BY <1>3, <1>5, <2>2, <2>3, <2>4
<1>6. QED
  BY <1>1, <1>4, <1>5, OnLevelStep

\* A level has more webhooks than the limit only after two calls counted them
\* at once.
THEOREM WebhooksLimit == Spec => []WithinLimitUnlessRaced
<1>1. Init => LimitInv
  <2> SUFFICES ASSUME Init
               PROVE  LimitInv
    OBVIOUS
  <2>1. \A l \in Levels : OnLevel(l) = {}
    BY DEF Init, OnLevel
  <2>2. \A c \in Calls, l \in Levels : ~Inserting(c, l)
    BY DEF Init, Inserting, Idle
  <2>3. QED
    BY <2>1, <2>2, TypeInit, FS_EmptySet, LimitsAssumption DEF LimitInv
<1>2. LimitInv /\ [Next]_vars => LimitInv'
  <2>1. CASE LimitInv /\ UNCHANGED vars
    BY <2>1, TypeStep DEF LimitInv, vars, tables, history, OnLevel, Inserting
  <2>2. CASE LimitInv /\ Next
    BY <2>2, TypeStep, LimitStep DEF LimitInv
  <2>3. QED
    BY <2>1, <2>2
<1>3. LimitInv => WithinLimitUnlessRaced
  BY DEF LimitInv, WithinLimitUnlessRaced
<1>4. QED
  BY <1>1, <1>2, <1>3, PTL DEF Spec
=============================================================================
