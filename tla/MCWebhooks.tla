----------------------------- MODULE MCWebhooks -----------------------------
\* Small instances of Webhooks for TLC.
EXTENDS Webhooks

\* Bounds of the instance, none of them the code's
CONSTANTS
    MaxAtBegin,     \* what is under way when a call begins
    MaxWork         \* calls at work, rows in the queue and faults, together

Calling == Cardinality({c \in Calls : call[c] # Idle})
Waiting == Cardinality({d \in Deliveries : queue[d] # NoRow})
Sending == Cardinality({s \in Senders : held[s] # {} \/ job[s] # NoJob})

\* What it cuts off begins a call, queues a row or is a fault: no step that
\* Fairness asks for. A call that would begin later can have begun before, and
\* go on later.
BoundedWork ==
    /\ Calling' > Calling => Calling + Waiting + Sending <= MaxAtBegin
    /\ Calling' + Waiting' + faults' <= MaxWork
=============================================================================
