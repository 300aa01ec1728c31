--------------------------- MODULE BatchDelivery ---------------------------
(***************************************************************************)
(* What the ingest pipeline promises of every message it queues: its batch *)
(* is stored whole, once, or not at all, and what has been settled either  *)
(* way is never taken up again.  Nobody promises that it is stored.        *)
(***************************************************************************)
CONSTANTS Message, Executions

VARIABLES
    sent,       \* messages that were queued
    settled,    \* messages that were stored or given up
    events      \* rows of the events table

vars == <<sent, settled, events>>

\* The rows that one execution of the insert task adds for a message.
Inserted(x, m) ==
    {[execution |-> x, message |-> m, organization_id |-> m.organization_id, row |-> e] :
        e \in m.events_data}

Init == sent = {} /\ settled = {} /\ events = {}

Send(m) ==
    /\ m \notin sent
    /\ sent' = sent \cup {m}
    /\ UNCHANGED <<settled, events>>

Settle(m) ==
    /\ m \in sent \ settled
    /\ settled' = settled \cup {m}
    /\ UNCHANGED sent

Store(m, x) == Settle(m) /\ events' = events \cup Inserted(x, m)

Lose(m) == Settle(m) /\ UNCHANGED events

Next ==
    \E m \in Message :
        \/ Send(m)
        \/ Lose(m)
        \/ \E x \in Executions : Store(m, x)

Spec == Init /\ [][Next]_vars
=============================================================================
