---------------------------- MODULE RateLimiter ----------------------------
(***************************************************************************)
(* is_rate_limited (app/api/deps.py): the sliding-window limiter of one    *)
(* API key.  A request takes its timestamp first and runs the Redis        *)
(* transaction later, so requests may run in another order than that of    *)
(* their timestamps.  The transaction prunes the sorted set, counts it,    *)
(* adds the request and renews the key's time to live, all atomically.     *)
(*                                                                         *)
(* The member of the set is the timestamp's text, so two requests with the *)
(* same timestamp are one member: the set is modelled as a set of stamps.  *)
(***************************************************************************)
EXTENDS Integers, FiniteSets

CONSTANTS
    Requests,   \* requests that carry the key
    Limit,      \* 100 in the code
    Window,     \* 60 seconds in the code
    FineClock,  \* TRUE: no two requests read the same timestamp
    MaxLag,     \* bound: clock units from the timestamp to the transaction
    MaxTime     \* bound: the clock stops here

ASSUME LimiterConstants ==
    /\ IsFiniteSet(Requests)
    /\ Limit \in Nat \ {0}
    /\ Window \in Nat \ {0}
    /\ FineClock \in BOOLEAN
    /\ MaxLag \in Nat
    /\ MaxTime \in Nat

VARIABLES
    clock,      \* wall clock of the server and of Redis
    zset,       \* members of rate_limit:<key id>
    expires,    \* when Redis drops the key
    stamp,      \* "now" of each request
    verdict,    \* where each request stands
    logged      \* requests whose transaction has run (history variable)

vars == <<clock, zset, expires, stamp, verdict, logged>>

Time == 0 .. MaxTime

\* "failed": the request ended in a 500 because Redis or the reply was lost.
Verdict == {"new", "pending", "admitted", "limited", "failed"}

TypeOK ==
    /\ clock \in Time
    /\ zset \subseteq Time
    /\ expires \in Nat
    /\ stamp \in [Requests -> Time]
    /\ verdict \in [Requests -> Verdict]
    /\ logged \subseteq Requests

Init ==
    /\ clock = 0
    /\ zset = {}
    /\ expires = 0
    /\ stamp = [q \in Requests |-> 0]
    /\ verdict = [q \in Requests |-> "new"]
    /\ logged = {}

-----------------------------------------------------------------------------
\* Time does not leave a pending request further behind than MaxLag.
AdvanceClock ==
    /\ clock < MaxTime
    /\ \A q \in Requests : verdict[q] = "pending" => clock - stamp[q] < MaxLag
    /\ clock' = clock + 1
    /\ UNCHANGED <<zset, expires, stamp, verdict, logged>>

\* The request reads its timestamp.
TakeTimestamp(q) ==
    /\ verdict[q] = "new"
    /\ FineClock => \A p \in Requests : verdict[p] # "new" => stamp[p] # clock
    /\ stamp' = [stamp EXCEPT ![q] = clock]
    /\ verdict' = [verdict EXCEPT ![q] = "pending"]
    /\ UNCHANGED <<clock, zset, expires, logged>>

\* The members Redis still holds: none once the key has expired.
Held == IF clock < expires THEN zset ELSE {}

\* Mutant: the set is never pruned.
KeepAll(q) == Held

\* ZREMRANGEBYSCORE 0 .. now - window, both ends inclusive.
Pruned(q) == {t \in Held : t > stamp[q] - Window}

\* Mutant: the request that fills the window is let through as well.
LimitExceeded(current_count) == current_count > Limit

IsLimited(current_count) == current_count >= Limit

\* What the transaction does to the key.
Transaction(q) ==
    /\ verdict[q] = "pending"
    /\ zset' = Pruned(q) \cup {stamp[q]}
    /\ expires' = clock + Window
    /\ logged' = logged \cup {q}
    /\ UNCHANGED <<clock, stamp>>

\* ZCARD comes before ZADD: a request does not count itself.
is_rate_limited(q) ==
    /\ Transaction(q)
    /\ verdict' = [verdict EXCEPT ![q] =
          IF IsLimited(Cardinality(Pruned(q))) THEN "limited" ELSE "admitted"]

\* The transaction ran but its reply was lost.  Depending on the installed
\* client (requirements.txt asks for redis>=5.0.3) the request ends in a 500
\* or the client runs the same transaction again, with the same timestamp.
LoseReply(q) ==
    /\ Transaction(q)
    /\ \E outcome \in {"failed", "pending"} : verdict' = [verdict EXCEPT ![q] = outcome]

\* Redis could not be reached: a 500, and nothing is recorded.
Unreachable(q) ==
    /\ verdict[q] = "pending"
    /\ verdict' = [verdict EXCEPT ![q] = "failed"]
    /\ UNCHANGED <<clock, zset, expires, stamp, logged>>

Next ==
    \/ AdvanceClock
    \/ \E q \in Requests :
          TakeTimestamp(q) \/ is_rate_limited(q) \/ LoseReply(q) \/ Unreachable(q)

Spec == Init /\ [][Next]_vars

-----------------------------------------------------------------------------
(* Properties.                                                             *)

\* Requests let through with a timestamp in the span of units that ends at t.
AdmittedWithin(span, t) ==
    {q \in Requests : verdict[q] = "admitted" /\ t - span < stamp[q] /\ stamp[q] <= t}

\* Any interval shorter than the window by the lag sees at most Limit requests
\* let through, although later transactions prune what earlier timestamps
\* still need, and the key may expire while a request is on its way.
AdmissionBound ==
    \A t \in Time : Cardinality(AdmittedWithin(Window - MaxLag, t)) <= Limit

\* Nobody is turned away on a quiet key: whoever is limited shares the window
\* that ends at its own timestamp, or a later one, with at least Limit
\* recorded timestamps.
LimitedOnlyUnderLoad ==
    \A q \in Requests : verdict[q] = "limited" =>
        Cardinality({stamp[p] : p \in {p \in logged : stamp[p] > stamp[q] - Window}}) >= Limit

-----------------------------------------------------------------------------
(* The inductive invariant behind AdmissionBound.                          *)

\* Timestamps are never in the future, and lag behind by at most MaxLag.
PendingAreRecent ==
    \A q \in Requests :
        /\ verdict[q] # "new" => stamp[q] <= clock
        /\ verdict[q] = "pending" => clock - MaxLag <= stamp[q]

\* Nothing younger than the window is ever pruned or lost to expiry.
YoungStampsAreHeld ==
    \A q \in logged :
        /\ verdict[q] # "new"
        /\ stamp[q] + Window <= expires
        /\ stamp[q] > clock - Window => stamp[q] \in zset

StampsDistinct ==
    \A p, q \in Requests :
        verdict[p] # "new" /\ verdict[q] # "new" /\ stamp[p] = stamp[q] => p = q

AdmittedAreLogged == \A q \in Requests : verdict[q] = "admitted" => q \in logged

IInv ==
    /\ TypeOK
    /\ PendingAreRecent
    /\ YoungStampsAreHeld
    /\ StampsDistinct
    /\ AdmittedAreLogged
    /\ AdmissionBound

=============================================================================
