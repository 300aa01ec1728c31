----------------------------- MODULE AlertFeed -----------------------------
(***************************************************************************)
(* What the history feed of an alert rule promises its readers, with no    *)
(* sessions, workers or counts: a rule is quiet or breached, every change  *)
(* between the two is logged in the step that makes it, nothing else is    *)
(* logged, and deleting the rule takes its feed away.                      *)
(***************************************************************************)
EXTENDS Sequences

CONSTANT Rules

VARIABLES
    phase,  \* of each rule
    feed    \* logged statuses of each rule, oldest first

vars == <<phase, feed>>

Init ==
    /\ phase = [r \in Rules |-> "unborn"]
    /\ feed = [r \in Rules |-> <<>>]

Open(r) ==
    /\ phase[r] = "unborn"
    /\ phase' = [phase EXCEPT ![r] = "quiet"]
    /\ UNCHANGED feed

Raise(r) ==
    /\ phase[r] = "quiet"
    /\ phase' = [phase EXCEPT ![r] = "breached"]
    /\ feed' = [feed EXCEPT ![r] = Append(@, "triggered")]

Clear(r) ==
    /\ phase[r] = "breached"
    /\ phase' = [phase EXCEPT ![r] = "quiet"]
    /\ feed' = [feed EXCEPT ![r] = Append(@, "resolved")]

Close(r) ==
    /\ phase[r] \in {"quiet", "breached"}
    /\ phase' = [phase EXCEPT ![r] = "gone"]
    /\ feed' = [feed EXCEPT ![r] = <<>>]

Next == \E r \in Rules : Open(r) \/ Raise(r) \/ Clear(r) \/ Close(r)

Spec == Init /\ [][Next]_vars
=============================================================================
