----------------------------- MODULE LiveStream -----------------------------
(***************************************************************************)
(* The live telemetry stream: ConnectionManager (app/core/websocket.py),   *)
(* the handler of /ws/events (endpoints/ws.py), and the broadcasts of the  *)
(* ingest requests (services/ingest.py).                                   *)
(*                                                                         *)
(* All of it runs on one asyncio event loop: an action is the code between *)
(* two awaits.  A broadcast iterates over the organization's list itself,  *)
(* not over a copy, and suspends in every send; handlers append to and     *)
(* remove from that list meanwhile.  A list that becomes empty is dropped  *)
(* from the dictionary, and the next connection starts another list, which *)
(* a suspended broadcast does not see.                                     *)
(***************************************************************************)
EXTENDS Integers, Sequences, FiniteSets, SequencesExt

CONSTANTS
    Orgs,       \* organizations
    Sockets,    \* WebSocket connections, each used once
    Casts       \* calls of broadcast_to_org

ASSUME StreamConstants == Orgs # {} /\ IsFiniteSet(Sockets)

VARIABLES
    active_connections, \* org -> list of sockets; its domain are the dict's keys
    lists,      \* how many lists each organization has had: the list's identity
    org,        \* organization in each socket's token
    socket,     \* where each socket's handler stands
    cast,       \* each broadcast in progress
    received    \* received[s][b]: how often s got the message of b

poolVars == <<active_connections, lists>>
vars == <<poolVars, org, socket, cast, received>>

\* "gone": the peer left, and the handler's receive_text has not noticed yet.
SocketState == {"new", "open", "gone", "closed"}

\* audience: whom the list held when the broadcast began; departures: removals
\* from that list since then (both history).
Cast == [phase: {"idle", "sending", "done"}, org: Orgs, list: Nat, index: Nat,
         target: SUBSET Sockets, audience: SUBSET Sockets, departures: Nat]

TypeOK ==
    /\ DOMAIN active_connections \subseteq Orgs
    /\ active_connections \in [DOMAIN active_connections -> Seq(Sockets)]
    /\ lists \in [Orgs -> Nat]
    /\ org \in [Sockets -> Orgs]
    /\ socket \in [Sockets -> SocketState]
    /\ cast \in [Casts -> Cast]
    /\ received \in [Sockets -> [Casts -> Nat]]

SomeOrg == CHOOSE o \in Orgs : TRUE

IdleCast == [phase |-> "idle", org |-> SomeOrg, list |-> 0, index |-> 0,
             target |-> {}, audience |-> {}, departures |-> 0]

Init ==
    /\ active_connections = [o \in {} |-> <<>>]
    /\ lists = [o \in Orgs |-> 0]
    /\ org = [s \in Sockets |-> SomeOrg]
    /\ socket = [s \in Sockets |-> "new"]
    /\ cast = [b \in Casts |-> IdleCast]
    /\ received = [s \in Sockets |-> [b \in Casts |-> 0]]

-----------------------------------------------------------------------------
(* The handler of /ws/events.                                              *)

\* The token is invalid or names no organization, or the peer left during the
\* handshake: nothing is registered.
Refuse(s) ==
    /\ socket[s] = "new"
    /\ socket' = [socket EXCEPT ![s] = "closed"]
    /\ UNCHANGED <<poolVars, org, cast, received>>

\* accept() has returned: append to the organization's list, a new one if the
\* dictionary has none.
connect(s, o) ==
    /\ socket[s] = "new"
    /\ socket' = [socket EXCEPT ![s] = "open"]
    /\ org' = [org EXCEPT ![s] = o]
    /\ IF o \in DOMAIN active_connections
       THEN /\ active_connections' = [active_connections EXCEPT ![o] = Append(@, s)]
            /\ UNCHANGED lists
       ELSE /\ active_connections' =
                  [p \in DOMAIN active_connections \cup {o} |->
                      IF p = o THEN <<s>> ELSE active_connections[p]]
            /\ lists' = [lists EXCEPT ![o] = @ + 1]
    /\ UNCHANGED <<cast, received>>

\* The browser closes the socket, or the network drops it.
PeerLeaves(s) ==
    /\ socket[s] = "open"
    /\ socket' = [socket EXCEPT ![s] = "gone"]
    /\ UNCHANGED <<poolVars, org, cast, received>>

\* Mutant: the last connection leaves an empty list behind.
PoolsKeepingEmpty(o, pool) == [active_connections EXCEPT ![o] = pool]

\* The dictionary once the list of o is "pool"; an empty list is deleted.
PoolsWith(o, pool) ==
    IF pool = <<>>
    THEN [p \in DOMAIN active_connections \ {o} |-> active_connections[p]]
    ELSE [active_connections EXCEPT ![o] = pool]

Without(pool, s) == RemoveFirst(pool, s)

\* receive_text raises, and the finally clause deregisters the socket.
disconnect(s) ==
    /\ socket[s] = "gone"
    /\ socket' = [socket EXCEPT ![s] = "closed"]
    /\ LET o == org[s] IN
        /\ active_connections' =
              IF o \in DOMAIN active_connections
              THEN PoolsWith(o, Without(active_connections[o], s))
              ELSE active_connections
        /\ cast' = [b \in Casts |->
              IF cast[b].phase = "sending" /\ cast[b].org = o /\ cast[b].list = lists[o]
              THEN [cast[b] EXCEPT !.departures = @ + 1]
              ELSE cast[b]]
    /\ UNCHANGED <<lists, org, received>>

-----------------------------------------------------------------------------
(* broadcast_to_org.                                                       *)

\* The list the iterator of a broadcast refers to: one that was dropped from
\* the dictionary is empty, and stays so.
IteratedList(c) ==
    IF c.org \in DOMAIN active_connections /\ lists[c.org] = c.list
    THEN active_connections[c.org]
    ELSE <<>>

\* Mutant: the iterator starts over when the list shrank below its position.
Restarting(c) ==
    IF c.index < Len(IteratedList(c))
    THEN [c EXCEPT !.index = @ + 1, !.target = {IteratedList(c)[c.index + 1]}]
    ELSE IF c.departures > 0 /\ IteratedList(c) # <<>>
         THEN [c EXCEPT !.index = 1, !.target = {IteratedList(c)[1]}]
         ELSE [c EXCEPT !.phase = "done", !.target = {}]

\* Mutant: the index advances twice.
SkippingOne(c) ==
    IF c.index < Len(IteratedList(c))
    THEN [c EXCEPT !.index = @ + 2, !.target = {IteratedList(c)[c.index + 1]}]
    ELSE [c EXCEPT !.phase = "done", !.target = {}]

\* Mutant: the loop ends only where its index equals the length.
MissingTheEnd(c) ==
    IF c.index < Len(IteratedList(c))
    THEN [c EXCEPT !.index = @ + 1, !.target = {IteratedList(c)[c.index + 1]}]
    ELSE [c EXCEPT !.phase = IF c.index = Len(IteratedList(c)) THEN "done" ELSE @,
                   !.target = {}]

\* Python's list iterator: yield the element at the index, if there is one.
NextConnection(c) ==
    IF c.index < Len(IteratedList(c))
    THEN [c EXCEPT !.index = @ + 1, !.target = {IteratedList(c)[c.index + 1]}]
    ELSE [c EXCEPT !.phase = "done", !.target = {}]

\* An ingest request broadcasts: nothing to do without connections, otherwise
\* the first send starts.
broadcast_to_org(b, o) ==
    /\ cast[b].phase = "idle"
    /\ cast' = [cast EXCEPT ![b] =
          IF o \in DOMAIN active_connections
          THEN NextConnection([IdleCast EXCEPT
                  !.phase = "sending", !.org = o, !.list = lists[o],
                  !.audience = ToSet(active_connections[o])])
          ELSE [IdleCast EXCEPT !.phase = "done", !.org = o]]
    /\ UNCHANGED <<poolVars, org, socket, received>>

\* The awaited send returns, or raises because the socket is dead: the loop
\* ignores the exception and goes on to the next connection.
FinishSend(b) ==
    /\ cast[b].phase = "sending"
    /\ received' = [s \in Sockets |->
          IF s \in cast[b].target /\ socket[s] = "open"
          THEN [received[s] EXCEPT ![b] = @ + 1]
          ELSE received[s]]
    /\ cast' = [cast EXCEPT ![b] = NextConnection(@)]
    /\ UNCHANGED <<poolVars, org, socket>>

-----------------------------------------------------------------------------
Next ==
    \/ \E s \in Sockets :
          \/ Refuse(s)
          \/ \E o \in Orgs : connect(s, o)
          \/ PeerLeaves(s)
          \/ disconnect(s)
    \/ \E b \in Casts, o \in Orgs : broadcast_to_org(b, o)
    \/ \E b \in Casts : FinishSend(b)

Spec == Init /\ [][Next]_vars

\* The event loop resumes every coroutine, and the server's WebSocket pings
\* close a connection that stops reading, so that no send and no receive_text
\* stays suspended for ever.
Fairness ==
    /\ \A s \in Sockets : WF_vars(disconnect(s))
    /\ \A b \in Casts : WF_vars(FinishSend(b))

FairSpec == Spec /\ Fairness

-----------------------------------------------------------------------------
(* Properties.                                                             *)

Registered(o) == {s \in Sockets : org[s] = o /\ socket[s] \in {"open", "gone"}}

\* The dictionary lists exactly the handlers in their receive loop, each once:
\* remove() never raises, no dead socket stays behind, and no organization
\* keeps an empty list.
RegistryMatchesHandlers ==
    \A o \in Orgs :
        /\ o \in DOMAIN active_connections <=> Registered(o) # {}
        /\ o \in DOMAIN active_connections =>
              /\ ToSet(active_connections[o]) = Registered(o)
              /\ Len(active_connections[o]) = Cardinality(Registered(o))

\* However the list shifts under the iteration, nobody gets a message twice.
AtMostOnce == \A s \in Sockets, b \in Casts : received[s][b] <= 1

\* Connections that were there when the broadcast began, are still there when
\* it has ended, and did not get the message.
Missed(b) == {s \in cast[b].audience : socket[s] = "open" /\ received[s][b] = 0}

\* Each departure during a broadcast costs at most one other connection the
\* message; an undisturbed broadcast reaches everybody.
OneMissPerDeparture ==
    \A b \in Casts :
        cast[b].phase = "done" => Cardinality(Missed(b)) <= cast[b].departures

\* The ingest request that broadcasts gets its answer out.
CastsEnd == \A b \in Casts : cast[b].phase = "sending" ~> cast[b].phase = "done"

-----------------------------------------------------------------------------
(* The inductive invariant.                                                *)

\* RegistryMatchesHandlers without counting: no socket is listed twice.
PoolsAreRegistries ==
    \A o \in Orgs :
        /\ o \in DOMAIN active_connections <=> Registered(o) # {}
        /\ o \in DOMAIN active_connections =>
              /\ ToSet(active_connections[o]) = Registered(o)
              /\ IsInjective(active_connections[o])

\* The connections that the iterator of a broadcast has yet to reach.
Ahead(b) ==
    LET pool == IteratedList(cast[b])
    IN  {pool[i] : i \in {i \in DOMAIN pool : i > cast[b].index}}

\* A broadcast refers to a list that exists or existed, and knows only
\* connections that had been accepted when it began.
CastsKnowThePast ==
    \A b \in Casts :
        /\ cast[b].list <= lists[cast[b].org]
        /\ \A s \in Sockets : socket[s] = "new" =>
              /\ s \notin cast[b].target \cup cast[b].audience
              /\ received[s][b] = 0

\* What a broadcast is sending to, and what its iterator has yet to reach, are
\* apart, and none of them has the message.
TargetsAreFresh ==
    \A b \in Casts :
        /\ cast[b].phase = "idle" => \A s \in Sockets : received[s][b] = 0
        /\ cast[b].phase = "sending" =>
              /\ cast[b].target \cap Ahead(b) = {}
              /\ \A s \in cast[b].target \cup Ahead(b) : received[s][b] = 0

\* The connections that the iteration has passed over: each was shifted below
\* the index by a departure.
Skipped(b) == Missed(b) \ (cast[b].target \cup Ahead(b))

SkipsAreCounted ==
    \A b \in Casts :
        cast[b].phase = "sending" => Cardinality(Skipped(b)) <= cast[b].departures

IInv ==
    /\ TypeOK
    /\ PoolsAreRegistries
    /\ CastsKnowThePast
    /\ TargetsAreFresh
    /\ AtMostOnce
    /\ SkipsAreCounted
    /\ OneMissPerDeparture

=============================================================================
