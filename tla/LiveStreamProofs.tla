-------------------------- MODULE LiveStreamProofs --------------------------
(***************************************************************************)
(* Proofs about LiveStream, for every number of connections, broadcasts    *)
(* and organizations: the registry stays exact, and a list that is edited  *)
(* under a suspended iteration serves nobody twice and costs at most one   *)
(* connection its message per departure.                                   *)
(***************************************************************************)
EXTENDS LiveStream, FiniteSetTheorems, SequenceTheorems, TLAPS

-----------------------------------------------------------------------------
(* Lists of connections.                                                   *)

\* The members of a list at the positions after n.
After(pool, n) == {pool[i] : i \in {i \in DOMAIN pool : i > n}}

\* Python's append.
LEMMA AppendedPool ==
  ASSUME NEW pool \in Seq(Sockets), NEW s \in Sockets, NEW n \in Nat
  PROVE  /\ ToSet(Append(pool, s)) = ToSet(pool) \cup {s}
         /\ IsInjective(pool) /\ s \notin ToSet(pool) => IsInjective(Append(pool, s))
         /\ After(Append(pool, s), n) \subseteq After(pool, n) \cup {s}
         /\ After(pool, n) \subseteq After(Append(pool, s), n)
<1> DEFINE longer == Append(pool, s)
<1>1. /\ DOMAIN pool = 1 .. Len(pool) /\ Len(pool) \in Nat
      /\ DOMAIN longer = 1 .. Len(pool) + 1
      /\ \A i \in DOMAIN pool : i \in DOMAIN longer /\ longer[i] = pool[i]
      /\ longer[Len(pool) + 1] = s
      /\ \A i \in DOMAIN longer : i \in DOMAIN pool \/ i = Len(pool) + 1
  OBVIOUS
<1> HIDE DEF longer
<1>2. ToSet(longer) = ToSet(pool) \cup {s}
  <2>1. Len(pool) + 1 \in DOMAIN longer
    BY <1>1
  <2> QED
    BY <1>1, <2>1 DEF ToSet
<1>3. IsInjective(pool) /\ s \notin ToSet(pool) => IsInjective(longer)
  BY <1>1 DEF IsInjective, ToSet
<1>4. After(longer, n) \subseteq After(pool, n) \cup {s}
  BY <1>1 DEF After
<1>5. After(pool, n) \subseteq After(longer, n)
  BY <1>1 DEF After
<1> QED
  BY <1>2, <1>3, <1>4, <1>5 DEF longer

\* Python's remove, on a list that holds the connection once.
LEMMA WithoutIsRemoval ==
  ASSUME NEW pool \in Seq(Sockets), IsInjective(pool), NEW k \in DOMAIN pool
  PROVE  Without(pool, pool[k]) = RemoveAt(pool, k)
<1> DEFINE found == {i \in 1 .. Len(pool) : pool[i] = pool[k]}
<1>1. DOMAIN pool = 1 .. Len(pool) /\ Len(pool) \in Nat
  OBVIOUS
<1>2. found = {k}
  BY <1>1 DEF IsInjective
<1>3. Min(found) = k
  <2>1. \A i \in {k} : (\A j \in {k} : i =< j) <=> i = k
    BY <1>1
  <2> QED
    BY <1>2, <2>1 DEF Min
<1>4. SelectInSeq(pool, LAMBDA v : v = pool[k]) = k
  BY <1>2, <1>3 DEF SelectInSeq
<1>5. \E i \in 1 .. Len(pool) : pool[i] = pool[k]
  BY <1>1
<1> QED
  BY <1>4, <1>5 DEF Without, RemoveFirst

LEMMA RemovedPool ==
  ASSUME NEW pool \in Seq(Sockets), IsInjective(pool), NEW k \in DOMAIN pool
  PROVE  LET rest == Without(pool, pool[k])
         IN  /\ rest \in Seq(Sockets)
             /\ Len(rest) = Len(pool) - 1
             /\ DOMAIN rest = 1 .. Len(pool) - 1
             /\ \A i \in DOMAIN rest : rest[i] = IF i < k THEN pool[i] ELSE pool[i + 1]
<1> DEFINE front == SubSeq(pool, 1, k - 1)
           back == SubSeq(pool, k + 1, Len(pool))
<1>1. DOMAIN pool = 1 .. Len(pool) /\ Len(pool) \in Nat /\ k \in 1 .. Len(pool)
  OBVIOUS
<1>2. /\ front \in Seq(Sockets) /\ Len(front) = k - 1
      /\ \A i \in 1 .. k - 1 : front[i] = pool[i]
  BY <1>1
<1>3. /\ back \in Seq(Sockets) /\ Len(back) = Len(pool) - k
      /\ \A i \in 1 .. Len(pool) - k : back[i] = pool[i + k]
  BY <1>1
<1>4. Without(pool, pool[k]) = front \o back
  BY WithoutIsRemoval DEF RemoveAt
<1> HIDE DEF front, back
<1>5. /\ front \o back \in Seq(Sockets)
      /\ Len(front \o back) = Len(pool) - 1
      /\ DOMAIN (front \o back) = 1 .. Len(pool) - 1
  <2>1. front \o back \in Seq(Sockets) /\ Len(front \o back) = Len(front) + Len(back)
    BY <1>2, <1>3, ConcatProperties
  <2>2. Len(front) + Len(back) = Len(pool) - 1
    BY <1>1, <1>2, <1>3
  <2>3. DOMAIN (front \o back) = 1 .. Len(front \o back)
    BY <2>1, LenProperties
  <2> QED
    BY <2>1, <2>2, <2>3
<1>6. ASSUME NEW i \in 1 .. Len(pool) - 1
      PROVE  (front \o back)[i] = IF i < k THEN pool[i] ELSE pool[i + 1]
  <2>1. (front \o back)[i] = IF i <= Len(front) THEN front[i] ELSE back[i - Len(front)]
    BY <1>1, <1>2, <1>3
  <2>2. CASE i < k
    BY <1>1, <1>2, <2>1, <2>2
  <2>3. CASE ~(i < k)
    <3>1. i - Len(front) \in 1 .. Len(pool) - k /\ (i - Len(front)) + k = i + 1
      BY <1>1, <1>2, <2>3
    <3>2. ~(i <= Len(front))
      BY <1>1, <1>2, <2>3
    <3>3. back[i - Len(front)] = pool[i + 1]
      BY <1>3, <3>1
    <3> QED
      BY <2>1, <2>3, <3>2, <3>3
  <2> QED
    BY <2>2, <2>3
<1> QED
  BY <1>4, <1>5, <1>6

\* What a departure leaves of a list, and of the part after a position: those
\* after it shift down, and one at most slips below.
LEMMA PoolAfterDeparture ==
  ASSUME NEW pool \in Seq(Sockets), IsInjective(pool), NEW s \in ToSet(pool), NEW n \in Nat
  PROVE  LET rest == Without(pool, s)
         IN  /\ rest \in Seq(Sockets)
             /\ IsInjective(rest)
             /\ ToSet(rest) = ToSet(pool) \ {s}
             /\ rest = <<>> <=> ToSet(rest) = {}
             /\ After(rest, n) \subseteq After(pool, n)
             /\ \E y : After(pool, n) \subseteq After(rest, n) \cup {s, y}
<1> DEFINE rest == Without(pool, s)
<1>1. PICK k \in DOMAIN pool : pool[k] = s
  BY DEF ToSet
<1>2. DOMAIN pool = 1 .. Len(pool) /\ Len(pool) \in Nat /\ k \in 1 .. Len(pool)
  OBVIOUS
<1>3. /\ rest \in Seq(Sockets)
      /\ Len(rest) = Len(pool) - 1
      /\ DOMAIN rest = 1 .. Len(pool) - 1
      /\ \A i \in DOMAIN rest : rest[i] = IF i < k THEN pool[i] ELSE pool[i + 1]
  BY <1>1, RemovedPool
<1> HIDE DEF rest
<1>4. IsInjective(rest)
  BY <1>2, <1>3 DEF IsInjective
<1>5. \A i \in DOMAIN rest : rest[i] # s
  BY <1>1, <1>2, <1>3 DEF IsInjective
<1>6. ASSUME NEW j \in DOMAIN pool, j # k
      PROVE  IF j < k THEN j \in DOMAIN rest /\ rest[j] = pool[j]
                      ELSE j - 1 \in DOMAIN rest /\ rest[j - 1] = pool[j]
  BY <1>2, <1>3, <1>6
<1>7. ToSet(rest) = ToSet(pool) \ {s}
  <2>1. ASSUME NEW i \in DOMAIN rest PROVE rest[i] \in ToSet(pool)
    <3>1. i \in DOMAIN pool /\ i + 1 \in DOMAIN pool
      BY <1>2, <1>3
    <3> QED
      BY <1>3, <3>1 DEF ToSet
  <2>2. ASSUME NEW j \in DOMAIN pool, pool[j] # s PROVE pool[j] \in ToSet(rest)
    BY <1>1, <1>6, <2>2 DEF ToSet
  <2> QED
    BY <1>5, <2>1, <2>2 DEF ToSet
<1>8. rest = <<>> <=> ToSet(rest) = {}
  <2>1. CASE rest = <<>>
    BY <2>1 DEF ToSet
  <2>2. CASE rest # <<>>
    <3>1. Len(rest) \in Nat \ {0}
      BY <1>3, <2>2, EmptySeq
    <3>2. 1 \in DOMAIN rest
      BY <1>3, <3>1
    <3>3. rest[1] \in ToSet(rest)
      BY <3>2 DEF ToSet
    <3> QED
      BY <2>2, <3>3
  <2> QED
    BY <2>1, <2>2
<1>9. ASSUME NEW i \in DOMAIN rest, i > n PROVE rest[i] \in After(pool, n)
  <2>1. i \in DOMAIN pool /\ i + 1 \in DOMAIN pool /\ i + 1 > n
    BY <1>2, <1>3, <1>9
  <2> QED
    BY <1>3, <1>9, <2>1 DEF After
<1>10. ASSUME NEW j \in DOMAIN pool, j > n
       PROVE  pool[j] \in After(rest, n) \cup {s, pool[n + 1]}
  <2>1. CASE j = k
    BY <1>1, <2>1
  <2>2. CASE j < k
    BY <1>6, <1>10, <2>2, <1>2 DEF After
  <2>3. CASE j > k /\ j = n + 1
    BY <2>3
  <2>4. CASE j > k /\ j # n + 1
    <3>1. j - 1 \in DOMAIN rest /\ rest[j - 1] = pool[j]
      BY <1>2, <1>6, <2>4
    <3>2. j - 1 > n
      BY <1>2, <1>10, <2>4
    <3> QED
      BY <3>1, <3>2 DEF After
  <2> QED
    BY <1>2, <2>1, <2>2, <2>3, <2>4
<1>11. After(rest, n) \subseteq After(pool, n)
  BY <1>9 DEF After
<1>12. After(pool, n) \subseteq After(rest, n) \cup {s, pool[n + 1]}
  BY <1>10 DEF After
<1> QED
  BY <1>3, <1>4, <1>7, <1>8, <1>11, <1>12 DEF rest

\* One step of Python's list iterator.
LEMMA AfterAdvance ==
  ASSUME NEW pool \in Seq(Sockets), IsInjective(pool), NEW n \in Nat, n < Len(pool)
  PROVE  /\ pool[n + 1] \in Sockets
         /\ After(pool, n) = After(pool, n + 1) \cup {pool[n + 1]}
         /\ pool[n + 1] \notin After(pool, n + 1)
<1>1. /\ DOMAIN pool = 1 .. Len(pool) /\ Len(pool) \in Nat
      /\ n + 1 \in DOMAIN pool
      /\ \A i \in DOMAIN pool : i > n <=> i > n + 1 \/ i = n + 1
  OBVIOUS
<1>2. After(pool, n) = After(pool, n + 1) \cup {pool[n + 1]}
  BY <1>1 DEF After
<1>3. pool[n + 1] \notin After(pool, n + 1)
  BY <1>1 DEF After, IsInjective
<1> QED
  BY <1>1, <1>2, <1>3

LEMMA AfterTheEnd ==
  ASSUME NEW pool \in Seq(Sockets), NEW n \in Nat, ~(n < Len(pool))
  PROVE  After(pool, n) = {}
BY DEF After

-----------------------------------------------------------------------------
(* The registry.                                                           *)

RegistryInv == TypeOK /\ PoolsAreRegistries

LEMMA SomeOrgType == SomeOrg \in Orgs
BY StreamConstants DEF SomeOrg

LEMMA IdleCastType == IdleCast \in Cast
BY SomeOrgType DEF IdleCast, Cast

\* An iterator refers to a list of distinct connections.
LEMMA IteratedListType ==
  ASSUME RegistryInv, NEW c \in Cast
  PROVE  IteratedList(c) \in Seq(Sockets) /\ IsInjective(IteratedList(c))
<1>1. CASE c.org \in DOMAIN active_connections /\ lists[c.org] = c.list
  BY <1>1 DEF RegistryInv, TypeOK, PoolsAreRegistries, IteratedList
<1>2. CASE ~(c.org \in DOMAIN active_connections /\ lists[c.org] = c.list)
  <2>1. IteratedList(c) = <<>>
    BY <1>2 DEF IteratedList
  <2> QED
    BY <2>1 DEF IsInjective
<1> QED
  BY <1>1, <1>2

\* What one step of the iterator does to a broadcast.
LEMMA NextConnectionFields ==
  ASSUME RegistryInv, NEW c \in Cast, c.phase = "sending"
  PROVE  LET d == NextConnection(c)
             pool == IteratedList(c)
         IN  /\ d \in Cast
             /\ d.org = c.org /\ d.list = c.list
             /\ d.audience = c.audience /\ d.departures = c.departures
             /\ c.index < Len(pool) =>
                   d.phase = "sending" /\ d.index = c.index + 1
                   /\ d.target = {pool[c.index + 1]}
             /\ ~(c.index < Len(pool)) =>
                   d.phase = "done" /\ d.index = c.index /\ d.target = {}
<1> DEFINE pool == IteratedList(c)
<1>1. pool \in Seq(Sockets) /\ IsInjective(pool) /\ c.index \in Nat
  BY IteratedListType DEF Cast
<1>2. c.index < Len(pool) => pool[c.index + 1] \in Sockets
  BY <1>1, AfterAdvance
<1> HIDE DEF pool
<1>3. CASE c.index < Len(pool)
  <2> DEFINE n == c.index + 1
             next == {pool[n]}
  <2>1. n \in Nat /\ next \in SUBSET Sockets
    BY <1>1, <1>2, <1>3
  <2>2. NextConnection(c) = [c EXCEPT !.index = n, !.target = next]
    BY <1>3 DEF NextConnection, pool
  <2> HIDE DEF n, next
  <2>3. /\ NextConnection(c) \in Cast
        /\ NextConnection(c).phase = "sending"
        /\ NextConnection(c).org = c.org /\ NextConnection(c).list = c.list
        /\ NextConnection(c).audience = c.audience
        /\ NextConnection(c).departures = c.departures
        /\ NextConnection(c).index = n /\ NextConnection(c).target = next
    BY <2>1, <2>2 DEF Cast
  <2> QED
    BY <1>3, <2>3 DEF n, next, pool
<1>4. CASE ~(c.index < Len(pool))
  <2>1. NextConnection(c) = [c EXCEPT !.phase = "done", !.target = {}]
    BY <1>4 DEF NextConnection, pool
  <2> QED
    BY <1>1, <1>4, <2>1 DEF Cast, pool
<1> QED
  BY <1>3, <1>4

\* What connect does to the dictionary.
LEMMA ConnectWrites ==
  ASSUME RegistryInv, NEW s \in Sockets, NEW o \in Orgs, connect(s, o)
  PROVE  /\ DOMAIN active_connections' = DOMAIN active_connections \cup {o}
         /\ active_connections' \in [DOMAIN active_connections' -> Seq(Sockets)]
         /\ active_connections'[o] = IF o \in DOMAIN active_connections
                                     THEN Append(active_connections[o], s) ELSE <<s>>
         /\ \A p \in DOMAIN active_connections \ {o} :
               active_connections'[p] = active_connections[p]
         /\ lists' = IF o \in DOMAIN active_connections THEN lists
                     ELSE [lists EXCEPT ![o] = @ + 1]
<1> USE DEF RegistryInv, TypeOK
<1>1. CASE o \in DOMAIN active_connections
  <2>1. active_connections' = [active_connections EXCEPT ![o] = Append(@, s)]
    BY <1>1 DEF connect
  <2>2. Append(active_connections[o], s) \in Seq(Sockets)
    BY <1>1
  <2> QED
    BY <1>1, <2>1, <2>2 DEF connect
<1>2. CASE o \notin DOMAIN active_connections
  <2>1. active_connections' = [p \in DOMAIN active_connections \cup {o} |->
                                  IF p = o THEN <<s>> ELSE active_connections[p]]
    BY <1>2 DEF connect
  <2> DEFINE single == <<s>>
  <2>2. single \in Seq(Sockets)
    OBVIOUS
  <2>3. lists' = [lists EXCEPT ![o] = @ + 1]
    BY <1>2 DEF connect
  <2> HIDE DEF single
  <2>4. active_connections' = [p \in DOMAIN active_connections \cup {o} |->
                                  IF p = o THEN single ELSE active_connections[p]]
    BY <2>1 DEF single
  <2>5. /\ DOMAIN active_connections' = DOMAIN active_connections \cup {o}
        /\ active_connections' \in [DOMAIN active_connections' -> Seq(Sockets)]
        /\ active_connections'[o] = single
        /\ \A p \in DOMAIN active_connections \ {o} :
              active_connections'[p] = active_connections[p]
    BY <1>2, <2>2, <2>4
  <2> QED
    BY <1>2, <2>3, <2>5 DEF single
<1> QED
  BY <1>1, <1>2

\* What disconnect does to the dictionary.
LEMMA DisconnectWrites ==
  ASSUME RegistryInv, NEW s \in Sockets, disconnect(s)
  PROVE  LET o == org[s]
             rest == Without(active_connections[o], s)
         IN  /\ o \in Orgs /\ o \in DOMAIN active_connections
             /\ active_connections[o] \in Seq(Sockets)
             /\ IsInjective(active_connections[o])
             /\ s \in ToSet(active_connections[o])
             /\ DOMAIN active_connections' = IF rest = <<>> THEN DOMAIN active_connections \ {o}
                                             ELSE DOMAIN active_connections
             /\ active_connections' \in [DOMAIN active_connections' -> Seq(Sockets)]
             /\ rest # <<>> => active_connections'[o] = rest
             /\ \A p \in DOMAIN active_connections \ {o} :
                   active_connections'[p] = active_connections[p]
<1> USE DEF RegistryInv, TypeOK
<1> DEFINE o == org[s]
           rest == Without(active_connections[o], s)
<1>1. o \in Orgs /\ s \in Registered(o)
  BY DEF disconnect, Registered
<1>2. o \in DOMAIN active_connections /\ s \in ToSet(active_connections[o])
      /\ IsInjective(active_connections[o])
  BY <1>1 DEF PoolsAreRegistries
<1>3. active_connections[o] \in Seq(Sockets)
  BY <1>2
<1>4. rest \in Seq(Sockets)
  BY <1>2, <1>3, PoolAfterDeparture
<1>5. active_connections' = IF rest = <<>>
                            THEN [p \in DOMAIN active_connections \ {o} |-> active_connections[p]]
                            ELSE [active_connections EXCEPT ![o] = rest]
  BY <1>2 DEF disconnect, PoolsWith
<1> HIDE DEF o, rest
<1>6. CASE rest = <<>>
  <2>1. active_connections' = [p \in DOMAIN active_connections \ {o} |-> active_connections[p]]
    BY <1>5, <1>6
  <2> QED
    BY <1>1, <1>2, <1>3, <1>6, <2>1 DEF o, rest
<1>7. CASE rest # <<>>
  <2>1. active_connections' = [active_connections EXCEPT ![o] = rest]
    BY <1>5, <1>7
  <2> QED
    BY <1>1, <1>2, <1>3, <1>4, <1>7, <2>1 DEF o, rest
<1> QED
  BY <1>6, <1>7

\* A broadcast at the head of its loop.
Started(o) ==
    [IdleCast EXCEPT !.phase = "sending", !.org = o, !.list = lists[o],
                     !.audience = ToSet(active_connections[o])]

LEMMA StartedFields ==
  ASSUME RegistryInv, NEW o \in DOMAIN active_connections
  PROVE  /\ Started(o) \in Cast
         /\ Started(o).phase = "sending" /\ Started(o).index = 0
         /\ Started(o).org = o /\ Started(o).list = lists[o]
         /\ Started(o).audience = ToSet(active_connections[o])
         /\ Started(o).departures = 0
         /\ IteratedList(Started(o)) = active_connections[o]
         /\ 0 < Len(active_connections[o])
<1> USE DEF RegistryInv, TypeOK
<1> DEFINE pool == active_connections[o]
           members == ToSet(pool)
<1>1. o \in Orgs /\ lists[o] \in Nat /\ pool \in Seq(Sockets)
  OBVIOUS
<1>2. members \in SUBSET Sockets
  BY <1>1 DEF ToSet
<1>3. members # {}
  BY <1>1 DEF PoolsAreRegistries
<1>4. 0 < Len(pool)
  <2>1. pool # <<>>
    BY <1>3 DEF ToSet
  <2> QED
    BY <1>1, <2>1, EmptySeq
<1>5. Started(o) = [IdleCast EXCEPT !.phase = "sending", !.org = o, !.list = lists[o],
                                    !.audience = members]
  BY DEF Started
<1> HIDE DEF members
<1>6. /\ Started(o) \in Cast
      /\ Started(o).phase = "sending" /\ Started(o).index = 0
      /\ Started(o).org = o /\ Started(o).list = lists[o]
      /\ Started(o).audience = members
      /\ Started(o).departures = 0
  <2>1. IdleCast \in Cast /\ IdleCast.index = 0 /\ IdleCast.departures = 0
    BY IdleCastType DEF IdleCast
  <2> DEFINE list == lists[o]
  <2>2. list \in Nat
    BY <1>1
  <2>3. Started(o) = [IdleCast EXCEPT !.phase = "sending", !.org = o, !.list = list,
                                      !.audience = members]
    BY <1>5
  <2> HIDE DEF list
  <2>4. /\ Started(o) \in Cast
        /\ Started(o).phase = "sending" /\ Started(o).index = 0
        /\ Started(o).org = o /\ Started(o).list = list
        /\ Started(o).audience = members
        /\ Started(o).departures = 0
    BY <1>1, <1>2, <2>1, <2>2, <2>3 DEF Cast
  <2> QED
    BY <2>4 DEF list
<1>7. IteratedList(Started(o)) = pool
  BY <1>6 DEF IteratedList
<1> QED
  BY <1>4, <1>6, <1>7 DEF members

LEMMA EmptyBroadcastFields ==
  ASSUME NEW o \in Orgs
  PROVE  LET c == [IdleCast EXCEPT !.phase = "done", !.org = o]
         IN  /\ c \in Cast
             /\ c.phase = "done" /\ c.org = o /\ c.list = 0
             /\ c.target = {} /\ c.audience = {} /\ c.departures = 0
BY SomeOrgType DEF IdleCast, Cast

\* A departure touches nothing of a broadcast but its count.
LEMMA DepartureFields ==
  ASSUME NEW c \in Cast
  PROVE  LET d == [c EXCEPT !.departures = @ + 1]
         IN  /\ d \in Cast
             /\ d.phase = c.phase /\ d.org = c.org /\ d.list = c.list /\ d.index = c.index
             /\ d.target = c.target /\ d.audience = c.audience
             /\ d.departures = c.departures + 1
BY DEF Cast

LEMMA RegistryInit == Init => RegistryInv
<1> SUFFICES ASSUME Init PROVE RegistryInv
  OBVIOUS
<1>1. DOMAIN active_connections = {} /\ active_connections \in [{} -> Seq(Sockets)]
  BY DEF Init
<1>2. TypeOK
  BY <1>1, SomeOrgType, IdleCastType DEF Init, TypeOK, SocketState
<1>3. PoolsAreRegistries
  BY <1>1 DEF Init, PoolsAreRegistries, Registered
<1> QED
  BY <1>2, <1>3 DEF RegistryInv

\* Steps that leave the dictionary and the set of registered handlers alone.
LEMMA RegistryFrame ==
  ASSUME PoolsAreRegistries, UNCHANGED <<poolVars, org>>,
         \A s \in Sockets : socket'[s] \in {"open", "gone"} <=> socket[s] \in {"open", "gone"}
  PROVE  PoolsAreRegistries'
<1>1. \A o \in Orgs : Registered(o)' = Registered(o)
  BY DEF Registered
<1> QED
  BY <1>1 DEF PoolsAreRegistries, poolVars

LEMMA ConnectKeepsRegistry ==
  ASSUME RegistryInv, NEW s \in Sockets, NEW o \in Orgs, connect(s, o)
  PROVE  RegistryInv'
<1> USE DEF RegistryInv
<1>1. TypeOK'
  <2>1. socket' \in [Sockets -> SocketState] /\ org' \in [Sockets -> Orgs]
    BY DEF connect, TypeOK, SocketState
  <2>2. lists' \in [Orgs -> Nat]
    <3>1. lists' = lists \/ lists' = [lists EXCEPT ![o] = @ + 1]
      BY ConnectWrites
    <3>2. lists[o] + 1 \in Nat
      BY DEF TypeOK
    <3> QED
      BY <3>1, <3>2 DEF TypeOK
  <2>3. DOMAIN active_connections' \subseteq Orgs
        /\ active_connections' \in [DOMAIN active_connections' -> Seq(Sockets)]
    BY ConnectWrites DEF TypeOK
  <2> QED
    BY <2>1, <2>2, <2>3 DEF connect, TypeOK
<1>2. /\ socket[s] = "new"
      /\ Registered(o)' = Registered(o) \cup {s}
      /\ \A p \in Orgs : s \notin Registered(p)
      /\ \A p \in Orgs \ {o} : Registered(p)' = Registered(p)
  BY DEF connect, Registered, TypeOK
<1>3. ASSUME NEW p \in Orgs
      PROVE  /\ p \in DOMAIN active_connections' <=> Registered(p)' # {}
             /\ p \in DOMAIN active_connections' =>
                   /\ ToSet(active_connections'[p]) = Registered(p)'
                   /\ IsInjective(active_connections'[p])
  <2>1. CASE p # o
    BY <1>2, <2>1, ConnectWrites DEF PoolsAreRegistries
  <2>2. CASE p = o /\ o \in DOMAIN active_connections
    <3>1. /\ ToSet(Append(active_connections[o], s)) = Registered(o) \cup {s}
          /\ IsInjective(Append(active_connections[o], s))
      <4>1. active_connections[o] \in Seq(Sockets)
        BY <2>2 DEF TypeOK
      <4>2. /\ ToSet(active_connections[o]) = Registered(o)
            /\ IsInjective(active_connections[o])
        BY <2>2 DEF PoolsAreRegistries
      <4> QED
        BY <1>2, <4>1, <4>2, AppendedPool, 0 \in Nat
    <3> QED
      BY <1>2, <2>2, <3>1, ConnectWrites
  <2>3. CASE p = o /\ o \notin DOMAIN active_connections
    <3>1. ToSet(<<s>>) = {s} /\ IsInjective(<<s>>)
      BY DEF ToSet, IsInjective
    <3>2. Registered(o) = {}
      BY <2>3 DEF PoolsAreRegistries
    <3> QED
      BY <1>2, <2>3, <3>1, <3>2, ConnectWrites
  <2> QED
    BY <2>1, <2>2, <2>3
<1> QED
  BY <1>1, <1>3 DEF PoolsAreRegistries

LEMMA DisconnectKeepsRegistry ==
  ASSUME RegistryInv, NEW s \in Sockets, disconnect(s)
  PROVE  RegistryInv'
<1> USE DEF RegistryInv
<1> DEFINE o == org[s]
           rest == Without(active_connections[o], s)
<1>1. TypeOK'
  <2>1. socket' \in [Sockets -> SocketState] /\ UNCHANGED <<lists, org, received>>
    BY DEF disconnect, TypeOK, SocketState
  <2>2. DOMAIN active_connections' \subseteq Orgs
        /\ active_connections' \in [DOMAIN active_connections' -> Seq(Sockets)]
    BY DisconnectWrites DEF TypeOK
  <2>3. ASSUME NEW b \in Casts PROVE cast[b] \in Cast /\ [cast[b] EXCEPT !.departures = @ + 1] \in Cast
    BY DepartureFields DEF TypeOK
  <2>4. cast' \in [Casts -> Cast]
    BY <2>3 DEF disconnect
  <2> QED
    BY <2>1, <2>2, <2>4 DEF TypeOK
<1>2. \A p \in Orgs : Registered(p)' = IF p = o THEN Registered(p) \ {s} ELSE Registered(p)
  BY DEF disconnect, Registered, TypeOK
<1>3. /\ rest \in Seq(Sockets) /\ IsInjective(rest)
      /\ ToSet(rest) = Registered(o) \ {s}
      /\ rest = <<>> <=> ToSet(rest) = {}
  <2>1. /\ active_connections[o] \in Seq(Sockets) /\ IsInjective(active_connections[o])
        /\ s \in ToSet(active_connections[o])
        /\ o \in Orgs /\ o \in DOMAIN active_connections
    BY DisconnectWrites
  <2>2. ToSet(active_connections[o]) = Registered(o)
    BY <2>1 DEF PoolsAreRegistries
  <2> DEFINE pool == active_connections[o]
  <2> HIDE DEF pool
  <2>3. /\ Without(pool, s) \in Seq(Sockets) /\ IsInjective(Without(pool, s))
        /\ ToSet(Without(pool, s)) = ToSet(pool) \ {s}
        /\ Without(pool, s) = <<>> <=> ToSet(Without(pool, s)) = {}
    BY <2>1, PoolAfterDeparture, 0 \in Nat DEF pool
  <2> QED
    BY <2>2, <2>3 DEF pool
<1> HIDE DEF o, rest
<1>4. /\ DOMAIN active_connections' = IF rest = <<>> THEN DOMAIN active_connections \ {o}
                                      ELSE DOMAIN active_connections
      /\ rest # <<>> => active_connections'[o] = rest
      /\ o \in Orgs /\ o \in DOMAIN active_connections
      /\ \A p \in DOMAIN active_connections \ {o} :
            active_connections'[p] = active_connections[p]
  BY DisconnectWrites DEF o, rest
<1>5. ASSUME NEW p \in Orgs
      PROVE  /\ p \in DOMAIN active_connections' <=> Registered(p)' # {}
             /\ p \in DOMAIN active_connections' =>
                   /\ ToSet(active_connections'[p]) = Registered(p)'
                   /\ IsInjective(active_connections'[p])
  <2>1. CASE p # o
    BY <1>2, <1>4, <2>1 DEF PoolsAreRegistries
  <2>2. CASE p = o /\ rest = <<>>
    BY <1>2, <1>3, <1>4, <2>2
  <2>3. CASE p = o /\ rest # <<>>
    BY <1>2, <1>3, <1>4, <2>3
  <2> QED
    BY <2>1, <2>2, <2>3
<1>6. PoolsAreRegistries'
  BY <1>5 DEF PoolsAreRegistries
<1> QED
  BY <1>1, <1>6

\* The first connection of a broadcast, or its immediate end.
LEMMA BroadcastWrites ==
  ASSUME RegistryInv, NEW b \in Casts, NEW o \in Orgs, broadcast_to_org(b, o)
  PROVE  /\ cast[b].phase = "idle"
         /\ UNCHANGED <<poolVars, org, socket, received>>
         /\ \A a \in Casts \ {b} : cast'[a] = cast[a]
         /\ cast'[b] = IF o \in DOMAIN active_connections THEN NextConnection(Started(o))
                       ELSE [IdleCast EXCEPT !.phase = "done", !.org = o]
         /\ cast' \in [Casts -> Cast]
<1> DEFINE c == IF o \in DOMAIN active_connections THEN NextConnection(Started(o))
                ELSE [IdleCast EXCEPT !.phase = "done", !.org = o]
<1>1. cast' = [cast EXCEPT ![b] = c]
  BY DEF broadcast_to_org, Started
<1>2. c \in Cast
  <2>1. CASE o \in DOMAIN active_connections
    BY <2>1, StartedFields, NextConnectionFields
  <2>2. CASE o \notin DOMAIN active_connections
    BY <2>2, EmptyBroadcastFields
  <2> QED
    BY <2>1, <2>2
<1> HIDE DEF c
<1>3. cast'[b] = c /\ (\A a \in Casts \ {b} : cast'[a] = cast[a]) /\ cast' \in [Casts -> Cast]
  BY <1>1, <1>2 DEF RegistryInv, TypeOK
<1> QED
  BY <1>3 DEF c, broadcast_to_org

LEMMA FinishSendWrites ==
  ASSUME RegistryInv, NEW b \in Casts, FinishSend(b)
  PROVE  /\ cast[b].phase = "sending"
         /\ UNCHANGED <<poolVars, org, socket>>
         /\ \A a \in Casts \ {b} : cast'[a] = cast[a]
         /\ cast'[b] = NextConnection(cast[b])
         /\ cast' \in [Casts -> Cast]
         /\ received' \in [Sockets -> [Casts -> Nat]]
         /\ \A s \in Sockets : \A a \in Casts \ {b} : received'[s][a] = received[s][a]
         /\ \A s \in Sockets : received'[s][b] =
               IF s \in cast[b].target /\ socket[s] = "open" THEN received[s][b] + 1
               ELSE received[s][b]
<1> USE DEF RegistryInv, TypeOK
<1>1. NextConnection(cast[b]) \in Cast
  BY NextConnectionFields DEF FinishSend
<1>2. ASSUME NEW s \in Sockets
      PROVE  /\ received'[s] \in [Casts -> Nat]
             /\ \A a \in Casts \ {b} : received'[s][a] = received[s][a]
             /\ received'[s][b] =
                   IF s \in cast[b].target /\ socket[s] = "open" THEN received[s][b] + 1
                   ELSE received[s][b]
  BY DEF FinishSend
<1>3. cast'[b] = NextConnection(cast[b]) /\ cast' \in [Casts -> Cast]
      /\ \A a \in Casts \ {b} : cast'[a] = cast[a]
  BY <1>1 DEF FinishSend
<1>4. received' \in [Sockets -> [Casts -> Nat]]
  BY <1>2 DEF FinishSend
<1> QED
  BY <1>2, <1>3, <1>4 DEF FinishSend

LEMMA RegistryStep == RegistryInv /\ [Next]_vars => RegistryInv'
<1> SUFFICES ASSUME RegistryInv, [Next]_vars PROVE RegistryInv'
  OBVIOUS
<1>1. ASSUME NEW s \in Sockets, Refuse(s) \/ PeerLeaves(s) PROVE RegistryInv'
  <2>1. TypeOK'
    BY <1>1 DEF RegistryInv, TypeOK, Refuse, PeerLeaves, SocketState, poolVars
  <2>2. PoolsAreRegistries'
    BY <1>1, RegistryFrame DEF RegistryInv, TypeOK, Refuse, PeerLeaves
  <2> QED
    BY <2>1, <2>2 DEF RegistryInv
<1>2. ASSUME NEW b \in Casts, NEW o \in Orgs, broadcast_to_org(b, o) PROVE RegistryInv'
  <2>1. TypeOK'
    BY <1>2, BroadcastWrites DEF RegistryInv, TypeOK, poolVars
  <2>2. PoolsAreRegistries'
    BY <1>2, RegistryFrame DEF RegistryInv, broadcast_to_org
  <2> QED
    BY <2>1, <2>2 DEF RegistryInv
<1>3. ASSUME NEW b \in Casts, FinishSend(b) PROVE RegistryInv'
  <2>1. TypeOK'
    BY <1>3, FinishSendWrites DEF RegistryInv, TypeOK, poolVars
  <2>2. PoolsAreRegistries'
    BY <1>3, RegistryFrame DEF RegistryInv, FinishSend
  <2> QED
    BY <2>1, <2>2 DEF RegistryInv
<1>4. CASE UNCHANGED vars
  <2>1. TypeOK'
    BY <1>4 DEF RegistryInv, TypeOK, vars, poolVars
  <2>2. PoolsAreRegistries'
    BY <1>4, RegistryFrame DEF RegistryInv, vars
  <2> QED
    BY <2>1, <2>2 DEF RegistryInv
<1> QED
  BY <1>1, <1>2, <1>3, <1>4, ConnectKeepsRegistry, DisconnectKeepsRegistry DEF Next

\* A list without repetition is as long as the set of its members.
LEMMA PoolLength ==
  ASSUME NEW pool \in Seq(Sockets), IsInjective(pool)
  PROVE  Len(pool) = Cardinality(ToSet(pool))
<1>1. Len(pool) \in Nat /\ DOMAIN pool = 1 .. Len(pool)
  OBVIOUS
<1>2. pool \in Bijection(1 .. Len(pool), ToSet(pool))
  <2>1. pool \in [1 .. Len(pool) -> ToSet(pool)]
    BY <1>1 DEF ToSet
  <2>2. \A x \in ToSet(pool) : \E i \in 1 .. Len(pool) : pool[i] = x
    BY <1>1 DEF ToSet
  <2> QED
    BY <1>1, <2>1, <2>2 DEF Bijection, Injection, Surjection, IsInjective
<1>3. IsFiniteSet(1 .. Len(pool)) /\ Cardinality(1 .. Len(pool)) = Len(pool)
  BY <1>1, FS_Interval
<1>4. ExistsBijection(1 .. Len(pool), ToSet(pool))
  BY <1>2 DEF ExistsBijection
<1> QED
  BY <1>3, <1>4, FS_Bijection

\* Every behaviour is well typed: the iterators' positions, the delivery counts
\* and the connection lists stay what the code takes them for.
THEOREM TypeCorrect == Spec => []TypeOK
<1>1. RegistryInv => TypeOK
  BY DEF RegistryInv
<1> QED
  BY <1>1, RegistryInit, RegistryStep, PTL DEF Spec

\* The dictionary lists exactly the handlers in their receive loop, each once,
\* so that remove() never raises and no dead socket or empty list stays behind.
THEOREM RegistryIsExact == Spec => []RegistryMatchesHandlers
<1>1. RegistryInv => RegistryMatchesHandlers
  BY PoolLength DEF RegistryInv, TypeOK, PoolsAreRegistries, RegistryMatchesHandlers
<1> QED
  BY <1>1, RegistryInit, RegistryStep, PTL DEF Spec

-----------------------------------------------------------------------------
(* How the steps move the part of a list that a broadcast has yet to reach. *)

Remaining(c) == After(IteratedList(c), c.index)

LEMMA AheadIsRemaining ==
  /\ \A b : Ahead(b) = Remaining(cast[b])
  /\ UNCHANGED poolVars => \A b : Ahead(b)' = Remaining(cast'[b])
  /\ \A b : Ahead(b)' = After(IF /\ cast'[b].org \in DOMAIN active_connections'
                                 /\ lists'[cast'[b].org] = cast'[b].list
                              THEN active_connections'[cast'[b].org] ELSE <<>>,
                              cast'[b].index)
BY DEF Ahead, After, Remaining, IteratedList, poolVars

LEMMA EmptyList == \A n : After(<<>>, n) = {}
BY DEF After

\* Whoever is yet to be reached is registered now.
LEMMA RemainingAreRegistered ==
  ASSUME RegistryInv, NEW c \in Cast, NEW s \in Remaining(c)
  PROVE  s \in Sockets /\ socket[s] \in {"open", "gone"}
<1>1. c.org \in DOMAIN active_connections /\ IteratedList(c) = active_connections[c.org]
  BY EmptyList DEF Remaining, IteratedList
<1>2. c.org \in Orgs /\ s \in ToSet(active_connections[c.org])
  BY <1>1 DEF Remaining, After, ToSet, Cast
<1>3. s \in Registered(c.org)
  BY <1>1, <1>2 DEF RegistryInv, PoolsAreRegistries
<1> QED
  BY <1>3 DEF Registered

\* The iterator takes its next target out of what it has yet to reach.
LEMMA AdvanceMoves ==
  ASSUME RegistryInv, NEW c \in Cast, c.phase = "sending"
  PROVE  LET d == NextConnection(c)
         IN  /\ d.target \cup Remaining(d) = Remaining(c)
             /\ d.target \cap Remaining(d) = {}
             /\ d.phase = "sending" \/ (d.phase = "done" /\ Remaining(c) = {})
<1> DEFINE d == NextConnection(c)
           pool == IteratedList(c)
           n == c.index
<1>1. pool \in Seq(Sockets) /\ IsInjective(pool) /\ n \in Nat
  BY IteratedListType DEF Cast
<1>2. /\ d.org = c.org /\ d.list = c.list
      /\ n < Len(pool) => d.phase = "sending" /\ d.index = n + 1 /\ d.target = {pool[n + 1]}
      /\ ~(n < Len(pool)) => d.phase = "done" /\ d.index = n /\ d.target = {}
  BY NextConnectionFields
<1>3. IteratedList(d) = pool
  BY <1>2 DEF IteratedList
<1>4. Remaining(c) = After(pool, n) /\ Remaining(d) = After(pool, d.index)
  BY <1>3 DEF Remaining
<1> HIDE DEF d, pool, n
<1>5. CASE n < Len(pool)
  BY <1>1, <1>2, <1>4, <1>5, AfterAdvance DEF d
<1>6. CASE ~(n < Len(pool))
  BY <1>1, <1>2, <1>4, <1>6, AfterTheEnd DEF d
<1> QED
  BY <1>5, <1>6

LEMMA ConnectMoves ==
  ASSUME RegistryInv, NEW s \in Sockets, NEW o \in Orgs, connect(s, o),
         NEW b \in Casts, cast[b].list <= lists[cast[b].org]
  PROVE  /\ Ahead(b) \subseteq Ahead(b)'
         /\ Ahead(b)' \subseteq Ahead(b) \cup {s}
<1> DEFINE c == cast[b]
           pool == IteratedList(c)
           later == IF c.org \in DOMAIN active_connections' /\ lists'[c.org] = c.list
                    THEN active_connections'[c.org] ELSE <<>>
<1>1. c \in Cast /\ c.org \in Orgs /\ c.index \in Nat /\ c.list \in Nat /\ lists \in [Orgs -> Nat]
  BY DEF RegistryInv, TypeOK, Cast
<1>2. Ahead(b) = After(pool, c.index) /\ Ahead(b)' = After(later, c.index)
  <2>1. UNCHANGED cast
    BY DEF connect
  <2> QED
    BY <2>1, AheadIsRemaining DEF Remaining
<1>3. later = pool \/ later = Append(pool, s)
  <2>1. CASE c.org # o
    BY <1>1, <2>1, ConnectWrites DEF IteratedList
  <2>2. CASE c.org = o /\ o \in DOMAIN active_connections
    BY <1>1, <2>2, ConnectWrites DEF IteratedList
  <2>3. CASE c.org = o /\ o \notin DOMAIN active_connections
    <3>0. lists' = [lists EXCEPT ![o] = @ + 1]
      BY <2>3, ConnectWrites
    <3>1. lists'[o] = lists[o] + 1
      BY <1>1, <3>0
    <3>2. c.list <= lists[o] /\ lists[o] \in Nat
      BY <1>1, <2>3
    <3>3. lists'[o] # c.list
      <4> DEFINE current == lists[o]
                 mine == c.list
      <4>1. current \in Nat /\ mine \in Nat /\ mine <= current
        BY <1>1, <2>3, <3>2
      <4>2. lists'[o] = current + 1
        BY <3>1
      <4> HIDE DEF current, mine
      <4>3. mine # current + 1
        BY <4>1
      <4> QED
        BY <4>2, <4>3 DEF mine
    <3>4. later = <<>>
      BY <2>3, <3>3
    <3> QED
      BY <2>3, <3>4 DEF IteratedList
  <2> QED
    BY <2>1, <2>2, <2>3
<1>4. pool \in Seq(Sockets)
  BY <1>1, IteratedListType
<1> DEFINE n == c.index
<1>5. n \in Nat
  BY <1>1
<1> HIDE DEF c, pool, later, n
<1>6. After(pool, n) \subseteq After(later, n) /\ After(later, n) \subseteq After(pool, n) \cup {s}
  BY <1>3, <1>4, <1>5, AppendedPool
<1> QED
  BY <1>2, <1>6 DEF n

\* Whether a broadcast iterates over the list that socket s leaves.
Shifts(s, b) == cast[b].org = org[s] /\ cast[b].list = lists[org[s]]

LEMMA DisconnectMoves ==
  ASSUME RegistryInv, NEW s \in Sockets, disconnect(s), NEW b \in Casts
  PROVE  /\ Ahead(b)' \subseteq Ahead(b)
         /\ \E y : Ahead(b) \subseteq Ahead(b)' \cup {s, y}
         /\ ~Shifts(s, b) => Ahead(b)' = Ahead(b)
<1> DEFINE c == cast[b]
           o == org[s]
           n == c.index
           pool == IteratedList(c)
           rest == Without(active_connections[o], s)
           later == IF c.org \in DOMAIN active_connections' /\ lists[c.org] = c.list
                    THEN active_connections'[c.org] ELSE <<>>
<1>1. c \in Cast /\ c.org \in Orgs /\ n \in Nat
  BY DEF RegistryInv, TypeOK, Cast
<1>2. Ahead(b) = After(pool, n) /\ Ahead(b)' = After(later, n)
  <2>1. /\ cast'[b].org = c.org /\ cast'[b].list = c.list /\ cast'[b].index = c.index
        /\ UNCHANGED lists
    BY <1>1, DepartureFields DEF disconnect
  <2> QED
    BY <2>1, AheadIsRemaining DEF Remaining
<1>3. /\ o \in Orgs /\ o \in DOMAIN active_connections
      /\ active_connections[o] \in Seq(Sockets)
      /\ IsInjective(active_connections[o])
      /\ s \in ToSet(active_connections[o])
      /\ DOMAIN active_connections' = IF rest = <<>> THEN DOMAIN active_connections \ {o}
                                      ELSE DOMAIN active_connections
      /\ rest # <<>> => active_connections'[o] = rest
      /\ \A p \in DOMAIN active_connections \ {o} :
            active_connections'[p] = active_connections[p]
  BY DisconnectWrites
<1>4. CASE Shifts(s, b)
  <2>1. c.org = o /\ c.list = lists[o]
    BY <1>4 DEF Shifts
  <2>2. pool = active_connections[o]
    BY <1>3, <2>1 DEF IteratedList
  <2>3. later = rest
    BY <1>3, <2>1
  <2>4. /\ After(rest, n) \subseteq After(active_connections[o], n)
        /\ \E y : After(active_connections[o], n) \subseteq After(rest, n) \cup {s, y}
    BY <1>1, <1>3, PoolAfterDeparture
  <2> HIDE DEF pool, later, rest
  <2> QED
    BY <1>2, <1>4, <2>2, <2>3, <2>4
<1>5. CASE ~Shifts(s, b)
  <2>1. later = pool
    BY <1>3, <1>5 DEF Shifts, IteratedList
  <2> QED
    BY <1>2, <1>5, <2>1
<1> QED
  BY <1>4, <1>5

-----------------------------------------------------------------------------
(* Nobody gets a message twice.                                            *)

DeliveryInv ==
    /\ RegistryInv
    /\ CastsKnowThePast
    /\ TargetsAreFresh
    /\ AtMostOnce

LEMMA DeliveryInit == Init => DeliveryInv
<1> SUFFICES ASSUME Init PROVE DeliveryInv
  OBVIOUS
<1>1. \A b \in Casts : /\ cast[b] = IdleCast
                       /\ \A s \in Sockets : received[s][b] = 0
  BY DEF Init
<1>2. /\ IdleCast.phase = "idle" /\ IdleCast.list = 0 /\ IdleCast.org \in Orgs
      /\ IdleCast.target = {} /\ IdleCast.audience = {}
  BY SomeOrgType DEF IdleCast
<1>3. CastsKnowThePast /\ TargetsAreFresh /\ AtMostOnce
  BY <1>1, <1>2 DEF Init, CastsKnowThePast, TargetsAreFresh, AtMostOnce
<1> QED
  BY <1>3, RegistryInit DEF DeliveryInv

\* Steps in which no broadcast moves: the lists may change under them, by
\* connections they do not know and by departures.
LEMMA DeliveryFrame ==
  ASSUME DeliveryInv, UNCHANGED received,
         \A b \in Casts :
            /\ cast'[b].phase = cast[b].phase /\ cast'[b].target = cast[b].target
            /\ cast'[b].audience = cast[b].audience
            /\ cast'[b].list <= lists'[cast'[b].org]
            /\ Ahead(b)' \subseteq Ahead(b) \cup {s \in Sockets : socket[s] = "new"},
         \A s \in Sockets : socket'[s] = "new" => socket[s] = "new"
  PROVE  CastsKnowThePast' /\ TargetsAreFresh' /\ AtMostOnce'
<1>1. CastsKnowThePast'
  BY DEF DeliveryInv, CastsKnowThePast
<1>2. AtMostOnce'
  BY DEF DeliveryInv, AtMostOnce
<1>3. ASSUME NEW b \in Casts
      PROVE  /\ cast'[b].phase = "idle" => \A s \in Sockets : received'[s][b] = 0
             /\ cast'[b].phase = "sending" =>
                   /\ cast'[b].target \cap Ahead(b)' = {}
                   /\ \A s \in cast'[b].target \cup Ahead(b)' : received'[s][b] = 0
  BY DEF DeliveryInv, TargetsAreFresh, CastsKnowThePast
<1>4. TargetsAreFresh'
  BY <1>3 DEF TargetsAreFresh
<1> QED
  BY <1>1, <1>2, <1>4

LEMMA ConnectDelivers ==
  ASSUME DeliveryInv, NEW s \in Sockets, NEW o \in Orgs, connect(s, o)
  PROVE  CastsKnowThePast' /\ TargetsAreFresh' /\ AtMostOnce'
<1>1. /\ UNCHANGED <<cast, received>> /\ socket[s] = "new"
      /\ \A x \in Sockets : socket'[x] = "new" => socket[x] = "new"
  BY DEF connect, DeliveryInv, RegistryInv, TypeOK
<1>2. ASSUME NEW b \in Casts
      PROVE  /\ cast[b].list <= lists'[cast[b].org]
             /\ Ahead(b)' \subseteq Ahead(b) \cup {s}
  <2>1. cast[b].list <= lists[cast[b].org]
    BY DEF DeliveryInv, CastsKnowThePast
  <2>2. cast[b].org \in Orgs /\ cast[b].list \in Nat /\ lists \in [Orgs -> Nat]
    BY DEF DeliveryInv, RegistryInv, TypeOK, Cast
  <2>3. lists' = lists \/ lists' = [lists EXCEPT ![o] = @ + 1]
    BY ConnectWrites DEF DeliveryInv
  <2>4. cast[b].list <= lists'[cast[b].org]
    <3> DEFINE mine == cast[b].list
               current == lists[cast[b].org]
    <3>1. mine \in Nat /\ current \in Nat /\ mine <= current
      BY <2>1, <2>2
    <3>2. lists'[cast[b].org] = current \/ lists'[cast[b].org] = current + 1
      BY <2>2, <2>3
    <3> HIDE DEF mine, current
    <3>3. mine <= current + 1
      BY <3>1
    <3> QED
      BY <3>1, <3>2, <3>3 DEF mine
  <2> QED
    BY <2>1, <2>4, ConnectMoves DEF DeliveryInv
<1> QED
  BY <1>1, <1>2, DeliveryFrame

LEMMA DisconnectDelivers ==
  ASSUME DeliveryInv, NEW s \in Sockets, disconnect(s)
  PROVE  CastsKnowThePast' /\ TargetsAreFresh' /\ AtMostOnce'
<1>1. /\ UNCHANGED <<lists, received>>
      /\ \A x \in Sockets : socket'[x] = "new" => socket[x] = "new"
  BY DEF disconnect, DeliveryInv, RegistryInv, TypeOK
<1>2. ASSUME NEW b \in Casts
      PROVE  /\ cast'[b].phase = cast[b].phase /\ cast'[b].target = cast[b].target
             /\ cast'[b].audience = cast[b].audience
             /\ cast'[b].list = cast[b].list /\ cast'[b].org = cast[b].org
  BY DepartureFields DEF disconnect, DeliveryInv, RegistryInv, TypeOK
<1>3. ASSUME NEW b \in Casts
      PROVE  /\ cast'[b].list <= lists'[cast'[b].org]
             /\ Ahead(b)' \subseteq Ahead(b)
  BY <1>1, <1>2, DisconnectMoves DEF DeliveryInv, CastsKnowThePast
<1> QED
  BY <1>1, <1>2, <1>3, DeliveryFrame

\* The steps of the event loop that no broadcast and no list notices.
Quiet(s) == Refuse(s) \/ PeerLeaves(s)

LEMMA QuietDelivers ==
  ASSUME DeliveryInv, UNCHANGED vars \/ \E s \in Sockets : Quiet(s)
  PROVE  CastsKnowThePast' /\ TargetsAreFresh' /\ AtMostOnce'
<1>1. UNCHANGED <<poolVars, cast, received>>
  BY DEF Quiet, Refuse, PeerLeaves, vars
<1>2. \A s \in Sockets : socket'[s] = "new" => socket[s] = "new"
  BY DEF Quiet, Refuse, PeerLeaves, vars, DeliveryInv, RegistryInv, TypeOK
<1>3. \A b \in Casts : Ahead(b)' = Ahead(b)
  BY <1>1, AheadIsRemaining
<1>4. \A b \in Casts : cast'[b].list <= lists'[cast'[b].org]
  BY <1>1 DEF poolVars, DeliveryInv, CastsKnowThePast
<1> QED
  BY <1>1, <1>2, <1>3, <1>4, DeliveryFrame

\* A broadcast begins with everybody registered ahead of it.
LEMMA StartedRemaining ==
  ASSUME RegistryInv, NEW o \in DOMAIN active_connections
  PROVE  Remaining(Started(o)) = Started(o).audience
<1>1. /\ Started(o).audience = ToSet(active_connections[o]) /\ Started(o).index = 0
      /\ IteratedList(Started(o)) = active_connections[o]
  BY StartedFields
<1>2. active_connections[o] \in Seq(Sockets)
  BY DEF RegistryInv, TypeOK
<1>3. \A i \in DOMAIN active_connections[o] : i > 0
  BY <1>2
<1> QED
  BY <1>1, <1>3 DEF Remaining, After, ToSet

LEMMA BroadcastDelivers ==
  ASSUME DeliveryInv, NEW b \in Casts, NEW o \in Orgs, broadcast_to_org(b, o)
  PROVE  CastsKnowThePast' /\ TargetsAreFresh' /\ AtMostOnce'
<1>1. /\ cast[b].phase = "idle"
      /\ UNCHANGED <<poolVars, org, socket, received>>
      /\ \A a \in Casts \ {b} : cast'[a] = cast[a]
      /\ cast'[b] = IF o \in DOMAIN active_connections THEN NextConnection(Started(o))
                    ELSE [IdleCast EXCEPT !.phase = "done", !.org = o]
  BY BroadcastWrites DEF DeliveryInv
<1>2. \A s \in Sockets : received[s][b] = 0
  BY <1>1 DEF DeliveryInv, TargetsAreFresh
<1>3. /\ cast'[b].list <= lists[cast'[b].org]
      /\ \A s \in Sockets : socket[s] = "new" => s \notin cast'[b].target \cup cast'[b].audience
      /\ cast'[b].phase # "idle"
      /\ cast'[b].phase = "sending" => cast'[b].target \cap Remaining(cast'[b]) = {}
      /\ cast'[b].phase = "sending" => cast'[b].target \cup Remaining(cast'[b]) \subseteq Sockets
  <2>1. CASE o \in DOMAIN active_connections
    <3> DEFINE c == Started(o)
               d == NextConnection(c)
    <3>1. c \in Cast /\ c.phase = "sending" /\ c.list = lists[o] /\ c.org = o
      BY <2>1, StartedFields DEF DeliveryInv
    <3>2. /\ d.target \cup Remaining(d) = Remaining(c) /\ d.target \cap Remaining(d) = {}
          /\ d.phase # "idle"
      BY <3>1, AdvanceMoves DEF DeliveryInv
    <3>3. d.list = c.list /\ d.org = c.org /\ d.audience = c.audience
      BY <3>1, NextConnectionFields DEF DeliveryInv
    <3>4. Remaining(c) = c.audience
      BY <2>1, StartedRemaining DEF DeliveryInv
    <3>5. \A s \in Remaining(c) : s \in Sockets /\ socket[s] # "new"
      BY <3>1, RemainingAreRegistered DEF DeliveryInv
    <3>6. lists[o] \in Nat /\ lists[o] <= lists[o]
      BY DEF DeliveryInv, RegistryInv, TypeOK
    <3>7. cast'[b] = d
      BY <1>1, <2>1
    <3> HIDE DEF c, d
    <3> QED
      BY <3>1, <3>2, <3>3, <3>4, <3>5, <3>6, <3>7
  <2>2. CASE o \notin DOMAIN active_connections
    <3> DEFINE c == [IdleCast EXCEPT !.phase = "done", !.org = o]
    <3>1. /\ c.phase = "done" /\ c.list = 0 /\ c.org = o
          /\ c.target = {} /\ c.audience = {}
      BY EmptyBroadcastFields
    <3>2. lists[o] \in Nat
      BY DEF DeliveryInv, RegistryInv, TypeOK
    <3>3. cast'[b] = c
      BY <1>1, <2>2
    <3> HIDE DEF c
    <3> QED
      BY <3>1, <3>2, <3>3
  <2> QED
    BY <2>1, <2>2
<1>4. UNCHANGED poolVars /\ UNCHANGED lists /\ \A a \in Casts : Ahead(a)' = Remaining(cast'[a])
  BY <1>1, AheadIsRemaining DEF poolVars
<1>5. CastsKnowThePast'
  BY <1>1, <1>2, <1>3, <1>4 DEF DeliveryInv, CastsKnowThePast
<1>6. AtMostOnce'
  BY <1>1 DEF DeliveryInv, AtMostOnce
<1>7. TargetsAreFresh'
  <2>1. ASSUME NEW a \in Casts \ {b}
        PROVE  /\ cast'[a].phase = "idle" => \A s \in Sockets : received'[s][a] = 0
               /\ cast'[a].phase = "sending" =>
                     /\ cast'[a].target \cap Ahead(a)' = {}
                     /\ \A s \in cast'[a].target \cup Ahead(a)' : received'[s][a] = 0
    BY <1>1, <1>4, AheadIsRemaining DEF DeliveryInv, TargetsAreFresh
  <2>2. cast'[b].phase = "sending" =>
           /\ cast'[b].target \cap Ahead(b)' = {}
           /\ \A s \in cast'[b].target \cup Ahead(b)' : received'[s][b] = 0
    BY <1>1, <1>2, <1>3, <1>4
  <2> QED
    BY <1>3, <2>1, <2>2 DEF TargetsAreFresh
<1> QED
  BY <1>5, <1>6, <1>7

LEMMA FinishSendDelivers ==
  ASSUME DeliveryInv, NEW b \in Casts, FinishSend(b)
  PROVE  CastsKnowThePast' /\ TargetsAreFresh' /\ AtMostOnce'
<1> DEFINE c == cast[b]
           d == NextConnection(c)
<1>1. /\ c.phase = "sending"
      /\ UNCHANGED <<poolVars, org, socket>>
      /\ \A a \in Casts \ {b} : cast'[a] = cast[a]
      /\ cast'[b] = d
      /\ \A s \in Sockets : \A a \in Casts \ {b} : received'[s][a] = received[s][a]
      /\ \A s \in Sockets : received'[s][b] =
            IF s \in c.target /\ socket[s] = "open" THEN received[s][b] + 1
            ELSE received[s][b]
  BY FinishSendWrites DEF DeliveryInv
<1>2. c \in Cast
  BY DEF DeliveryInv, RegistryInv, TypeOK
<1>3. /\ d.target \cup Remaining(d) = Remaining(c) /\ d.target \cap Remaining(d) = {}
      /\ d.phase # "idle"
  BY <1>1, <1>2, AdvanceMoves DEF DeliveryInv
<1>4. d.list = c.list /\ d.org = c.org /\ d.audience = c.audience
  BY <1>1, <1>2, NextConnectionFields DEF DeliveryInv
<1>5. \A s \in Remaining(c) : s \in Sockets /\ socket[s] # "new"
  BY <1>2, RemainingAreRegistered DEF DeliveryInv
<1>6. /\ c.target \cap Remaining(c) = {}
      /\ \A s \in c.target \cup Remaining(c) : received[s][b] = 0
  BY <1>1, AheadIsRemaining DEF DeliveryInv, TargetsAreFresh
<1>7. /\ c.list <= lists[c.org]
      /\ \A s \in Sockets : socket[s] = "new" =>
            s \notin c.target \cup c.audience /\ received[s][b] = 0
  BY DEF DeliveryInv, CastsKnowThePast
<1>8. UNCHANGED lists /\ UNCHANGED poolVars /\ \A a \in Casts : Ahead(a)' = Remaining(cast'[a])
  BY <1>1, AheadIsRemaining DEF poolVars
<1> HIDE DEF c, d
<1>9. CastsKnowThePast'
  <2>1. ASSUME NEW a \in Casts \ {b}
        PROVE  /\ cast'[a].list <= lists'[cast'[a].org]
               /\ \A s \in Sockets : socket'[s] = "new" =>
                     s \notin cast'[a].target \cup cast'[a].audience /\ received'[s][a] = 0
    BY <1>1, <1>8 DEF DeliveryInv, CastsKnowThePast
  <2>2. /\ cast'[b].list <= lists'[cast'[b].org]
        /\ \A s \in Sockets : socket'[s] = "new" =>
              s \notin cast'[b].target \cup cast'[b].audience /\ received'[s][b] = 0
    BY <1>1, <1>3, <1>4, <1>5, <1>7, <1>8
  <2> QED
    BY <2>1, <2>2 DEF CastsKnowThePast
<1>10. TargetsAreFresh'
  <2>1. ASSUME NEW a \in Casts \ {b}
        PROVE  /\ cast'[a].phase = "idle" => \A s \in Sockets : received'[s][a] = 0
               /\ cast'[a].phase = "sending" =>
                     /\ cast'[a].target \cap Ahead(a)' = {}
                     /\ \A s \in cast'[a].target \cup Ahead(a)' : received'[s][a] = 0
    <3>0. cast[a] \in Cast
      BY DEF DeliveryInv, RegistryInv, TypeOK
    <3>1. \A s \in Remaining(cast[a]) : s \in Sockets
      BY <3>0, RemainingAreRegistered DEF DeliveryInv
    <3>2. cast[a].target \subseteq Sockets
      BY DEF DeliveryInv, RegistryInv, TypeOK, Cast
    <3> QED
      BY <1>1, <1>8, <3>1, <3>2, AheadIsRemaining DEF DeliveryInv, TargetsAreFresh
  <2>2. /\ cast'[b].target \cap Ahead(b)' = {}
        /\ \A s \in cast'[b].target \cup Ahead(b)' : received'[s][b] = 0
    BY <1>1, <1>3, <1>5, <1>6, <1>8
  <2> QED
    BY <1>1, <1>3, <2>1, <2>2 DEF TargetsAreFresh
<1>11. AtMostOnce'
  <2>1. ASSUME NEW s \in Sockets PROVE received'[s][b] <= 1
    BY <1>1, <1>6 DEF DeliveryInv, AtMostOnce
  <2>2. ASSUME NEW s \in Sockets, NEW a \in Casts \ {b} PROVE received'[s][a] <= 1
    BY <1>1 DEF DeliveryInv, AtMostOnce
  <2> QED
    BY <2>1, <2>2 DEF AtMostOnce
<1> QED
  BY <1>9, <1>10, <1>11

LEMMA DeliveryStep == DeliveryInv /\ [Next]_vars => DeliveryInv'
<1> SUFFICES ASSUME DeliveryInv, [Next]_vars PROVE DeliveryInv'
  OBVIOUS
<1>1. RegistryInv'
  BY RegistryStep DEF DeliveryInv
<1>2. CastsKnowThePast' /\ TargetsAreFresh' /\ AtMostOnce'
  BY QuietDelivers, ConnectDelivers, DisconnectDelivers, BroadcastDelivers,
     FinishSendDelivers DEF Next, Quiet
<1> QED
  BY <1>1, <1>2 DEF DeliveryInv

\* However connections come and go while a broadcast is suspended in its sends,
\* the list iterator never brings it back to somebody it has served.
THEOREM NobodyServedTwice == Spec => []AtMostOnce
<1>1. DeliveryInv => AtMostOnce
  BY DEF DeliveryInv
<1> QED
  BY <1>1, DeliveryInit, DeliveryStep, PTL DEF Spec

-----------------------------------------------------------------------------
(* A departure costs at most one other connection its message.             *)

MissInv ==
    /\ DeliveryInv
    /\ SkipsAreCounted
    /\ OneMissPerDeparture

\* A set of connections within a bounded one, and with one more member.
LEMMA FewConnections ==
  ASSUME NEW T \in SUBSET Sockets, NEW n \in Nat, Cardinality(T) <= n, NEW S, NEW y
  PROVE  /\ S \subseteq T => Cardinality(S) <= n
         /\ S \subseteq T \cup {y} => Cardinality(S) <= n + 1
<1>1. IsFiniteSet(T) /\ Cardinality(T) \in Nat
  BY StreamConstants, FS_Subset, FS_CardinalityType
<1>2. ASSUME S \subseteq T PROVE Cardinality(S) <= n
  <2>1. Cardinality(S) <= Cardinality(T) /\ IsFiniteSet(S)
    BY <1>1, <1>2, FS_Subset
  <2> QED
    BY <1>1, <2>1, FS_CardinalityType
<1>3. ASSUME S \subseteq T \cup {y} PROVE Cardinality(S) <= n + 1
  <2>1. /\ IsFiniteSet(T \cup {y})
        /\ Cardinality(T \cup {y}) = IF y \in T THEN Cardinality(T) ELSE Cardinality(T) + 1
    BY <1>1, FS_AddElement, Zenon
  <2>2. Cardinality(S) <= Cardinality(T \cup {y}) /\ IsFiniteSet(S)
    BY <1>3, <2>1, FS_Subset
  <2>3. Cardinality(S) \in Nat /\ Cardinality(T \cup {y}) \in Nat
    BY <2>1, <2>2, FS_CardinalityType
  <2> QED
    BY <1>1, <2>1, <2>2, <2>3
<1> QED
  BY <1>2, <1>3

\* What MissInv says of one broadcast.
LEMMA MissesOf ==
  ASSUME MissInv, NEW b \in Casts
  PROVE  /\ cast[b] \in Cast /\ cast[b].departures \in Nat
         /\ Missed(b) \in SUBSET Sockets /\ Skipped(b) \in SUBSET Sockets
         /\ cast[b].phase = "sending" => Cardinality(Skipped(b)) <= cast[b].departures
         /\ cast[b].phase = "done" => Cardinality(Missed(b)) <= cast[b].departures
<1>1. cast[b] \in Cast
  BY DEF MissInv, DeliveryInv, RegistryInv, TypeOK
<1> QED
  BY <1>1 DEF MissInv, SkipsAreCounted, OneMissPerDeparture, Skipped, Missed, Cast

\* A broadcast that does not move, and whose iteration loses nobody.
LEMMA MissFrame ==
  ASSUME MissInv, NEW b \in Casts,
         cast'[b].phase = cast[b].phase, cast'[b].target = cast[b].target,
         cast'[b].departures = cast[b].departures,
         Missed(b)' \subseteq Missed(b),
         cast[b].phase = "sending" => Ahead(b) \subseteq Ahead(b)'
  PROVE  /\ cast'[b].phase = "sending" => Cardinality(Skipped(b)') <= cast'[b].departures
         /\ cast'[b].phase = "done" => Cardinality(Missed(b)') <= cast'[b].departures
<1>1. cast[b].phase = "sending" => Skipped(b)' \subseteq Skipped(b)
  BY DEF Skipped
<1> QED
  BY <1>1, MissesOf, FewConnections

\* Nobody becomes a listener of a broadcast under way.
LEMMA MissedShrinks ==
  ASSUME DeliveryInv, NEW b \in Casts, cast'[b].audience = cast[b].audience,
         \A s \in Sockets : received'[s][b] = received[s][b],
         \A s \in Sockets : socket'[s] = "open" => socket[s] \in {"new", "open"}
  PROVE  Missed(b)' \subseteq Missed(b)
<1>1. cast[b].audience \subseteq Sockets
  BY DEF DeliveryInv, RegistryInv, TypeOK, Cast
<1>2. \A s \in cast[b].audience : socket[s] # "new"
  BY <1>1 DEF DeliveryInv, CastsKnowThePast
<1> QED
  BY <1>1, <1>2 DEF Missed

\* What each step owes to each broadcast.
MissesBounded(b) ==
    /\ cast[b].phase = "sending" => Cardinality(Skipped(b)) <= cast[b].departures
    /\ cast[b].phase = "done" => Cardinality(Missed(b)) <= cast[b].departures

LEMMA ConnectMisses ==
  ASSUME MissInv, NEW s \in Sockets, NEW o \in Orgs, connect(s, o), NEW b \in Casts
  PROVE  MissesBounded(b)'
<1>1. /\ UNCHANGED <<cast, received>> /\ socket[s] = "new"
      /\ \A x \in Sockets : socket'[x] = "open" => socket[x] \in {"new", "open"}
  BY DEF connect, MissInv, DeliveryInv, RegistryInv, TypeOK
<1>2. Ahead(b) \subseteq Ahead(b)'
  BY ConnectMoves DEF MissInv, DeliveryInv, CastsKnowThePast
<1>3. Missed(b)' \subseteq Missed(b)
  BY <1>1, MissedShrinks DEF MissInv
<1> QED
  BY <1>1, <1>2, <1>3, MissFrame DEF MissesBounded

LEMMA QuietMisses ==
  ASSUME MissInv, UNCHANGED vars \/ \E s \in Sockets : Quiet(s), NEW b \in Casts
  PROVE  MissesBounded(b)'
<1>1. UNCHANGED <<poolVars, cast, received>>
  BY DEF Quiet, Refuse, PeerLeaves, vars
<1>2. \A s \in Sockets : socket'[s] = "open" => socket[s] \in {"new", "open"}
  BY DEF Quiet, Refuse, PeerLeaves, vars, MissInv, DeliveryInv, RegistryInv, TypeOK
<1>3. Ahead(b)' = Ahead(b)
  BY <1>1, AheadIsRemaining
<1>4. Missed(b)' \subseteq Missed(b)
  BY <1>1, <1>2, MissedShrinks DEF MissInv
<1> QED
  BY <1>1, <1>3, <1>4, MissFrame DEF MissesBounded

\* The departure that shifts a list under its iterator: what was next slips
\* below the index, and nothing else does.
LEMMA DisconnectMisses ==
  ASSUME MissInv, NEW s \in Sockets, disconnect(s), NEW b \in Casts
  PROVE  MissesBounded(b)'
<1>1. /\ UNCHANGED received /\ socket'[s] = "closed"
      /\ \A x \in Sockets : socket'[x] = "open" => socket[x] \in {"new", "open"}
  BY DEF disconnect, MissInv, DeliveryInv, RegistryInv, TypeOK
<1>2. /\ cast'[b].phase = cast[b].phase /\ cast'[b].target = cast[b].target
      /\ cast'[b].audience = cast[b].audience
      /\ cast'[b].departures = IF cast[b].phase = "sending" /\ Shifts(s, b)
                               THEN cast[b].departures + 1 ELSE cast[b].departures
  BY DepartureFields DEF disconnect, Shifts, MissInv, DeliveryInv, RegistryInv, TypeOK
<1>3. Missed(b)' \subseteq Missed(b)
  BY <1>1, <1>2, MissedShrinks DEF MissInv
<1>4. s \notin Missed(b)'
  BY <1>1 DEF Missed
<1>5. CASE cast[b].phase = "sending" /\ Shifts(s, b)
  <2>1. PICK y : Ahead(b) \subseteq Ahead(b)' \cup {s, y}
    BY DisconnectMoves DEF MissInv, DeliveryInv
  <2>2. Skipped(b)' \subseteq Skipped(b) \cup {y}
    BY <1>2, <1>3, <1>4, <2>1 DEF Skipped
  <2>3. Cardinality(Skipped(b)') <= cast[b].departures + 1
    BY <1>5, <2>2, MissesOf, FewConnections
  <2> QED
    BY <1>2, <1>5, <2>3 DEF MissesBounded
<1>6. CASE ~(cast[b].phase = "sending" /\ Shifts(s, b))
  <2>1. cast[b].phase = "sending" => Ahead(b) \subseteq Ahead(b)'
    BY <1>6, DisconnectMoves DEF MissInv, DeliveryInv
  <2> QED
    BY <1>2, <1>3, <1>6, <2>1, MissFrame DEF MissesBounded
<1> QED
  BY <1>5, <1>6

\* A broadcast that another one's step leaves alone.
LEMMA OtherCastMisses ==
  ASSUME MissInv, NEW b \in Casts, UNCHANGED <<poolVars, socket>>,
         cast'[b] = cast[b], \A s \in Sockets : received'[s][b] = received[s][b]
  PROVE  MissesBounded(b)'
<1>1. Ahead(b)' = Ahead(b)
  BY AheadIsRemaining
<1>2. Missed(b)' \subseteq Missed(b)
  BY MissedShrinks DEF MissInv
<1> QED
  BY <1>1, <1>2, MissFrame DEF MissesBounded

LEMMA BroadcastMisses ==
  ASSUME MissInv, NEW b \in Casts, NEW o \in Orgs, broadcast_to_org(b, o), NEW a \in Casts
  PROVE  MissesBounded(a)'
<1>1. /\ UNCHANGED <<poolVars, org, socket, received>>
      /\ \A p \in Casts \ {b} : cast'[p] = cast[p]
      /\ cast'[b] = IF o \in DOMAIN active_connections THEN NextConnection(Started(o))
                    ELSE [IdleCast EXCEPT !.phase = "done", !.org = o]
  BY BroadcastWrites DEF MissInv, DeliveryInv
<1>2. CASE a # b
  BY <1>1, <1>2, OtherCastMisses
<1>3. CASE a = b
  <2>1. /\ cast'[b].departures = 0
        /\ cast'[b].audience = cast'[b].target \cup Remaining(cast'[b])
              \/ cast'[b].audience = {}
        /\ cast'[b].phase = "done" => cast'[b].audience = {}
    <3>1. CASE o \in DOMAIN active_connections
      <4> DEFINE c == Started(o)
                 d == NextConnection(c)
      <4>1. c \in Cast /\ c.phase = "sending" /\ c.departures = 0
        BY <3>1, StartedFields DEF MissInv, DeliveryInv
      <4>2. /\ d.target \cup Remaining(d) = Remaining(c)
            /\ d.phase = "done" => Remaining(c) = {}
        BY <4>1, AdvanceMoves DEF MissInv, DeliveryInv
      <4>3. d.audience = c.audience /\ d.departures = c.departures
        BY <4>1, NextConnectionFields DEF MissInv, DeliveryInv
      <4>4. Remaining(c) = c.audience
        BY <3>1, StartedRemaining DEF MissInv, DeliveryInv
      <4>5. cast'[b] = d
        BY <1>1, <3>1
      <4> HIDE DEF c, d
      <4> QED
        BY <4>1, <4>2, <4>3, <4>4, <4>5
    <3>2. CASE o \notin DOMAIN active_connections
      <4> DEFINE c == [IdleCast EXCEPT !.phase = "done", !.org = o]
      <4>1. c.departures = 0 /\ c.audience = {}
        BY EmptyBroadcastFields
      <4>2. cast'[b] = c
        BY <1>1, <3>2
      <4> HIDE DEF c
      <4> QED
        BY <4>1, <4>2
    <3> QED
      BY <3>1, <3>2
  <2>2. Ahead(b)' = Remaining(cast'[b])
    BY <1>1, AheadIsRemaining
  <2>3. Skipped(b)' = {}
    BY <2>1, <2>2 DEF Skipped, Missed
  <2>4. cast'[b].phase = "done" => Missed(b)' = {}
    BY <2>1 DEF Missed
  <2> QED
    BY <1>3, <2>1, <2>3, <2>4, FS_EmptySet DEF MissesBounded
<1> QED
  BY <1>2, <1>3

\* Whoever goes without at the end of a broadcast had been passed over before.
LEMMA FinishSendMisses ==
  ASSUME MissInv, NEW b \in Casts, FinishSend(b), NEW a \in Casts
  PROVE  MissesBounded(a)'
<1> DEFINE c == cast[b]
           d == NextConnection(c)
<1>1. /\ c.phase = "sending"
      /\ UNCHANGED <<poolVars, org, socket>>
      /\ \A p \in Casts \ {b} : cast'[p] = cast[p]
      /\ cast'[b] = d
      /\ \A s \in Sockets : \A p \in Casts \ {b} : received'[s][p] = received[s][p]
      /\ \A s \in Sockets : received'[s][b] =
            IF s \in c.target /\ socket[s] = "open" THEN received[s][b] + 1
            ELSE received[s][b]
  BY FinishSendWrites DEF MissInv, DeliveryInv
<1>2. CASE a # b
  BY <1>1, <1>2, OtherCastMisses
<1>3. CASE a = b
  <2>1. c \in Cast
    BY MissesOf
  <2>2. /\ d.target \cup Remaining(d) = Remaining(c)
        /\ d.phase = "done" => Remaining(c) = {}
    BY <1>1, <2>1, AdvanceMoves DEF MissInv, DeliveryInv
  <2>3. d.audience = c.audience /\ d.departures = c.departures
    BY <1>1, <2>1, NextConnectionFields DEF MissInv, DeliveryInv
  <2>4. Ahead(b) = Remaining(c) /\ Ahead(b)' = Remaining(d)
    BY <1>1, AheadIsRemaining
  <2> HIDE DEF d
  <2>5. ASSUME NEW s \in Missed(b)' PROVE s \in Missed(b) \ c.target
    <3>1. s \in Sockets /\ s \in c.audience /\ socket[s] = "open" /\ received'[s][b] = 0
      BY <1>1, <2>1, <2>3 DEF Missed, Cast
    <3>2. received[s][b] \in Nat
      BY <3>1 DEF MissInv, DeliveryInv, RegistryInv, TypeOK
    <3>3. s \notin c.target /\ received[s][b] = 0
      BY <1>1, <3>1, <3>2
    <3> QED
      BY <3>1, <3>3 DEF Missed
  <2>6. cast'[b].phase = "sending" => Skipped(b)' \subseteq Skipped(b)
    BY <1>1, <2>2, <2>4, <2>5 DEF Skipped
  <2>7. cast'[b].phase = "done" => Missed(b)' \subseteq Skipped(b)
    BY <1>1, <2>2, <2>4, <2>5 DEF Skipped
  <2>8. /\ Skipped(b) \in SUBSET Sockets /\ c.departures \in Nat
        /\ Cardinality(Skipped(b)) <= c.departures
    BY <1>1, MissesOf
  <2>9. cast'[b].departures = c.departures
    BY <1>1, <2>3
  <2> HIDE DEF c
  <2> QED
    BY <1>3, <2>6, <2>7, <2>8, <2>9, FewConnections DEF MissesBounded
<1> QED
  BY <1>2, <1>3

LEMMA MissInit == Init => MissInv
<1> SUFFICES ASSUME Init PROVE MissInv
  OBVIOUS
<1>1. \A b \in Casts : cast[b].phase = "idle"
  BY DEF Init, IdleCast
<1> QED
  BY <1>1, DeliveryInit DEF MissInv, SkipsAreCounted, OneMissPerDeparture

LEMMA MissStep == MissInv /\ [Next]_vars => MissInv'
<1> SUFFICES ASSUME MissInv, [Next]_vars PROVE MissInv'
  OBVIOUS
<1>1. DeliveryInv'
  BY DeliveryStep DEF MissInv
<1>2. ASSUME NEW b \in Casts PROVE MissesBounded(b)'
  BY QuietMisses, ConnectMisses, DisconnectMisses, BroadcastMisses, FinishSendMisses
     DEF Next, Quiet
<1> QED
  BY <1>1, <1>2 DEF MissInv, SkipsAreCounted, OneMissPerDeparture, MissesBounded

\* The invariant that links the dictionary, the iterators and the deliveries
\* holds in every reachable state.
THEOREM StreamInvariant == Spec => []IInv
<1>1. MissInv => IInv
  BY DEF MissInv, DeliveryInv, RegistryInv, IInv
<1> QED
  BY <1>1, MissInit, MissStep, PTL DEF Spec

\* Each departure during a broadcast costs at most one other connection the
\* message: a broadcast that nobody leaves reaches everybody who stays.
THEOREM MissesAreDepartures == Spec => []OneMissPerDeparture
<1>1. MissInv => OneMissPerDeparture
  BY DEF MissInv
<1> QED
  BY <1>1, MissInit, MissStep, PTL DEF Spec

=============================================================================
