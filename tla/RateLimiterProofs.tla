------------------------- MODULE RateLimiterProofs -------------------------
(***************************************************************************)
(* Proof of the limiter's bound, for every limit, window, lag and number   *)
(* of requests.                                                            *)
(***************************************************************************)
EXTENDS RateLimiter, FiniteSetTheorems, TLAPS

\* IInv without the bound itself.
Bookkeeping ==
    /\ TypeOK
    /\ PendingAreRecent
    /\ YoungStampsAreHeld
    /\ StampsDistinct
    /\ AdmittedAreLogged

LEMMA IInvParts == IInv <=> Bookkeeping /\ AdmissionBound
BY DEF IInv, Bookkeeping

LEMMA ConstantTypes ==
    /\ Limit \in Nat \ {0} /\ Window \in Nat \ {0}
    /\ MaxLag \in Nat /\ MaxTime \in Nat /\ IsFiniteSet(Requests)
BY LimiterConstants

LEMMA BookkeepingInit == Init => Bookkeeping
BY ConstantTypes DEF Init, Bookkeeping, TypeOK, PendingAreRecent, YoungStampsAreHeld,
   StampsDistinct, AdmittedAreLogged, Time, Verdict

\* The transaction keeps every stamp younger than the window.
LEMMA TransactionKeepsBooks ==
  ASSUME Bookkeeping, NEW q \in Requests, Transaction(q),
         NEW outcome \in Verdict \ {"new"},
         verdict' = [verdict EXCEPT ![q] = outcome]
  PROVE  Bookkeeping'
<1> USE ConstantTypes DEF Bookkeeping, TypeOK, Time
<1>1. /\ verdict[q] = "pending"
      /\ UNCHANGED <<clock, stamp>>
      /\ expires' = clock + Window
      /\ logged' = logged \cup {q}
      /\ zset' = Pruned(q) \cup {stamp[q]}
  BY DEF Transaction
<1>2. stamp[q] <= clock /\ clock - MaxLag <= stamp[q]
  BY <1>1 DEF PendingAreRecent
<1>3. \A p \in Requests : p # q => verdict'[p] = verdict[p]
  OBVIOUS
<1>4. verdict'[q] = outcome /\ outcome # "new"
  OBVIOUS
<1>5. TypeOK'
  <2>1. Pruned(q) \subseteq Time
    BY DEF Pruned, Held
  <2>2. zset' \subseteq Time
    BY <1>1, <2>1
  <2>3. expires' \in Nat
    BY <1>1
  <2>4. verdict' \in [Requests -> Verdict]
    OBVIOUS
  <2> QED
    BY <1>1, <2>2, <2>3, <2>4
<1>6. PendingAreRecent'
  BY <1>1, <1>2, <1>3, <1>4 DEF PendingAreRecent
<1>7. ASSUME NEW p \in logged'
      PROVE  /\ verdict'[p] # "new"
             /\ stamp'[p] + Window <= expires'
             /\ stamp'[p] > clock' - Window => stamp'[p] \in zset'
  <2>1. p \in Requests /\ verdict'[p] # "new" /\ verdict[p] # "new"
    BY <1>1, <1>3, <1>4, <1>7 DEF YoungStampsAreHeld
  <2>2. stamp[p] <= clock
    BY <2>1 DEF PendingAreRecent
  <2>3. ASSUME stamp[p] > clock - Window, p # q
        PROVE  stamp[p] \in Pruned(q)
    <3>1. p \in logged
      BY <1>1, <1>7, <2>3
    <3>2. stamp[p] \in zset /\ stamp[p] + Window <= expires
      BY <2>3, <3>1 DEF YoungStampsAreHeld
    <3>3. clock < expires
      BY <2>1, <2>3, <3>2
    <3>4. stamp[p] > stamp[q] - Window
      BY <1>2, <2>1, <2>3
    <3> QED
      BY <3>2, <3>3, <3>4 DEF Pruned, Held
  <2> QED
    BY <1>1, <2>1, <2>2, <2>3
<1>8. YoungStampsAreHeld'
  BY <1>7 DEF YoungStampsAreHeld
<1>9. StampsDistinct'
  BY <1>1, <1>3 DEF StampsDistinct
<1>10. AdmittedAreLogged'
  BY <1>1, <1>3 DEF AdmittedAreLogged
<1> QED
  BY <1>5, <1>6, <1>8, <1>9, <1>10

LEMMA BookkeepingStep ==
  ASSUME FineClock, Bookkeeping, [Next]_vars
  PROVE  Bookkeeping'
<1> USE ConstantTypes
<1>1. CASE AdvanceClock
  BY <1>1 DEF AdvanceClock, Bookkeeping, TypeOK, PendingAreRecent, YoungStampsAreHeld,
     StampsDistinct, AdmittedAreLogged, Time
<1>2. ASSUME NEW q \in Requests, TakeTimestamp(q) PROVE Bookkeeping'
  <2> USE DEF Bookkeeping, TypeOK, Time, Verdict
  <2>1. /\ verdict[q] = "new" /\ q \notin logged
        /\ stamp'[q] = clock /\ verdict'[q] = "pending"
        /\ \A p \in Requests \ {q} : stamp'[p] = stamp[p] /\ verdict'[p] = verdict[p]
        /\ \A p \in Requests : verdict[p] # "new" => stamp[p] # clock
        /\ UNCHANGED <<clock, zset, expires, logged>>
    BY <1>2 DEF TakeTimestamp, YoungStampsAreHeld
  <2>2. TypeOK'
    BY <1>2 DEF TakeTimestamp
  <2>3. PendingAreRecent'
    BY <2>1 DEF PendingAreRecent
  <2>4. YoungStampsAreHeld'
    BY <2>1 DEF YoungStampsAreHeld
  <2>5. StampsDistinct'
    BY <2>1 DEF StampsDistinct
  <2>6. AdmittedAreLogged'
    BY <2>1 DEF AdmittedAreLogged
  <2> QED
    BY <2>2, <2>3, <2>4, <2>5, <2>6
<1>3. ASSUME NEW q \in Requests, is_rate_limited(q) PROVE Bookkeeping'
  <2> DEFINE outcome == IF IsLimited(Cardinality(Pruned(q))) THEN "limited" ELSE "admitted"
  <2>1. outcome \in Verdict \ {"new"}
    BY DEF Verdict
  <2>2. Transaction(q) /\ verdict' = [verdict EXCEPT ![q] = outcome]
    BY <1>3 DEF is_rate_limited
  <2> HIDE DEF outcome
  <2> QED
    BY <2>1, <2>2, TransactionKeepsBooks
<1>4. ASSUME NEW q \in Requests, LoseReply(q) PROVE Bookkeeping'
  BY <1>4, TransactionKeepsBooks DEF LoseReply, Verdict
<1>5. ASSUME NEW q \in Requests, Unreachable(q) PROVE Bookkeeping'
  BY <1>5 DEF Unreachable, Bookkeeping, TypeOK, PendingAreRecent, YoungStampsAreHeld,
     StampsDistinct, AdmittedAreLogged, Verdict
<1>6. CASE UNCHANGED vars
  BY <1>6 DEF vars, Bookkeeping, TypeOK, PendingAreRecent, YoungStampsAreHeld,
     StampsDistinct, AdmittedAreLogged
<1> QED
  BY <1>1, <1>2, <1>3, <1>4, <1>5, <1>6 DEF Next

-----------------------------------------------------------------------------
(* The bound.                                                              *)

Span == Window - MaxLag

LEMMA AdmittedFinite ==
  \A t : IsFiniteSet(AdmittedWithin(Span, t)) /\ Cardinality(AdmittedWithin(Span, t)) \in Nat
<1> SUFFICES ASSUME NEW t
             PROVE  /\ IsFiniteSet(AdmittedWithin(Span, t))
                    /\ Cardinality(AdmittedWithin(Span, t)) \in Nat
  OBVIOUS
<1>1. AdmittedWithin(Span, t) \in SUBSET Requests
  BY DEF AdmittedWithin
<1>2. IsFiniteSet(AdmittedWithin(Span, t))
  BY <1>1, ConstantTypes, FS_Subset
<1> QED
  BY <1>2, FS_CardinalityType

\* Whoever was let through in the span around q's timestamp is still counted
\* when q's transaction runs, each under a member of its own.
LEMMA AdmittedAreCounted ==
  ASSUME Bookkeeping, NEW q \in Requests, Transaction(q), NEW t \in Time,
         t - Span < stamp[q], stamp[q] <= t
  PROVE  /\ IsFiniteSet(Pruned(q))
         /\ Cardinality(AdmittedWithin(Span, t)) <= Cardinality(Pruned(q))
<1> USE ConstantTypes DEF Bookkeeping, TypeOK, Time
<1> DEFINE A == AdmittedWithin(Span, t)
           f == [p \in A |-> stamp[p]]
<1>1. clock - MaxLag <= stamp[q] /\ stamp[q] <= clock
  BY DEF Transaction, PendingAreRecent
<1>2. ASSUME NEW p \in A PROVE stamp[p] \in Pruned(q)
  <2>1. p \in Requests /\ p \in logged /\ stamp[p] \in 0 .. MaxTime /\ t - Span < stamp[p]
    BY DEF AdmittedWithin, AdmittedAreLogged
  <2>2. stamp[p] > clock - Window
    BY <1>1, <2>1 DEF Span
  <2>3. stamp[p] \in zset /\ clock < expires
    BY <2>1, <2>2 DEF YoungStampsAreHeld
  <2>4. stamp[p] > stamp[q] - Window
    BY <1>1, <2>1, <2>2
  <2>5. stamp[p] \in Held
    BY <2>3 DEF Held
  <2> QED
    BY <2>4, <2>5 DEF Pruned
<1>3. ASSUME NEW p \in A, NEW r \in A, stamp[p] = stamp[r] PROVE p = r
  BY <1>3 DEF AdmittedWithin, StampsDistinct
<1>4. f \in Injection(A, Pruned(q))
  <2> HIDE DEF A
  <2>1. f \in [A -> Pruned(q)]
    BY <1>2
  <2>2. \A p, r \in A : f[p] = f[r] => p = r
    BY <1>3
  <2> QED
    BY <2>1, <2>2 DEF Injection, IsInjective
<1>5. IsFiniteSet(Pruned(q))
  <2>1. IsFiniteSet(0 .. MaxTime)
    BY FS_Interval
  <2>2. Pruned(q) \in SUBSET (0 .. MaxTime)
    BY DEF Pruned, Held
  <2> QED
    BY <2>1, <2>2, FS_Subset
<1> QED
  BY <1>4, <1>5, FS_Injection

LEMMA BoundInit == Init => AdmissionBound
<1> SUFFICES ASSUME Init, NEW t \in Time
             PROVE  Cardinality(AdmittedWithin(Span, t)) <= Limit
  BY DEF AdmissionBound, Span
<1>1. AdmittedWithin(Span, t) = {}
  BY DEF Init, AdmittedWithin
<1> QED
  BY <1>1, FS_EmptySet, ConstantTypes

LEMMA BoundStep ==
  ASSUME Bookkeeping, AdmissionBound, [Next]_vars
  PROVE  AdmissionBound'
<1> SUFFICES ASSUME NEW t \in Time
             PROVE  Cardinality(AdmittedWithin(Span, t)') <= Limit
  BY DEF AdmissionBound, Span, AdmittedWithin
<1> USE ConstantTypes
<1>0. Cardinality(AdmittedWithin(Span, t)) <= Limit
  BY DEF AdmissionBound, Span
\* A step that lets nobody through.
<1>1. ASSUME \A q \in Requests : verdict'[q] = "admitted" =>
                verdict[q] = "admitted" /\ stamp'[q] = stamp[q]
      PROVE  Cardinality(AdmittedWithin(Span, t)') <= Limit
  <2>1. AdmittedWithin(Span, t)' \in SUBSET AdmittedWithin(Span, t)
    BY <1>1 DEF AdmittedWithin
  <2>2. /\ Cardinality(AdmittedWithin(Span, t)') <= Cardinality(AdmittedWithin(Span, t))
        /\ IsFiniteSet(AdmittedWithin(Span, t)')
    BY <2>1, AdmittedFinite, FS_Subset
  <2>3. Cardinality(AdmittedWithin(Span, t)') \in Nat
    BY <2>2, FS_CardinalityType
  <2> QED
    BY <1>0, <2>2, <2>3, AdmittedFinite
<1>2. ASSUME NEW q \in Requests, is_rate_limited(q)
      PROVE  Cardinality(AdmittedWithin(Span, t)') <= Limit
  <2>1. /\ Transaction(q) /\ UNCHANGED stamp
        /\ \A p \in Requests : p # q => verdict'[p] = verdict[p]
        /\ verdict'[q] = IF IsLimited(Cardinality(Pruned(q))) THEN "limited" ELSE "admitted"
    BY <1>2 DEF is_rate_limited, Transaction, Bookkeeping, TypeOK
  <2>2. CASE verdict'[q] = "admitted" /\ t - Span < stamp[q] /\ stamp[q] <= t
    <3>1. AdmittedWithin(Span, t)' \subseteq AdmittedWithin(Span, t) \cup {q}
      BY <2>1 DEF AdmittedWithin
    <3>2. /\ IsFiniteSet(Pruned(q))
          /\ Cardinality(AdmittedWithin(Span, t)) <= Cardinality(Pruned(q))
      BY <2>1, <2>2, AdmittedAreCounted
    <3>3. Cardinality(Pruned(q)) < Limit
      <4>1. ~ IsLimited(Cardinality(Pruned(q)))
        BY <2>1, <2>2
      <4>2. Cardinality(Pruned(q)) \in Nat
        BY <3>2, FS_CardinalityType
      <4> QED
        BY <4>1, <4>2 DEF IsLimited
    <3>4. /\ IsFiniteSet(AdmittedWithin(Span, t) \cup {q})
          /\ Cardinality(AdmittedWithin(Span, t) \cup {q})
                <= Cardinality(AdmittedWithin(Span, t)) + 1
      <4> DEFINE B == AdmittedWithin(Span, t)
      <4>1. IsFiniteSet(B) /\ Cardinality(B) \in Nat
        BY AdmittedFinite
      <4> HIDE DEF B
      <4>2. /\ IsFiniteSet(B \cup {q})
            /\ Cardinality(B \cup {q}) <= Cardinality(B) + 1
        <5>1. /\ IsFiniteSet(B \cup {q})
              /\ Cardinality(B \cup {q}) = IF q \in B THEN Cardinality(B) ELSE Cardinality(B) + 1
          BY <4>1, FS_AddElement, Zenon
        <5> QED
          BY <4>1, <5>1
      <4> QED
        BY <4>2 DEF B
    <3>5. /\ Cardinality(AdmittedWithin(Span, t)')
                <= Cardinality(AdmittedWithin(Span, t) \cup {q})
          /\ IsFiniteSet(AdmittedWithin(Span, t)')
      BY <3>1, <3>4, FS_Subset
    <3>6. /\ Cardinality(AdmittedWithin(Span, t)') \in Nat
          /\ Cardinality(AdmittedWithin(Span, t) \cup {q}) \in Nat
          /\ Cardinality(Pruned(q)) \in Nat
      BY <3>2, <3>4, <3>5, FS_CardinalityType
    <3> QED
      BY <3>2, <3>3, <3>4, <3>5, <3>6, AdmittedFinite
  <2>3. CASE ~(verdict'[q] = "admitted" /\ t - Span < stamp[q] /\ stamp[q] <= t)
    <3>1. AdmittedWithin(Span, t)' \in SUBSET AdmittedWithin(Span, t)
      BY <2>1, <2>3 DEF AdmittedWithin
    <3>2. /\ Cardinality(AdmittedWithin(Span, t)') <= Cardinality(AdmittedWithin(Span, t))
          /\ IsFiniteSet(AdmittedWithin(Span, t)')
      BY <3>1, AdmittedFinite, FS_Subset
    <3>3. Cardinality(AdmittedWithin(Span, t)') \in Nat
      BY <3>2, FS_CardinalityType
    <3> QED
      BY <1>0, <3>2, <3>3, AdmittedFinite
  <2> QED
    BY <2>2, <2>3
<1>3. CASE AdvanceClock
  BY <1>1, <1>3 DEF AdvanceClock
<1>4. ASSUME NEW q \in Requests, TakeTimestamp(q) \/ LoseReply(q) \/ Unreachable(q)
      PROVE  Cardinality(AdmittedWithin(Span, t)') <= Limit
  <2>1. \A p \in Requests : verdict'[p] = "admitted" =>
           verdict[p] = "admitted" /\ stamp'[p] = stamp[p]
    BY <1>4 DEF TakeTimestamp, LoseReply, Unreachable, Transaction, Bookkeeping, TypeOK
  <2> QED
    BY <1>1, <2>1
<1>5. CASE UNCHANGED vars
  BY <1>1, <1>5 DEF vars
<1> QED
  BY <1>2, <1>3, <1>4, <1>5 DEF Next

\* No matter how requests overtake each other, how replies get lost or when the
\* key expires, at most Limit requests are let through in any interval shorter
\* than the window by the greatest lag between timestamp and transaction.
THEOREM LimiterBound ==
  ASSUME FineClock
  PROVE  Spec => []AdmissionBound
<1>1. Init => IInv
  BY BookkeepingInit, BoundInit, IInvParts
<1>2. IInv /\ [Next]_vars => IInv'
  <2> SUFFICES ASSUME IInv, [Next]_vars PROVE IInv'
    OBVIOUS
  <2>1. Bookkeeping /\ AdmissionBound
    BY IInvParts
  <2>2. Bookkeeping' /\ AdmissionBound'
    BY <2>1, BookkeepingStep, BoundStep
  <2> QED
    BY <2>2 DEF IInv, Bookkeeping
<1>3. IInv => AdmissionBound
  BY DEF IInv
<1> QED
  BY <1>1, <1>2, <1>3, PTL DEF Spec

-----------------------------------------------------------------------------
(* Nobody is turned away on a quiet key.  Equal timestamps are no matter    *)
(* here: the limiter counts members, and each is some request's timestamp.  *)

\* What the sorted set holds was put there by transactions, and a request whose
\* transaction has run keeps its timestamp.
MembersAreLogged ==
    /\ zset \subseteq {stamp[p] : p \in logged}
    /\ \A p \in logged : verdict[p] # "new"

LoadInv ==
    /\ TypeOK
    /\ MembersAreLogged
    /\ LimitedOnlyUnderLoad

\* The recorded timestamps in q's window or later.
Recorded(q) == {stamp[p] : p \in {p \in logged : stamp[p] > stamp[q] - Window}}

LEMMA TypeInit == Init => TypeOK
BY ConstantTypes DEF Init, TypeOK, Time, Verdict

LEMMA TypeStep == TypeOK /\ [Next]_vars => TypeOK'
<1> SUFFICES ASSUME TypeOK, [Next]_vars PROVE TypeOK'
  OBVIOUS
<1> USE ConstantTypes DEF TypeOK, Time
<1>1. CASE AdvanceClock
  BY <1>1 DEF AdvanceClock
<1>2. ASSUME NEW q \in Requests, TakeTimestamp(q) PROVE TypeOK'
  BY <1>2 DEF TakeTimestamp, Verdict
<1>3. ASSUME NEW q \in Requests, Transaction(q), NEW outcome \in Verdict,
             verdict' = [verdict EXCEPT ![q] = outcome]
      PROVE  TypeOK'
  <2>1. Pruned(q) \subseteq Time
    BY DEF Pruned, Held
  <2>2. zset' \subseteq Time /\ expires' \in Nat /\ logged' \subseteq Requests
    BY <1>3, <2>1 DEF Transaction
  <2> QED
    BY <1>3, <2>2 DEF Transaction
<1>4. ASSUME NEW q \in Requests, is_rate_limited(q) PROVE TypeOK'
  <2> DEFINE outcome == IF IsLimited(Cardinality(Pruned(q))) THEN "limited" ELSE "admitted"
  <2>1. outcome \in Verdict
    BY DEF Verdict
  <2>2. Transaction(q) /\ verdict' = [verdict EXCEPT ![q] = outcome]
    BY <1>4 DEF is_rate_limited
  <2> HIDE DEF outcome
  <2> QED
    BY <1>3, <2>1, <2>2
<1>5. ASSUME NEW q \in Requests, LoseReply(q) PROVE TypeOK'
  BY <1>3, <1>5 DEF LoseReply, Verdict
<1>6. ASSUME NEW q \in Requests, Unreachable(q) PROVE TypeOK'
  BY <1>6 DEF Unreachable, Verdict
<1>7. CASE UNCHANGED vars
  BY <1>7 DEF vars
<1> QED
  BY <1>1, <1>2, <1>4, <1>5, <1>6, <1>7 DEF Next

\* Every behaviour is well typed, with equal timestamps or without.
THEOREM TypeCorrect == Spec => []TypeOK
BY TypeInit, TypeStep, PTL DEF Spec

LEMMA MembersStep ==
  ASSUME TypeOK, MembersAreLogged, [Next]_vars
  PROVE  /\ MembersAreLogged'
         /\ logged \subseteq logged'
         /\ \A p \in logged : stamp'[p] = stamp[p]
<1> USE DEF TypeOK, MembersAreLogged
<1>1. ASSUME NEW q \in Requests, TakeTimestamp(q)
      PROVE  /\ MembersAreLogged'
             /\ UNCHANGED logged
             /\ \A p \in logged : stamp'[p] = stamp[p]
  <2>1. \A p \in logged : p # q /\ stamp'[p] = stamp[p] /\ verdict'[p] = verdict[p]
    BY <1>1 DEF TakeTimestamp
  <2> QED
    BY <1>1, <2>1 DEF TakeTimestamp
<1>2. ASSUME NEW q \in Requests, Transaction(q), NEW outcome \in Verdict \ {"new"},
             verdict' = [verdict EXCEPT ![q] = outcome]
      PROVE  /\ MembersAreLogged'
             /\ logged \subseteq logged' /\ UNCHANGED stamp
  <2>1. /\ logged' = logged \cup {q} /\ UNCHANGED stamp
        /\ zset' = Pruned(q) \cup {stamp[q]}
        /\ Pruned(q) \subseteq zset
    BY <1>2 DEF Transaction, Pruned, Held
  <2> QED
    BY <1>2, <2>1
<1>3. ASSUME NEW q \in Requests, is_rate_limited(q)
      PROVE  MembersAreLogged' /\ logged \subseteq logged' /\ UNCHANGED stamp
  <2> DEFINE outcome == IF IsLimited(Cardinality(Pruned(q))) THEN "limited" ELSE "admitted"
  <2>1. outcome \in Verdict \ {"new"}
    BY DEF Verdict
  <2>2. Transaction(q) /\ verdict' = [verdict EXCEPT ![q] = outcome]
    BY <1>3 DEF is_rate_limited
  <2> HIDE DEF outcome
  <2> QED
    BY <1>2, <2>1, <2>2
<1>4. ASSUME NEW q \in Requests, LoseReply(q)
      PROVE  MembersAreLogged' /\ logged \subseteq logged' /\ UNCHANGED stamp
  BY <1>2, <1>4 DEF LoseReply, Verdict
<1>5. CASE AdvanceClock \/ (\E q \in Requests : Unreachable(q)) \/ UNCHANGED vars
  BY <1>5 DEF AdvanceClock, Unreachable, vars
<1> QED
  BY <1>1, <1>3, <1>4, <1>5 DEF Next

\* A recorded window never shrinks once its request is itself recorded.
LEMMA RecordedGrows ==
  ASSUME TypeOK, TypeOK', NEW q \in Requests, stamp'[q] = stamp[q],
         logged \subseteq logged', \A p \in logged : stamp'[p] = stamp[p],
         NEW S \in SUBSET Recorded(q)
  PROVE  /\ IsFiniteSet(Recorded(q)')
         /\ Cardinality(Recorded(q)') \in Nat
         /\ IsFiniteSet(S) /\ Cardinality(S) \in Nat
         /\ Cardinality(S) <= Cardinality(Recorded(q)')
<1>1. IsFiniteSet(0 .. MaxTime)
  BY ConstantTypes, FS_Interval
<1>2. Recorded(q)' \in SUBSET (0 .. MaxTime)
  BY DEF Recorded, TypeOK, Time
<1>3. IsFiniteSet(Recorded(q)')
  BY <1>1, <1>2, FS_Subset
<1>4. S \in SUBSET (Recorded(q)')
  BY DEF Recorded
<1>5. IsFiniteSet(S) /\ Cardinality(S) <= Cardinality(Recorded(q)')
  BY <1>3, <1>4, FS_Subset
<1> QED
  BY <1>3, <1>5, FS_CardinalityType

\* What the transaction counts are recorded timestamps of the window.
LEMMA CountedAreRecorded ==
  ASSUME TypeOK, MembersAreLogged, NEW q \in Requests
  PROVE  Pruned(q) \in SUBSET Recorded(q)
<1> SUFFICES ASSUME NEW t \in Pruned(q) PROVE t \in Recorded(q)
  OBVIOUS
<1>1. t \in zset /\ t > stamp[q] - Window
  BY DEF Pruned, Held
<1>2. PICK p \in logged : t = stamp[p]
  BY <1>1 DEF MembersAreLogged
<1> QED
  BY <1>1, <1>2 DEF Recorded

LEMMA LoadStep ==
  ASSUME LoadInv, [Next]_vars
  PROVE  LoadInv'
<1> USE ConstantTypes
<1>1. TypeOK /\ MembersAreLogged /\ TypeOK' /\ MembersAreLogged'
  BY TypeStep, MembersStep DEF LoadInv
<1>2. logged \subseteq logged' /\ \A p \in logged : stamp'[p] = stamp[p]
  BY <1>1, MembersStep
<1>3. ASSUME NEW q \in Requests, verdict'[q] = "limited"
      PROVE  Cardinality(Recorded(q)') >= Limit
  <2>1. CASE verdict[q] = "limited"
    <3>1. stamp'[q] = stamp[q]
      BY <1>1, <2>1 DEF Next, vars, AdvanceClock, TakeTimestamp, is_rate_limited, LoseReply,
         Transaction, Unreachable, TypeOK
    <3>2. Cardinality(Recorded(q)) >= Limit
      BY <2>1 DEF LoadInv, LimitedOnlyUnderLoad, Recorded
    <3>3. Recorded(q) \in SUBSET Recorded(q)
      OBVIOUS
    <3>4. /\ Cardinality(Recorded(q)) \in Nat /\ Cardinality(Recorded(q)') \in Nat
          /\ Cardinality(Recorded(q)) <= Cardinality(Recorded(q)')
      BY <1>1, <1>2, <3>1, <3>3, RecordedGrows
    <3> QED
      BY <3>2, <3>4
  <2>2. CASE verdict[q] # "limited"
    <3>1. is_rate_limited(q)
      BY <1>1, <1>3, <2>2 DEF Next, vars, AdvanceClock, TakeTimestamp, is_rate_limited,
         LoseReply, Transaction, Unreachable, TypeOK
    <3>2. stamp'[q] = stamp[q] /\ IsLimited(Cardinality(Pruned(q)))
      BY <1>1, <1>3, <3>1 DEF is_rate_limited, Transaction, TypeOK
    <3>3. Cardinality(Pruned(q)) >= Limit
      BY <3>2 DEF IsLimited
    <3>4. /\ Cardinality(Pruned(q)) \in Nat /\ Cardinality(Recorded(q)') \in Nat
          /\ Cardinality(Pruned(q)) <= Cardinality(Recorded(q)')
      BY <1>1, <1>2, <3>2, CountedAreRecorded, RecordedGrows
    <3> QED
      BY <3>3, <3>4
  <2> QED
    BY <2>1, <2>2
<1> QED
  BY <1>1, <1>3 DEF LoadInv, LimitedOnlyUnderLoad, Recorded

\* Whoever is turned away shares its window, or a later time, with at least
\* Limit recorded timestamps: overtaking, lost replies, retries and expiry may
\* let a request through, but never refuse one on a quiet key.
THEOREM RefusalsAreEarned == Spec => []LimitedOnlyUnderLoad
<1>1. Init => LoadInv
  BY TypeInit DEF Init, LoadInv, MembersAreLogged, LimitedOnlyUnderLoad
<1>2. LoadInv /\ [Next]_vars => LoadInv'
  BY LoadStep
<1>3. LoadInv => LimitedOnlyUnderLoad
  BY DEF LoadInv
<1> QED
  BY <1>1, <1>2, <1>3, PTL DEF Spec

=============================================================================
