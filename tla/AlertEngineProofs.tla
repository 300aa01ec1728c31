------------------------- MODULE AlertEngineProofs -------------------------
(***************************************************************************)
(* Proofs about AlertEngine, for every number of rules, requests, events   *)
(* and crashes.                                                            *)
(***************************************************************************)
EXTENDS AlertEngine, FiniteSetTheorems, TLAPS

\* The events table is finite, so that counting its rows makes sense.
TypeInv == TypeOK /\ IsFiniteSet(events)

LEMMA NoRowType == NoRow \in AlertRule /\ NoRow.status = "active"
<1>1. PICK name \in EventNames, threshold \in Thresholds, window \in TimeWindows : TRUE
  BY AlertConstants
<1>2. [status |-> "active", event_name |-> name,
       threshold |-> threshold, time_window_minutes |-> window] \in AlertRule
  BY <1>1 DEF AlertRule, AlertStatus
<1>3. \E object \in AlertRule : object.status = "active"
  BY <1>2
<1> QED
  BY <1>3 DEF NoRow

LEMMA NoRowsType == NoRows \in [Rules -> AlertRule]
BY NoRowType DEF NoRows

LEMMA BoundsAreNat ==
    /\ MaxTime \in Nat /\ MaxEvents \in Nat /\ MaxTicks \in Nat
    /\ MaxUpdates \in Nat /\ MaxCrashes \in Nat
BY AlertConstants

\* What a count over the events table returns.
LEMMA CountType ==
  ASSUME IsFiniteSet(events), NEW name, NEW start
  PROVE  count_events_in_window(name, start) \in Nat
<1> DEFINE counted == {e \in events : e.event_name = name /\ e.timestamp >= start}
<1>1. IsFiniteSet(counted)
  BY FS_Subset
<1> QED
  BY <1>1, FS_CardinalityType DEF count_events_in_window

\* What an UPDATE of the changed columns leaves in the row.
LEMMA FlushType ==
  ASSUME NEW current \in AlertRule, NEW loaded \in AlertRule, NEW patched \in AlertRule
  PROVE  FlushColumns(current, loaded, patched) \in AlertRule
BY DEF FlushColumns, AlertRule

\* A PUT that carries no status leaves the stored one alone.
LEMMA FlushKeepsStatus ==
  ASSUME NEW current \in AlertRule, NEW loaded \in AlertRule, NEW patched \in AlertRule,
         patched.status = loaded.status
  PROVE  FlushColumns(current, loaded, patched).status = current.status
BY DEF FlushColumns, AlertRule

-----------------------------------------------------------------------------
(* Type correctness.                                                       *)

LEMMA TypeInit == Init => TypeInv
<1> SUFFICES ASSUME Init PROVE TypeInv
  OBVIOUS
<1> USE DEF Init
<1>1. IsFiniteSet(events)
  BY FS_EmptySet
<1>2. clock \in Time /\ ticks \in 0 .. MaxTicks
  BY BoundsAreNat DEF Time
<1>3. updates \in 0 .. MaxUpdates /\ crashes \in 0 .. MaxCrashes
  BY BoundsAreNat
<1>4. tick \in [Workers -> Tick]
  BY BoundsAreNat DEF IdleTick, Tick, Time
<1>5. row \in [Rules -> AlertRule] /\ snapshot \in [Workers -> [Rules -> AlertRule]]
  BY NoRowsType
<1>6. history \in [Rules -> Seq(AlertHistory)]
  OBVIOUS
<1> QED
  BY <1>1, <1>2, <1>3, <1>4, <1>5, <1>6 DEF TypeInv, TypeOK

LEMMA IdleTickType == IdleTick \in Tick
BY BoundsAreNat DEF IdleTick, Tick, Time

LEMMA TickUpdateType ==
  ASSUME NEW t \in Tick, NEW todo \in SUBSET Rules, NEW staged \in SUBSET Flip
  PROVE  /\ [t EXCEPT !.todo = todo, !.staged = staged] \in Tick
         /\ [t EXCEPT !.staged = staged] \in Tick
BY DEF Tick

LEMMA StatusUpdateType ==
  ASSUME NEW object \in AlertRule, NEW status \in AlertStatus
  PROVE  [object EXCEPT !.status = status] \in AlertRule
BY DEF AlertRule

LEMMA TypeStep == TypeInv /\ [Next]_vars => TypeInv'
<1> SUFFICES ASSUME TypeInv, [Next]_vars PROVE TypeInv'
  OBVIOUS
<1> USE DEF TypeInv, TypeOK
<1>1. CASE AdvanceClock
  <2>1. clock' \in Time
    BY <1>1, BoundsAreNat DEF AdvanceClock, Time
  <2> QED
    BY <1>1, <2>1 DEF AdvanceClock, dbVars, workerVars, boundVars
<1>2. ASSUME NEW name \in EventNames, NEW ts \in Time, create_events_batch(name, ts)
      PROVE  TypeInv'
  <2> DEFINE fresh == [id |-> Cardinality(events) + 1, event_name |-> name, timestamp |-> ts]
  <2>1. Cardinality(events) \in Nat
    BY FS_CardinalityType
  <2>2. fresh \in Event
    BY <1>2, <2>1, BoundsAreNat DEF create_events_batch, Event
  <2>3. IsFiniteSet(events \cup {fresh})
    BY FS_AddElement
  <2> QED
    BY <1>2, <2>2, <2>3 DEF create_events_batch, dbVars, workerVars, boundVars
<1>3. CASE Beat
  BY <1>3, BoundsAreNat DEF Beat, dbVars, workerVars, boundVars
<1>4. ASSUME NEW w \in Workers, list_active_and_triggered_rules(w) PROVE TypeInv'
  <2> DEFINE rules == {r \in live : row[r].status \in Monitored}
  <2>1. [busy |-> TRUE, todo |-> rules, now |-> clock, staged |-> {}] \in Tick
    BY DEF Tick
  <2>2. tick' \in [Workers -> Tick]
    BY <1>4, <2>1 DEF list_active_and_triggered_rules, RulesToEvaluate
  <2>3. ticks' \in 0 .. MaxTicks
    BY <1>4, BoundsAreNat DEF list_active_and_triggered_rules
  <2>4. snapshot' \in [Workers -> [Rules -> AlertRule]]
    BY <1>4 DEF list_active_and_triggered_rules
  <2> QED
    BY <1>4, <2>2, <2>3, <2>4 DEF list_active_and_triggered_rules, dbVars, boundVars
<1>5. ASSUME NEW w \in Workers, NEW r \in Rules, EvaluateRule(w, r) PROVE TypeInv'
  <2> DEFINE object == snapshot[w][r]
             count == count_events_in_window(object.event_name,
                                             tick[w].now - object.time_window_minutes)
             staged == IF object.status # EvaluatedStatus(object, count)
                       THEN {[rule |-> r, value |-> count]} ELSE {}
  <2>1. count \in Nat
    BY CountType
  <2>2. staged \in SUBSET Flip
    BY <2>1 DEF Flip
  <2>3. tick' = [tick EXCEPT ![w].todo = @ \ {r}, ![w].staged = staged]
    BY <1>5 DEF EvaluateRule, RemainingRules, StagedFlip, Disagrees, WindowCount
  <2>4. [tick[w] EXCEPT !.todo = tick[w].todo \ {r}, !.staged = staged] \in Tick
    <3>1. tick[w].todo \ {r} \in SUBSET Rules
      BY DEF Tick
    <3> QED
      BY <2>2, <3>1, TickUpdateType
  <2>5. tick' \in [Workers -> Tick]
    BY <2>3, <2>4
  <2> QED
    BY <1>5, <2>5 DEF EvaluateRule, dbVars, boundVars
<1>6. ASSUME NEW w \in Workers, create_history_log(w) PROVE TypeInv'
  <2>1. PICK flip \in tick[w].staged :
          LET r == flip.rule
              status == EvaluatedStatus(snapshot[w][r], flip.value)
              logged == IF status = "triggered" THEN "triggered" ELSE "resolved"
          IN  /\ r \in live
              /\ row' = [row EXCEPT ![r].status = status]
              /\ history' = [history EXCEPT ![r] =
                    Append(@, [status_at_trigger |-> logged, triggered_value |-> flip.value])]
    BY <1>6 DEF create_history_log, FlippedRow, LoggedFeed
  <2>2. flip \in Flip
    BY DEF Tick
  <2>3. row' \in [Rules -> AlertRule]
    <3>1. /\ flip.rule \in Rules
          /\ EvaluatedStatus(snapshot[w][flip.rule], flip.value) \in AlertStatus
      BY <2>2 DEF Flip, EvaluatedStatus, AlertStatus
    <3> QED
      BY <2>1, <3>1, StatusUpdateType
  <2>4. history' \in [Rules -> Seq(AlertHistory)]
    BY <2>1, <2>2 DEF Flip, EvaluatedStatus, AlertHistory
  <2>5. tick' \in [Workers -> Tick]
    <3>1. [tick[w] EXCEPT !.staged = {}] \in Tick
      BY TickUpdateType
    <3> QED
      BY <1>6, <3>1 DEF create_history_log
  <2> QED
    BY <1>6, <2>3, <2>4, <2>5 DEF create_history_log, boundVars
<1>7. ASSUME NEW w \in Workers, AbortTick(w) PROVE TypeInv'
  BY <1>7, IdleTickType, NoRowsType DEF AbortTick, dbVars, boundVars
<1>8. ASSUME NEW w \in Workers, FinishTick(w) PROVE TypeInv'
  BY <1>8, IdleTickType, NoRowsType DEF FinishTick, dbVars, boundVars
<1>9. ASSUME NEW w \in Workers, CrashWorker(w) PROVE TypeInv'
  <2>1. crashes' \in 0 .. MaxCrashes
    BY <1>9, BoundsAreNat DEF CrashWorker
  <2> QED
    BY <1>9, <2>1, IdleTickType, NoRowsType DEF CrashWorker, dbVars
<1>10. ASSUME NEW r \in Rules, NEW object \in AlertRule, create_rule(r, object) PROVE TypeInv'
  BY <1>10 DEF create_rule, workerVars, boundVars
<1>11. ASSUME NEW a \in Admins, NEW r \in Rules, get_rule(a, r) PROVE TypeInv'
  <2>1. [rule |-> r, object |-> row[r]] \in Loaded
    BY DEF Loaded
  <2> QED
    BY <1>11, <2>1 DEF get_rule, dbVars, workerVars, boundVars
<1>12. ASSUME NEW a \in Admins, NEW patched \in AlertRule, update_rule(a, patched)
       PROVE  TypeInv'
  <2>1. PICK loaded \in request[a] :
          row' = IF loaded.rule \in live
                 THEN [row EXCEPT ![loaded.rule] = FlushColumns(@, loaded.object, patched)]
                 ELSE row
    BY <1>12 DEF update_rule
  <2>2. loaded.rule \in Rules /\ loaded.object \in AlertRule
    BY DEF Loaded
  <2>3. row' \in [Rules -> AlertRule]
    <3>1. FlushColumns(row[loaded.rule], loaded.object, patched) \in AlertRule
      BY <2>2, FlushType
    <3> QED
      BY <2>1, <2>2, <3>1
  <2>4. updates' \in 0 .. MaxUpdates
    BY <1>12, BoundsAreNat DEF update_rule
  <2> QED
    BY <1>12, <2>3, <2>4 DEF update_rule, workerVars
<1>13. ASSUME NEW a \in Admins, delete_rule(a) PROVE TypeInv'
  BY <1>13, NoRowType DEF delete_rule, PurgedHistory, Loaded, workerVars, boundVars
<1>14. CASE UNCHANGED vars
  BY <1>14 DEF vars, dbVars, workerVars, boundVars
<1> QED
  BY <1>1, <1>2, <1>3, <1>4, <1>5, <1>6, <1>7, <1>8, <1>9, <1>10, <1>11, <1>12, <1>13, <1>14
     DEF Next, WorkerStep, AdminStep

\* Every behaviour is well typed: rows keep their columns in range, ids never
\* outlive their creation, and the event count the evaluator compares with a
\* threshold is always a number.
THEOREM TypeCorrect == Spec => []TypeOK
<1>1. Init => TypeInv
  BY TypeInit
<1>2. TypeInv /\ [Next]_vars => TypeInv'
  BY TypeStep
<1>3. TypeInv => TypeOK
  BY DEF TypeInv
<1> QED
  BY <1>1, <1>2, <1>3, PTL DEF Spec

-----------------------------------------------------------------------------
(* The feed of a rule, when evaluations do not overlap and no request       *)
(* writes a status.                                                        *)

SoleEvaluator ==
    /\ \A v, w \in Workers : v = w
    /\ StatusWrites = {}

\* The part of IInv that is not about types.
FeedInv ==
    /\ SessionsAreCurrent
    /\ DeletedRulesHaveNoFeed
    /\ StatusAgreesWithFeed
    /\ FeedAlternates

LEMMA IInvParts == IInv <=> TypeInv /\ FeedInv
BY DEF IInv, TypeInv, FeedInv

LEMMA FeedInit == Init => FeedInv
BY DEF Init, FeedInv, SessionsAreCurrent, DeletedRulesHaveNoFeed,
       StatusAgreesWithFeed, FeedAlternates, IdleTick

LEMMA Parity == \A n \in Nat : (n + 1) % 2 = 1 <=> n % 2 # 1
OBVIOUS

\* Appending to one rule's feed.
LEMMA AppendToFeed ==
  ASSUME TypeInv, NEW r \in Rules, NEW entry \in AlertHistory,
         history' = [history EXCEPT ![r] = Append(@, entry)]
  PROVE  /\ \A q \in Rules \ {r} : history'[q] = history[q]
         /\ Len(history[r]) \in Nat
         /\ Len(history'[r]) = Len(history[r]) + 1
         /\ history'[r][Len(history[r]) + 1] = entry
         /\ \A i \in 1 .. Len(history[r]) : history'[r][i] = history[r][i]
<1>1. history[r] \in Seq(AlertHistory) /\ history'[r] = Append(history[r], entry)
  BY DEF TypeInv, TypeOK
<1>2. \A q \in Rules \ {r} : history'[q] = history[q]
  BY DEF TypeInv, TypeOK
<1> QED
  BY <1>1, <1>2

\* A session that ends forgets everything it would have written.
LEMMA SessionEnds ==
  ASSUME TypeInv, FeedInv, NEW w \in Workers,
         tick' = [tick EXCEPT ![w] = IdleTick],
         snapshot' = [snapshot EXCEPT ![w] = NoRows],
         UNCHANGED dbVars
  PROVE  FeedInv'
<1> USE DEF dbVars
<1>1. SessionsAreCurrent'
  BY DEF FeedInv, SessionsAreCurrent, IdleTick, TypeInv, TypeOK
<1> QED
  BY <1>1 DEF FeedInv, DeletedRulesHaveNoFeed, StatusAgreesWithFeed, FeedAlternates

\* Steps that touch neither the tables nor a worker's session.
LEMMA FeedFrame ==
  ASSUME FeedInv, UNCHANGED <<dbVars, workerVars>>
  PROVE  FeedInv'
BY DEF FeedInv, SessionsAreCurrent, DeletedRulesHaveNoFeed, StatusAgreesWithFeed,
       FeedAlternates, dbVars, workerVars

LEMMA LoadKeepsFeed ==
  ASSUME TypeInv, FeedInv, NEW w \in Workers, list_active_and_triggered_rules(w)
  PROVE  FeedInv'
<1> USE DEF TypeInv, TypeOK
<1>1. UNCHANGED dbVars
  BY DEF list_active_and_triggered_rules
<1>2. ASSUME NEW v \in Workers
      PROVE  /\ tick'[v].todo \subseteq created
             /\ \A r \in tick'[v].todo \cap live : snapshot'[v][r].status = row[r].status
             /\ v = w => tick'[v].staged = {}
             /\ v # w => tick'[v] = tick[v] /\ snapshot'[v] = snapshot[v]
  BY DEF list_active_and_triggered_rules, RulesToEvaluate, FeedInv, SessionsAreCurrent
<1>3. SessionsAreCurrent'
  BY <1>1, <1>2 DEF SessionsAreCurrent, FeedInv, dbVars
<1> QED
  BY <1>1, <1>3 DEF FeedInv, DeletedRulesHaveNoFeed, StatusAgreesWithFeed, FeedAlternates, dbVars

LEMMA EvaluateKeepsFeed ==
  ASSUME TypeInv, FeedInv, NEW w \in Workers, NEW r \in Rules, EvaluateRule(w, r)
  PROVE  FeedInv'
<1> DEFINE object == snapshot[w][r]
           count == count_events_in_window(object.event_name,
                                           tick[w].now - object.time_window_minutes)
           staged == IF object.status # EvaluatedStatus(object, count)
                     THEN {[rule |-> r, value |-> count]} ELSE {}
<1>1. UNCHANGED <<dbVars, snapshot>> /\ r \in tick[w].todo
  BY DEF EvaluateRule
<1>2. tick' = [tick EXCEPT ![w].todo = @ \ {r}, ![w].staged = staged]
  BY DEF EvaluateRule, RemainingRules, StagedFlip, Disagrees, WindowCount
<1>3. /\ tick'[w].todo = tick[w].todo \ {r}
      /\ tick'[w].staged = staged
      /\ \A v \in Workers \ {w} : tick'[v] = tick[v]
  BY <1>2 DEF TypeInv, TypeOK, Tick
<1>4. /\ r \in created
      /\ r \in live => object.status = row[r].status
  BY <1>1 DEF FeedInv, SessionsAreCurrent
<1>5. ASSUME NEW flip \in tick'[w].staged
      PROVE  /\ flip.rule = r
             /\ object.status # EvaluatedStatus(object, flip.value)
  <2> HIDE DEF object, count
  <2> QED
    BY <1>3
<1>6. SessionsAreCurrent'
  <2> HIDE DEF staged, object
  <2>1. ASSUME NEW v \in Workers, v # w
        PROVE  /\ tick'[v].todo \subseteq created'
               /\ \A q \in tick'[v].todo \cap live' : snapshot'[v][q].status = row'[q].status
               /\ \A flip \in tick'[v].staged :
                     /\ flip.rule \in created' \ tick'[v].todo
                     /\ snapshot'[v][flip.rule].status
                           # EvaluatedStatus(snapshot'[v][flip.rule], flip.value)
                     /\ flip.rule \in live' =>
                           snapshot'[v][flip.rule].status = row'[flip.rule].status
    BY <1>1, <1>3, <2>1 DEF FeedInv, SessionsAreCurrent, dbVars
  <2>2. /\ tick'[w].todo \subseteq created'
        /\ \A q \in tick'[w].todo \cap live' : snapshot'[w][q].status = row'[q].status
    BY <1>1, <1>3 DEF FeedInv, SessionsAreCurrent, dbVars
  <2>3. \A flip \in tick'[w].staged :
           /\ flip.rule \in created' \ tick'[w].todo
           /\ snapshot'[w][flip.rule].status
                 # EvaluatedStatus(snapshot'[w][flip.rule], flip.value)
           /\ flip.rule \in live' =>
                 snapshot'[w][flip.rule].status = row'[flip.rule].status
    BY <1>1, <1>3, <1>4, <1>5 DEF dbVars, object
  <2> QED
    BY <2>1, <2>2, <2>3 DEF SessionsAreCurrent
<1> QED
  BY <1>1, <1>6 DEF FeedInv, DeletedRulesHaveNoFeed, StatusAgreesWithFeed, FeedAlternates, dbVars

\* The committed flip: what create_history_log does to the tables.  With a sole
\* evaluator the staged status is the opposite of the stored one.
LEMMA FlipCommits ==
  ASSUME TypeInv, FeedInv, NEW w \in Workers, create_history_log(w)
  PROVE  \E r \in live, value \in Nat :
            LET raised == row[r].status = "active"
                entry == [status_at_trigger |-> IF raised THEN "triggered" ELSE "resolved",
                          triggered_value |-> value]
            IN  /\ r \notin tick[w].todo
                /\ row[r].status \in {"active", "triggered"}
                /\ row' = [row EXCEPT ![r].status = IF raised THEN "triggered" ELSE "active"]
                /\ history' = [history EXCEPT ![r] = Append(@, entry)]
<1>1. PICK flip \in tick[w].staged :
        LET r == flip.rule
            status == EvaluatedStatus(snapshot[w][r], flip.value)
            logged == IF status = "triggered" THEN "triggered" ELSE "resolved"
        IN  /\ r \in live
            /\ row' = [row EXCEPT ![r].status = status]
            /\ history' = [history EXCEPT ![r] =
                  Append(@, [status_at_trigger |-> logged, triggered_value |-> flip.value])]
  BY DEF create_history_log, FlippedRow, LoggedFeed
<1> DEFINE status == EvaluatedStatus(snapshot[w][flip.rule], flip.value)
<1>2. flip \in Flip
  BY DEF TypeInv, TypeOK, Tick
<1>3. /\ flip.rule \notin tick[w].todo
      /\ status # row[flip.rule].status
  BY <1>1 DEF FeedInv, SessionsAreCurrent
<1>4. status \in {"active", "triggered"}
  BY DEF EvaluatedStatus
<1>5. row[flip.rule].status \in {"active", "triggered"}
  BY <1>1 DEF FeedInv, StatusAgreesWithFeed
<1>6. status = IF row[flip.rule].status = "active" THEN "triggered" ELSE "active"
  BY <1>3, <1>4, <1>5
<1>7. flip.rule \in live /\ flip.value \in Nat
  BY <1>1, <1>2 DEF Flip
<1>8. row' = [row EXCEPT ![flip.rule].status =
                 IF row[flip.rule].status = "active" THEN "triggered" ELSE "active"]
  BY <1>1, <1>6
<1>9. (IF status = "triggered" THEN "triggered" ELSE "resolved")
         = (IF row[flip.rule].status = "active" THEN "triggered" ELSE "resolved")
  BY <1>5, <1>6
<1>10. history' = [history EXCEPT ![flip.rule] = Append(@,
          [status_at_trigger |-> IF row[flip.rule].status = "active"
                                 THEN "triggered" ELSE "resolved",
           triggered_value |-> flip.value])]
  BY <1>1, <1>9
<1> QED
  BY <1>3, <1>5, <1>7, <1>8, <1>10

LEMMA FlipKeepsFeed ==
  ASSUME SoleEvaluator, TypeInv, FeedInv, NEW w \in Workers, create_history_log(w)
  PROVE  FeedInv'
<1>1. PICK r \in live, value \in Nat :
        LET raised == row[r].status = "active"
            entry == [status_at_trigger |-> IF raised THEN "triggered" ELSE "resolved",
                      triggered_value |-> value]
        IN  /\ r \notin tick[w].todo
            /\ row[r].status \in {"active", "triggered"}
            /\ row' = [row EXCEPT ![r].status = IF raised THEN "triggered" ELSE "active"]
            /\ history' = [history EXCEPT ![r] = Append(@, entry)]
  BY FlipCommits
<1> DEFINE raised == row[r].status = "active"
           entry == [status_at_trigger |-> IF raised THEN "triggered" ELSE "resolved",
                     triggered_value |-> value]
<1>2. r \in Rules /\ UNCHANGED <<live, created, snapshot>>
  BY DEF create_history_log, TypeInv, TypeOK
<1>3. entry \in AlertHistory
  BY DEF AlertHistory
<1>4. /\ \A q \in Rules \ {r} : history'[q] = history[q]
      /\ Len(history[r]) \in Nat
      /\ Len(history'[r]) = Len(history[r]) + 1
      /\ history'[r][Len(history[r]) + 1] = entry
      /\ \A i \in 1 .. Len(history[r]) : history'[r][i] = history[r][i]
  <2> HIDE DEF entry
  <2>1. history' = [history EXCEPT ![r] = Append(@, entry)]
    BY <1>1 DEF entry
  <2> QED
    BY <1>2, <1>3, <2>1, AppendToFeed
<1>5. /\ row'[r].status = IF raised THEN "triggered" ELSE "active"
      /\ \A q \in Rules \ {r} : row'[q] = row[q]
  BY <1>1, <1>2 DEF TypeInv, TypeOK, AlertRule
<1>6. raised <=> Len(history[r]) % 2 # 1
  BY <1>1 DEF FeedInv, StatusAgreesWithFeed
<1>7. StatusAgreesWithFeed'
  <2>1. row'[r].status = IF Len(history'[r]) % 2 = 1 THEN "triggered" ELSE "active"
    BY <1>4, <1>5, <1>6, Parity
  <2>2. \A q \in live \ {r} :
           row'[q].status = IF Len(history'[q]) % 2 = 1 THEN "triggered" ELSE "active"
    BY <1>4, <1>5 DEF FeedInv, StatusAgreesWithFeed, TypeInv, TypeOK
  <2> QED
    BY <1>2, <2>1, <2>2 DEF StatusAgreesWithFeed
<1>8. FeedAlternates'
  <2>1. ASSUME NEW i \in 1 .. Len(history'[r])
        PROVE  history'[r][i].status_at_trigger
                  = IF i % 2 = 1 THEN "triggered" ELSE "resolved"
    <3>1. CASE i = Len(history[r]) + 1
      <4>1. i % 2 = 1 <=> raised
        BY <1>4, <1>6, <3>1, Parity
      <4>2. history'[r][i] = entry
        BY <1>4, <3>1
      <4> QED
        BY <4>1, <4>2
    <3>2. CASE i # Len(history[r]) + 1
      <4>1. i \in 1 .. Len(history[r])
        BY <1>4, <3>2
      <4>2. history'[r][i] = history[r][i]
        BY <1>4, <4>1
      <4>3. history[r][i].status_at_trigger = IF i % 2 = 1 THEN "triggered" ELSE "resolved"
        BY <1>2, <4>1 DEF FeedInv, FeedAlternates
      <4> QED
        BY <4>2, <4>3
    <3> QED
      BY <3>1, <3>2
  <2> QED
    BY <1>4, <2>1 DEF FeedInv, FeedAlternates
<1>9. DeletedRulesHaveNoFeed'
  BY <1>2, <1>4 DEF FeedInv, DeletedRulesHaveNoFeed
<1>10. /\ tick'[w].staged = {} /\ tick'[w].todo = tick[w].todo
       /\ \A v \in Workers : v = w
  BY DEF create_history_log, SoleEvaluator, TypeInv, TypeOK, Tick
<1>11. SessionsAreCurrent'
  BY <1>1, <1>2, <1>5, <1>10 DEF FeedInv, SessionsAreCurrent, TypeInv, TypeOK
<1> QED
  BY <1>7, <1>8, <1>9, <1>11 DEF FeedInv

LEMMA CreateKeepsFeed ==
  ASSUME TypeInv, FeedInv, NEW r \in Rules, NEW object \in AlertRule, create_rule(r, object)
  PROVE  FeedInv'
<1> USE DEF TypeInv, TypeOK
<1>1. /\ r \notin created /\ r \notin live
      /\ live' = live \cup {r} /\ created' = created \cup {r}
      /\ row'[r].status = "active" /\ \A q \in Rules \ {r} : row'[q] = row[q]
      /\ UNCHANGED <<history, tick, snapshot>>
  BY DEF create_rule, NewRuleStatus, workerVars
<1>2. history[r] = <<>> /\ Len(history[r]) % 2 # 1
  <2>1. history[r] = <<>>
    BY <1>1 DEF FeedInv, DeletedRulesHaveNoFeed
  <2>2. Len(history[r]) = 0
    BY <2>1
  <2> QED
    BY <2>1, <2>2
<1>3. SessionsAreCurrent'
  BY <1>1 DEF FeedInv, SessionsAreCurrent
<1>4. StatusAgreesWithFeed'
  BY <1>1, <1>2 DEF FeedInv, StatusAgreesWithFeed
<1> QED
  BY <1>1, <1>3, <1>4 DEF FeedInv, DeletedRulesHaveNoFeed, FeedAlternates

LEMMA DeleteKeepsFeed ==
  ASSUME TypeInv, FeedInv, NEW a \in Admins, delete_rule(a)
  PROVE  FeedInv'
<1> USE DEF TypeInv, TypeOK
<1>1. PICK loaded \in request[a] :
        /\ live' = live \ {loaded.rule}
        /\ row' = [row EXCEPT ![loaded.rule] = NoRow]
        /\ history' = [history EXCEPT ![loaded.rule] = <<>>]
  BY DEF delete_rule, PurgedHistory
<1> DEFINE r == loaded.rule
<1>0. r \in Rules
  BY DEF Loaded
<1> HIDE DEF r
<1>2. UNCHANGED <<created, tick, snapshot>>
  BY DEF delete_rule, workerVars
<1>3. /\ live' = live \ {r}
      /\ history'[r] = <<>> /\ Len(history'[r]) = 0
      /\ \A q \in Rules \ {r} : row'[q] = row[q] /\ history'[q] = history[q]
  <2>1. history'[r] = <<>>
    BY <1>0, <1>1 DEF r
  <2> QED
    BY <1>0, <1>1, <2>1 DEF r
<1>4. SessionsAreCurrent'
  BY <1>2, <1>3 DEF FeedInv, SessionsAreCurrent
<1>5. DeletedRulesHaveNoFeed'
  BY <1>3 DEF FeedInv, DeletedRulesHaveNoFeed
<1>6. StatusAgreesWithFeed'
  BY <1>3 DEF FeedInv, StatusAgreesWithFeed
<1>7. FeedAlternates'
  BY <1>3 DEF FeedInv, FeedAlternates
<1> QED
  BY <1>4, <1>5, <1>6, <1>7 DEF FeedInv

LEMMA UpdateKeepsFeed ==
  ASSUME SoleEvaluator, TypeInv, FeedInv, NEW a \in Admins,
         NEW patched \in AlertRule, update_rule(a, patched)
  PROVE  FeedInv' /\ \A q \in Rules : row'[q].status = row[q].status
<1> USE DEF TypeInv, TypeOK
<1>1. PICK loaded \in request[a] :
        /\ patched.status \in StatusWrites \cup {loaded.object.status}
        /\ row' = IF loaded.rule \in live
                  THEN [row EXCEPT ![loaded.rule] = FlushColumns(@, loaded.object, patched)]
                  ELSE row
  BY DEF update_rule
<1>2. loaded.rule \in Rules /\ loaded.object \in AlertRule
  BY DEF Loaded
<1>3. FlushColumns(row[loaded.rule], loaded.object, patched).status = row[loaded.rule].status
  BY <1>1, <1>2, FlushKeepsStatus DEF SoleEvaluator
<1>4. \A q \in Rules : row'[q].status = row[q].status
  BY <1>1, <1>2, <1>3
<1>5. UNCHANGED <<live, created, history, tick, snapshot>>
  BY DEF update_rule, workerVars
<1>6. SessionsAreCurrent'
  BY <1>4, <1>5 DEF FeedInv, SessionsAreCurrent
<1>7. StatusAgreesWithFeed'
  BY <1>4, <1>5 DEF FeedInv, StatusAgreesWithFeed
<1> QED
  BY <1>4, <1>5, <1>6, <1>7 DEF FeedInv, DeletedRulesHaveNoFeed, FeedAlternates

LEMMA FeedStep ==
  ASSUME SoleEvaluator, TypeInv, FeedInv, [Next]_vars
  PROVE  FeedInv'
<1>1. CASE AdvanceClock
  BY <1>1, FeedFrame DEF AdvanceClock
<1>2. ASSUME NEW name \in EventNames, NEW ts \in Time, create_events_batch(name, ts)
      PROVE  FeedInv'
  BY <1>2, FeedFrame DEF create_events_batch
<1>3. CASE Beat
  BY <1>3, FeedFrame DEF Beat
<1>4. ASSUME NEW w \in Workers, WorkerStep(w) PROVE FeedInv'
  <2>1. CASE AbortTick(w)
    BY <2>1, SessionEnds DEF AbortTick
  <2>2. CASE FinishTick(w)
    BY <2>2, SessionEnds DEF FinishTick
  <2> QED
    BY <1>4, <2>1, <2>2, LoadKeepsFeed, EvaluateKeepsFeed, FlipKeepsFeed DEF WorkerStep
<1>5. ASSUME NEW w \in Workers, CrashWorker(w) PROVE FeedInv'
  BY <1>5, SessionEnds DEF CrashWorker
<1>6. ASSUME NEW r \in Rules, NEW object \in AlertRule, create_rule(r, object)
      PROVE  FeedInv'
  BY <1>6, CreateKeepsFeed
<1>7. ASSUME NEW a \in Admins, AdminStep(a) PROVE FeedInv'
  <2>1. ASSUME NEW r \in Rules, get_rule(a, r) PROVE FeedInv'
    BY <2>1, FeedFrame DEF get_rule
  <2> QED
    BY <1>7, <2>1, UpdateKeepsFeed, DeleteKeepsFeed DEF AdminStep
<1>8. CASE UNCHANGED vars
  BY <1>8, FeedFrame DEF vars
<1> QED
  BY <1>1, <1>2, <1>3, <1>4, <1>5, <1>6, <1>7, <1>8 DEF Next

\* With one evaluation at a time and no status edits, IInv holds in every
\* reachable state, whatever crashes, aborts, deletes and condition edits occur.
THEOREM InductiveInvariant ==
  ASSUME SoleEvaluator
  PROVE  Spec => []IInv
<1>1. Init => IInv
  BY TypeInit, FeedInit, IInvParts
<1>2. IInv /\ [Next]_vars => IInv'
  <2> SUFFICES ASSUME IInv, [Next]_vars PROVE IInv'
    OBVIOUS
  <2>1. TypeInv /\ FeedInv
    BY IInvParts
  <2>2. TypeInv' /\ FeedInv'
    BY <2>1, TypeStep, FeedStep
  <2> QED
    BY <2>2 DEF IInv, TypeInv, FeedInv
<1> QED
  BY <1>1, <1>2, PTL DEF Spec

\* The feed of every rule reads TRIGGERED, RESOLVED, TRIGGERED, ...: a breach
\* and its resolution are logged in turn, never twice.
THEOREM FeedIsSymmetrical ==
  ASSUME SoleEvaluator
  PROVE  Spec => []FeedAlternates
<1>1. IInv => FeedAlternates
  BY DEF IInv
<1> QED
  BY <1>1, InductiveInvariant, PTL

\* The stored status of a live rule and the newest entry of its feed agree,
\* whatever crashes, aborts or edits happen between the evaluator's read of a
\* rule and its commit.
THEOREM StatusMatchesFeed ==
  ASSUME SoleEvaluator
  PROVE  Spec => []StatusAgreesWithFeed
<1>1. IInv => StatusAgreesWithFeed
  BY DEF IInv
<1> QED
  BY <1>1, InductiveInvariant, PTL

-----------------------------------------------------------------------------
(* AlertEngine implements AlertFeed.                                       *)

\* The logged statuses of one feed.
Statuses(s) == [i \in 1 .. Len(s) |-> s[i].status_at_trigger]

LEMMA StatusesOfAppend ==
  ASSUME NEW s \in Seq(AlertHistory), NEW entry \in AlertHistory
  PROVE  Statuses(Append(s, entry)) = Append(Statuses(s), entry.status_at_trigger)
<1> DEFINE logged == {"triggered", "resolved"}
<1>1. \A i \in 1 .. Len(s) : s[i].status_at_trigger \in logged
  <2>1. \A i \in 1 .. Len(s) : s[i] \in AlertHistory
    OBVIOUS
  <2> QED
    BY <2>1 DEF AlertHistory
<1>2. Len(s) \in Nat
  OBVIOUS
<1>3. Statuses(s) \in Seq(logged) /\ Len(Statuses(s)) = Len(s)
  BY <1>1, <1>2 DEF Statuses
<1>4. Append(Statuses(s), entry.status_at_trigger)
         = [i \in 1 .. Len(s) + 1 |-> IF i = Len(s) + 1 THEN entry.status_at_trigger
                                      ELSE Statuses(s)[i]]
  BY <1>3
<1>5. \A i \in 1 .. Len(s) + 1 :
         Append(s, entry)[i] = IF i = Len(s) + 1 THEN entry ELSE s[i]
  OBVIOUS
<1>6. Statuses(Append(s, entry))
         = [i \in 1 .. Len(s) + 1 |-> IF i = Len(s) + 1 THEN entry.status_at_trigger
                                      ELSE Statuses(s)[i]]
  BY <1>2, <1>5 DEF Statuses
<1> QED
  BY <1>4, <1>6

LEMMA FeedLogStatuses == FeedLog = [r \in Rules |-> Statuses(history[r])]
BY DEF FeedLog, Statuses

LEMMA FeedMapsInit == Init => Feed!Init
<1> SUFFICES ASSUME Init PROVE Feed!Init
  OBVIOUS
<1>1. FeedPhase = [r \in Rules |-> "unborn"]
  BY DEF Init, FeedPhase
<1>2. \A r \in Rules : Statuses(history[r]) = <<>>
  BY DEF Init, Statuses
<1> QED
  BY <1>1, <1>2, FeedLogStatuses DEF Feed!Init

\* Steps that leave the tables alone are invisible to a reader of the feed.
LEMMA FeedStutters ==
  ASSUME UNCHANGED dbVars
  PROVE  UNCHANGED Feed!vars
BY DEF dbVars, Feed!vars, FeedPhase, FeedLog

LEMMA FlipMaps ==
  ASSUME TypeInv, FeedInv, NEW w \in Workers, create_history_log(w)
  PROVE  Feed!Next
<1>1. PICK r \in live, value \in Nat :
        LET raised == row[r].status = "active"
            entry == [status_at_trigger |-> IF raised THEN "triggered" ELSE "resolved",
                      triggered_value |-> value]
        IN  /\ row[r].status \in {"active", "triggered"}
            /\ row' = [row EXCEPT ![r].status = IF raised THEN "triggered" ELSE "active"]
            /\ history' = [history EXCEPT ![r] = Append(@, entry)]
  BY FlipCommits
<1> DEFINE raised == row[r].status = "active"
           logged == IF raised THEN "triggered" ELSE "resolved"
           entry == [status_at_trigger |-> logged, triggered_value |-> value]
<1>2. r \in Rules /\ r \in created /\ UNCHANGED <<live, created>>
  BY DEF create_history_log, TypeInv, TypeOK
<1>3. entry \in AlertHistory /\ entry.status_at_trigger = logged
  BY DEF AlertHistory
<1>4. FeedLog' = [FeedLog EXCEPT ![r] = Append(@, logged)]
  <2> HIDE DEF entry, logged
  <2>1. history' = [history EXCEPT ![r] = Append(@, entry)]
    BY <1>1 DEF entry, logged
  <2>2. Statuses(history'[r]) = Append(Statuses(history[r]), logged)
    BY <1>2, <1>3, <2>1, StatusesOfAppend DEF TypeInv, TypeOK
  <2>3. \A q \in Rules \ {r} : history'[q] = history[q]
    BY <2>1 DEF TypeInv, TypeOK
  <2>4. FeedLog' = [q \in Rules |-> Statuses(history'[q])]
    BY DEF FeedLog, Statuses
  <2> QED
    BY <1>2, <2>2, <2>3, <2>4, FeedLogStatuses
<1>5. /\ FeedPhase[r] = IF raised THEN "quiet" ELSE "breached"
      /\ FeedPhase' = [FeedPhase EXCEPT ![r] = IF raised THEN "breached" ELSE "quiet"]
  <2>1. /\ row'[r].status = IF raised THEN "triggered" ELSE "active"
        /\ \A q \in Rules \ {r} : row'[q] = row[q]
    BY <1>1, <1>2 DEF TypeInv, TypeOK, AlertRule
  <2> QED
    BY <1>1, <1>2, <2>1 DEF FeedPhase
<1>6. CASE raised
  BY <1>2, <1>4, <1>5, <1>6 DEF Feed!Next, Feed!Raise
<1>7. CASE ~raised
  BY <1>2, <1>4, <1>5, <1>7 DEF Feed!Next, Feed!Clear
<1> QED
  BY <1>6, <1>7

LEMMA CreateMaps ==
  ASSUME TypeInv, NEW r \in Rules, NEW object \in AlertRule, create_rule(r, object)
  PROVE  Feed!Next
<1>1. /\ r \notin created /\ r \notin live
      /\ live' = live \cup {r} /\ created' = created \cup {r}
      /\ row'[r].status = "active" /\ \A q \in Rules \ {r} : row'[q] = row[q]
      /\ UNCHANGED history
  BY DEF create_rule, NewRuleStatus, TypeInv, TypeOK
<1>2. FeedPhase[r] = "unborn" /\ FeedPhase' = [FeedPhase EXCEPT ![r] = "quiet"]
  BY <1>1 DEF FeedPhase
<1>3. UNCHANGED FeedLog
  BY <1>1 DEF FeedLog
<1> QED
  BY <1>2, <1>3 DEF Feed!Next, Feed!Open

LEMMA DeleteMaps ==
  ASSUME TypeInv, FeedInv, NEW a \in Admins, delete_rule(a)
  PROVE  Feed!Next \/ UNCHANGED Feed!vars
<1>1. PICK loaded \in request[a] :
        /\ live' = live \ {loaded.rule}
        /\ row' = [row EXCEPT ![loaded.rule] = NoRow]
        /\ history' = [history EXCEPT ![loaded.rule] = <<>>]
  BY DEF delete_rule, PurgedHistory
<1> DEFINE r == loaded.rule
<1>2. r \in Rules
  BY DEF Loaded, TypeInv, TypeOK
<1> HIDE DEF r
<1>3. /\ live' = live \ {r} /\ UNCHANGED created
      /\ history'[r] = <<>>
      /\ \A q \in Rules \ {r} : row'[q] = row[q] /\ history'[q] = history[q]
  BY <1>1, <1>2 DEF r, delete_rule, PurgedHistory, TypeInv, TypeOK
<1>4. FeedLog' = [FeedLog EXCEPT ![r] = <<>>]
  <2>1. Statuses(history'[r]) = <<>>
    BY <1>3 DEF Statuses
  <2>2. FeedLog' = [q \in Rules |-> Statuses(history'[q])]
    BY DEF FeedLog, Statuses
  <2> QED
    BY <1>2, <1>3, <2>1, <2>2, FeedLogStatuses
<1>5. CASE r \in live
  <2>1. /\ FeedPhase[r] \in {"quiet", "breached"}
        /\ FeedPhase' = [FeedPhase EXCEPT ![r] = "gone"]
    BY <1>2, <1>3, <1>5 DEF FeedPhase, TypeInv, TypeOK
  <2> QED
    BY <1>2, <1>4, <2>1 DEF Feed!Next, Feed!Close
<1>6. CASE r \notin live
  <2>1. FeedPhase' = FeedPhase
    BY <1>2, <1>3, <1>6 DEF FeedPhase
  <2>2. history[r] = <<>>
    BY <1>2, <1>6 DEF FeedInv, DeletedRulesHaveNoFeed
  <2>3. \A q \in Rules : history'[q] = history[q]
    BY <1>3, <2>2
  <2>4. FeedLog' = FeedLog
    BY <2>3 DEF FeedLog
  <2> QED
    BY <2>1, <2>4 DEF Feed!vars
<1> QED
  BY <1>5, <1>6

LEMMA UpdateMaps ==
  ASSUME SoleEvaluator, TypeInv, FeedInv, NEW a \in Admins,
         NEW patched \in AlertRule, update_rule(a, patched)
  PROVE  UNCHANGED Feed!vars
<1>1. \A q \in Rules : row'[q].status = row[q].status
  BY UpdateKeepsFeed
<1>2. UNCHANGED <<live, created, history>>
  BY DEF update_rule
<1> QED
  BY <1>1, <1>2 DEF Feed!vars, FeedPhase, FeedLog

\* Sessions, snapshots, crashes, aborts and concurrent edits of conditions are
\* invisible: every behaviour of AlertEngine is a behaviour of AlertFeed.
THEOREM Refinement ==
  ASSUME SoleEvaluator
  PROVE  Spec => ImplementsFeed
<1>1. Init => Feed!Init
  BY FeedMapsInit
<1>2. IInv /\ [Next]_vars => [Feed!Next]_(Feed!vars)
  <2> SUFFICES ASSUME IInv, [Next]_vars PROVE Feed!Next \/ UNCHANGED Feed!vars
    OBVIOUS
  <2>0. TypeInv /\ FeedInv
    BY IInvParts
  <2>1. CASE AdvanceClock
    BY <2>1, FeedStutters DEF AdvanceClock
  <2>2. ASSUME NEW name \in EventNames, NEW ts \in Time, create_events_batch(name, ts)
        PROVE  UNCHANGED Feed!vars
    BY <2>2, FeedStutters DEF create_events_batch
  <2>3. CASE Beat
    BY <2>3, FeedStutters DEF Beat
  <2>4. ASSUME NEW w \in Workers, WorkerStep(w) PROVE Feed!Next \/ UNCHANGED Feed!vars
    <3>1. CASE create_history_log(w)
      BY <2>0, <3>1, FlipMaps
    <3>2. CASE UNCHANGED dbVars
      BY <3>2, FeedStutters
    <3> QED
      BY <2>4, <3>1, <3>2 DEF WorkerStep, list_active_and_triggered_rules, EvaluateRule,
         AbortTick, FinishTick
  <2>5. ASSUME NEW w \in Workers, CrashWorker(w) PROVE UNCHANGED Feed!vars
    BY <2>5, FeedStutters DEF CrashWorker
  <2>6. ASSUME NEW r \in Rules, NEW object \in AlertRule, create_rule(r, object)
        PROVE  Feed!Next
    BY <2>0, <2>6, CreateMaps
  <2>7. ASSUME NEW a \in Admins, AdminStep(a) PROVE Feed!Next \/ UNCHANGED Feed!vars
    <3>1. ASSUME NEW r \in Rules, get_rule(a, r) PROVE UNCHANGED Feed!vars
      BY <3>1, FeedStutters DEF get_rule
    <3> QED
      BY <2>0, <2>7, <3>1, UpdateMaps, DeleteMaps DEF AdminStep
  <2>8. CASE UNCHANGED vars
    BY <2>8, FeedStutters DEF vars
  <2> QED
    BY <2>1, <2>2, <2>3, <2>4, <2>5, <2>6, <2>7, <2>8 DEF Next
<1> QED
  BY <1>1, <1>2, InductiveInvariant, PTL DEF Spec, ImplementsFeed, Feed!Spec

-----------------------------------------------------------------------------
(* What holds however many evaluations overlap: a flip commits with its log *)
(* row, and an UPDATE names only the columns it means to change.            *)

\* What the flip of one evaluation does to the tables, when other evaluations
\* may have written the same rule since this one loaded it.
LEMMA FlipWrites ==
  ASSUME TypeInv, NEW w \in Workers, create_history_log(w)
  PROVE  \E r \in live, status \in AlertStatus, entry \in AlertHistory :
            /\ row' = [row EXCEPT ![r].status = status]
            /\ history' = [history EXCEPT ![r] = Append(@, entry)]
<1>1. PICK flip \in tick[w].staged :
        LET r == flip.rule
            status == EvaluatedStatus(snapshot[w][r], flip.value)
            logged == IF status = "triggered" THEN "triggered" ELSE "resolved"
        IN  /\ r \in live
            /\ row' = [row EXCEPT ![r].status = status]
            /\ history' = [history EXCEPT ![r] =
                  Append(@, [status_at_trigger |-> logged, triggered_value |-> flip.value])]
  BY DEF create_history_log, FlippedRow, LoggedFeed
<1>2. flip.value \in Nat
  BY DEF TypeInv, TypeOK, Tick, Flip
<1> DEFINE status == EvaluatedStatus(snapshot[w][flip.rule], flip.value)
           entry == [status_at_trigger |-> IF status = "triggered" THEN "triggered" ELSE "resolved",
                     triggered_value |-> flip.value]
<1>3. status \in AlertStatus
  BY DEF EvaluatedStatus, AlertStatus
<1>4. entry \in AlertHistory
  BY <1>2 DEF AlertHistory
<1> QED
  BY <1>1, <1>3, <1>4

\* Only a flip and a delete write the feed.
LEMMA FeedWriters ==
  ASSUME [Next]_vars
  PROVE  \/ UNCHANGED history
         \/ \E w \in Workers : create_history_log(w)
         \/ \E a \in Admins : delete_rule(a)
BY DEF Next, vars, dbVars, AdvanceClock, create_events_batch, Beat, WorkerStep,
       list_active_and_triggered_rules, EvaluateRule, AbortTick, FinishTick,
       CrashWorker, create_rule, AdminStep, get_rule, update_rule

\* A delete takes one rule, its columns and its feed.
LEMMA DeleteWrites ==
  ASSUME TypeInv, NEW a \in Admins, delete_rule(a)
  PROVE  \E r \in Rules :
            /\ live' = live \ {r}
            /\ row' = [row EXCEPT ![r] = NoRow]
            /\ history' = [history EXCEPT ![r] = <<>>]
<1>1. PICK loaded \in request[a] :
        /\ live' = live \ {loaded.rule}
        /\ row' = [row EXCEPT ![loaded.rule] = NoRow]
        /\ history' = [history EXCEPT ![loaded.rule] = <<>>]
  BY DEF delete_rule, PurgedHistory
<1>2. loaded.rule \in Rules
  BY DEF Loaded, TypeInv, TypeOK
<1> QED
  BY <1>1, <1>2

LEMMA PurgeStep ==
  ASSUME TypeInv, DeletedRulesHaveNoFeed, [Next]_vars
  PROVE  DeletedRulesHaveNoFeed'
<1> USE DEF DeletedRulesHaveNoFeed
<1>1. ASSUME NEW w \in Workers, create_history_log(w) PROVE DeletedRulesHaveNoFeed'
  <2>1. PICK r \in live, entry \in AlertHistory :
          history' = [history EXCEPT ![r] = Append(@, entry)]
    BY <1>1, FlipWrites
  <2> QED
    BY <1>1, <2>1 DEF create_history_log, TypeInv, TypeOK
<1>2. ASSUME NEW a \in Admins, delete_rule(a) PROVE DeletedRulesHaveNoFeed'
  BY <1>2, DeleteWrites DEF TypeInv, TypeOK
<1>3. CASE UNCHANGED history /\ ~\E a \in Admins : delete_rule(a)
  <2>1. live \subseteq live'
    BY <1>3 DEF Next, vars, dbVars, AdvanceClock, create_events_batch, Beat, WorkerStep,
       list_active_and_triggered_rules, EvaluateRule, create_history_log, AbortTick,
       FinishTick, CrashWorker, create_rule, AdminStep, get_rule, update_rule
  <2> QED
    BY <1>3, <2>1
<1> QED
  BY <1>1, <1>2, <1>3, FeedWriters

\* An evaluation that was in flight when its rule was deleted leaves no log,
\* however many evaluations overlap and whatever status a PUT writes: the flip
\* finds its row gone, and the delete takes the rows already logged.
THEOREM DeletesPurge == Spec => []DeletedRulesHaveNoFeed
<1>1. Init => TypeInv /\ DeletedRulesHaveNoFeed
  BY TypeInit DEF Init, DeletedRulesHaveNoFeed
<1>2. TypeInv /\ DeletedRulesHaveNoFeed /\ [Next]_vars => (TypeInv /\ DeletedRulesHaveNoFeed)'
  BY TypeStep, PurgeStep
<1> QED
  BY <1>1, <1>2, PTL DEF Spec

\* One step keeps the condition of the rule it logs for.
LEMMA FlipKeepsCondition ==
  ASSUME TypeInv, [Next]_vars,
         NEW r \in live, history'[r] # history[r], r \in live',
         NEW column \in DOMAIN row[r] \ {"status"}
  PROVE  row'[r][column] = row[r][column]
<1>1. r \in Rules /\ row[r] \in AlertRule
  BY DEF TypeInv, TypeOK
<1>2. ASSUME NEW w \in Workers, create_history_log(w) PROVE row'[r][column] = row[r][column]
  <2>1. PICK q \in live, status \in AlertStatus :
          row' = [row EXCEPT ![q].status = status]
    BY <1>2, FlipWrites
  <2>2. CASE q = r
    BY <1>1, <2>1, <2>2 DEF TypeInv, TypeOK, AlertRule
  <2>3. CASE q # r
    BY <1>1, <2>1, <2>3 DEF TypeInv, TypeOK
  <2> QED
    BY <2>2, <2>3
<1>3. ASSUME NEW a \in Admins, delete_rule(a) PROVE FALSE
  BY <1>1, <1>3, DeleteWrites DEF TypeInv, TypeOK
<1> QED
  BY <1>2, <1>3, FeedWriters

\* A flip never undoes an edit: whichever evaluations overlap with whichever
\* PUT, the step that logs leaves the stored condition alone.
THEOREM ConditionsSurviveFlips == Spec => FlipsKeepCondition
<1>1. Init => TypeInv
  BY TypeInit
<1>2. TypeInv /\ [Next]_vars => TypeInv'
  BY TypeStep
<1>3. TypeInv /\ [Next]_vars =>
        [\A r \in live : history'[r] # history[r] /\ r \in live' =>
            \A column \in DOMAIN row[r] \ {"status"} : row'[r][column] = row[r][column]]_vars
  BY FlipKeepsCondition
<1> QED
  BY <1>1, <1>2, <1>3, PTL DEF Spec, FlipsKeepCondition

\* One step that moves a surviving rule's status logs the move.
LEMMA StatusMoveIsLogged ==
  ASSUME StatusWrites = {}, TypeInv, [Next]_vars,
         NEW r \in live \cap live', row'[r].status # row[r].status
  PROVE  Len(history'[r]) = Len(history[r]) + 1
<1>1. r \in Rules /\ r \in created
  BY DEF TypeInv, TypeOK
<1>2. ASSUME NEW w \in Workers, create_history_log(w)
      PROVE  Len(history'[r]) = Len(history[r]) + 1
  <2>1. PICK q \in live, status \in AlertStatus, entry \in AlertHistory :
          /\ row' = [row EXCEPT ![q].status = status]
          /\ history' = [history EXCEPT ![q] = Append(@, entry)]
    BY <1>2, FlipWrites
  <2>2. q = r
    BY <1>1, <2>1 DEF TypeInv, TypeOK
  <2> QED
    BY <1>1, <2>1, <2>2, AppendToFeed
<1>3. ASSUME NEW a \in Admins, NEW patched \in AlertRule, update_rule(a, patched)
      PROVE  FALSE
  <2>1. PICK loaded \in request[a] :
          /\ patched.status = loaded.object.status
          /\ row' = IF loaded.rule \in live
                    THEN [row EXCEPT ![loaded.rule] = FlushColumns(@, loaded.object, patched)]
                    ELSE row
    BY <1>3 DEF update_rule
  <2>2. loaded.rule \in Rules /\ loaded.object \in AlertRule
    BY DEF Loaded, TypeInv, TypeOK
  <2>3. row[loaded.rule] \in AlertRule
    BY <2>2 DEF TypeInv, TypeOK
  <2>4. FlushColumns(row[loaded.rule], loaded.object, patched).status
           = row[loaded.rule].status
    BY <2>1, <2>2, <2>3, FlushKeepsStatus
  <2> QED
    BY <1>1, <2>1, <2>2, <2>4 DEF TypeInv, TypeOK
<1>4. ASSUME NEW a \in Admins, delete_rule(a) PROVE FALSE
  BY <1>1, <1>4, DeleteWrites DEF TypeInv, TypeOK
<1>5. ASSUME NEW q \in Rules, NEW object \in AlertRule, create_rule(q, object) PROVE FALSE
  BY <1>1, <1>5 DEF create_rule, TypeInv, TypeOK
<1>6. \/ UNCHANGED row
      \/ \E w \in Workers : create_history_log(w)
      \/ \E a \in Admins, patched \in AlertRule : update_rule(a, patched)
      \/ \E a \in Admins : delete_rule(a)
      \/ \E q \in Rules, object \in AlertRule : create_rule(q, object)
  BY DEF Next, vars, dbVars, AdvanceClock, create_events_batch, Beat, WorkerStep,
         list_active_and_triggered_rules, EvaluateRule, AbortTick, FinishTick,
         CrashWorker, AdminStep, get_rule
<1> QED
  BY <1>2, <1>3, <1>4, <1>5, <1>6

\* As long as no PUT carries a status, the status of a surviving rule moves
\* only in the step that logs the move, however many evaluations overlap.
THEOREM StatusMovesAreLogged ==
  ASSUME StatusWrites = {}
  PROVE  Spec => OnlyLoggedFlipsMoveStatus
<1>1. Init => TypeInv
  BY TypeInit
<1>2. TypeInv /\ [Next]_vars => TypeInv'
  BY TypeStep
<1>3. TypeInv /\ [Next]_vars =>
        [\A r \in live \cap live' :
            row'[r].status # row[r].status => Len(history'[r]) = Len(history[r]) + 1]_vars
  BY StatusMoveIsLogged
<1> QED
  BY <1>1, <1>2, <1>3, PTL DEF Spec, OnlyLoggedFlipsMoveStatus

=============================================================================
