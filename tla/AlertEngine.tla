---------------------------- MODULE AlertEngine ----------------------------
(***************************************************************************)
(* The alert subsystem: the rules an organization's admins edit through    *)
(* /alerts, and the evaluator that Celery Beat fires every 60 seconds on   *)
(* the Celery workers (app/worker.py).                                     *)
(*                                                                         *)
(* Every request and every evaluation owns a SQLAlchemy session: it reads  *)
(* rows, keeps them in memory across awaits (expire_on_commit=False), and  *)
(* writes back only the columns whose value differs from the loaded one.   *)
(* Postgres runs READ COMMITTED, so another session may commit between the *)
(* read and the write.  One action is one database round trip that others  *)
(* can observe, together with the Python that runs before the next await.  *)
(*                                                                         *)
(* One organization is modelled; every query filters on organization_id.   *)
(***************************************************************************)
EXTENDS Integers, Sequences, FiniteSets

CONSTANTS
    Rules,          \* alert rule ids; uuid4, so a deleted id never returns
    Workers,        \* Celery worker processes that may run the evaluator
    Admins,         \* concurrent PUT/DELETE requests on /alerts/{rule_id}
    EventNames,     \* event names that rules watch
    Thresholds,     \* breach limits: smallest count that breaches
    TimeWindows,    \* lookback windows, in clock units
    MaxLookback,    \* longest window that datetime can subtract from now
    StatusWrites,   \* statuses a PUT /alerts/{rule_id} may carry
    MaxTime,        \* bound: the clock stops here
    MaxEvents,      \* bound: rows in the events table
    MaxTicks,       \* bound: evaluate_alerts_task messages in the broker
    MaxUpdates,     \* bound: PUT requests in a behaviour
    MaxCrashes      \* bound: worker crashes in a behaviour

AlertStatus == {"active", "triggered", "resolved", "muted"}

ASSUME AlertConstants ==
    /\ Thresholds \subseteq Nat \ {0}           \* schemas/alert.py: gt=0.0
    /\ TimeWindows \subseteq Nat \ {0}          \* schemas/alert.py: ge=1
    /\ EventNames # {} /\ Thresholds # {} /\ TimeWindows # {}
    /\ StatusWrites \subseteq AlertStatus
    /\ MaxLookback \in Nat
    /\ {MaxTime, MaxEvents, MaxTicks, MaxUpdates, MaxCrashes} \subseteq Nat

VARIABLES
    live,       \* rule ids with a row in alert_rules
    created,    \* rule ids ever handed out
    row,        \* alert_rules columns, by rule id
    history,    \* alert_history rows of each rule, oldest first
    events,     \* events table
    clock,      \* wall clock shared by the worker and the ingest clients
    ticks,      \* evaluate_alerts_task messages waiting in the broker
    tick,       \* each worker's evaluation in progress
    snapshot,   \* the AlertRule objects each worker's session loaded
    request,    \* each admin's loaded AlertRule object: {} or one record
    updates,    \* PUT requests so far
    crashes     \* worker crashes so far

dbVars == <<live, created, row, history>>
workerVars == <<tick, snapshot>>
boundVars == <<updates, crashes>>
vars == <<dbVars, events, clock, ticks, workerVars, request, boundVars>>

Time == 0 .. MaxTime
AlertRule == [status: AlertStatus, event_name: EventNames,
              threshold: Thresholds, time_window_minutes: TimeWindows]
AlertHistory == [status_at_trigger: {"triggered", "resolved"},
                 triggered_value: Nat]
Event == [id: 1 .. MaxEvents, event_name: EventNames, timestamp: Time]
Loaded == [rule: Rules, object: AlertRule]
Flip == [rule: Rules, value: Nat]

\* A session that is evaluating: the rules still to visit, its "now", and
\* the flip it has staged but not committed ({} or one record).
Tick == [busy: BOOLEAN, todo: SUBSET Rules, now: Time, staged: SUBSET Flip]

IdleTick == [busy |-> FALSE, todo |-> {}, now |-> 0, staged |-> {}]

\* The statuses the evaluator selects.
Monitored == {"active", "triggered"}

TypeOK ==
    /\ live \subseteq created
    /\ created \subseteq Rules
    /\ row \in [Rules -> AlertRule]
    /\ history \in [Rules -> Seq(AlertHistory)]
    /\ events \subseteq Event
    /\ clock \in Time
    /\ ticks \in 0 .. MaxTicks
    /\ tick \in [Workers -> Tick]
    /\ snapshot \in [Workers -> [Rules -> AlertRule]]
    /\ request \in [Admins -> SUBSET Loaded]
    /\ updates \in 0 .. MaxUpdates
    /\ crashes \in 0 .. MaxCrashes

\* Rows that do not exist hold this value.
NoRow == CHOOSE object \in AlertRule : object.status = "active"
NoRows == [r \in Rules |-> NoRow]

Init ==
    /\ live = {}
    /\ created = {}
    /\ row = NoRows
    /\ history = [r \in Rules |-> <<>>]
    /\ events = {}
    /\ clock = 0
    /\ ticks = 0
    /\ tick = [w \in Workers |-> IdleTick]
    /\ snapshot = [w \in Workers |-> NoRows]
    /\ request = [a \in Admins |-> {}]
    /\ updates = 0
    /\ crashes = 0

-----------------------------------------------------------------------------
(* The environment: time, and the ingest pipeline's committed inserts.     *)

AdvanceClock ==
    /\ clock < MaxTime
    /\ clock' = clock + 1
    /\ UNCHANGED <<dbVars, events, ticks, workerVars, request, boundVars>>

\* process_events_task commits an event.  The client chose the timestamp, so
\* it may lie in the past or in the future of the server's clock.
create_events_batch(name, ts) ==
    /\ Cardinality(events) < MaxEvents
    /\ events' = events \cup {[id |-> Cardinality(events) + 1,
                               event_name |-> name, timestamp |-> ts]}
    /\ UNCHANGED <<dbVars, clock, ticks, workerVars, request, boundVars>>

\* Number of committed events with this name and no older than start_time.
\* There is no upper limit: events dated in the future are counted.
count_events_in_window(name, start_time) ==
    Cardinality({e \in events : e.event_name = name /\ e.timestamp >= start_time})

-----------------------------------------------------------------------------
(* The evaluator: evaluate_alerts_task.                                    *)

\* Celery Beat enqueues an evaluation, whether or not the last one is done.
Beat ==
    /\ ticks < MaxTicks
    /\ ticks' = ticks + 1
    /\ UNCHANGED <<dbVars, events, clock, workerVars, request, boundVars>>

\* Mutant: the query forgets the TRIGGERED rules.
ActiveRulesOnly == {r \in live : row[r].status = "active"}

RulesToEvaluate == {r \in live : row[r].status \in Monitored}

\* A worker takes a message, which acknowledges it, and loads the rules in
\* status ACTIVE or TRIGGERED with all their columns.
list_active_and_triggered_rules(w) ==
    /\ ~tick[w].busy
    /\ ticks > 0
    /\ ticks' = ticks - 1
    /\ tick' = [tick EXCEPT ![w] = [busy |-> TRUE, todo |-> RulesToEvaluate,
                                    now |-> clock, staged |-> {}]]
    /\ snapshot' = [snapshot EXCEPT ![w] = row]
    /\ UNCHANGED <<dbVars, events, clock, request, boundVars>>

\* Mutant: a breach needs one event more than the threshold.
StatusAboveThreshold(object, current_count) ==
    IF current_count > object.threshold THEN "triggered" ELSE "active"

\* The status the loop body assigns to a rule loaded as "object", given the
\* count it queried.
EvaluatedStatus(object, current_count) ==
    IF current_count >= object.threshold THEN "triggered" ELSE "active"

WindowCount(w, r) ==
    count_events_in_window(snapshot[w][r].event_name,
                           tick[w].now - snapshot[w][r].time_window_minutes)

Disagrees(w, r) ==
    snapshot[w][r].status # EvaluatedStatus(snapshot[w][r], WindowCount(w, r))

\* Mutant: a breach is logged in every evaluation, not only in the first.
StagedAlways(w, r) == {[rule |-> r, value |-> WindowCount(w, r)]}

\* The flip staged for r: one if the in-memory status contradicts the count.
StagedFlip(w, r) ==
    IF Disagrees(w, r) THEN {[rule |-> r, value |-> WindowCount(w, r)]} ELSE {}

\* Mutant: the loop visits a rule twice.
VisitAgain(w, r) == tick[w].todo

RemainingRules(w, r) == tick[w].todo \ {r}

\* The loop body up to its write: query the count for one of the remaining
\* rules (the SELECT has no ORDER BY) and stage a flip if it is due.
EvaluateRule(w, r) ==
    /\ tick[w].staged = {}
    /\ r \in tick[w].todo
    /\ snapshot[w][r].time_window_minutes <= MaxLookback
    /\ tick' = [tick EXCEPT ![w].todo = RemainingRules(w, r),
                            ![w].staged = StagedFlip(w, r)]
    /\ UNCHANGED <<dbVars, events, clock, ticks, snapshot, request, boundVars>>

\* Mutant: the UPDATE writes back every column the session loaded.
WholeObjectWritten(w, r, status) == [snapshot[w][r] EXCEPT !.status = status]

\* The UPDATE sets the status column and names the row by id only: whatever
\* status the row has by now is overwritten.
FlippedRow(w, r, status) == [row[r] EXCEPT !.status = status]

\* Mutant: resolutions are not logged.
BreachesLogged(r, status, value) ==
    IF status = "triggered"
    THEN Append(history[r], [status_at_trigger |-> "triggered", triggered_value |-> value])
    ELSE history[r]

\* Mutant: the log takes the rule's new status, which for a resolution is ACTIVE.
StatusLogged(r, status, value) ==
    Append(history[r], [status_at_trigger |-> status, triggered_value |-> value])

LoggedFeed(r, status, value) ==
    Append(history[r],
           [status_at_trigger |-> IF status = "triggered" THEN "triggered" ELSE "resolved",
            triggered_value |-> value])

\* The staged UPDATE of the rule and the INSERT of the log row commit together.
create_history_log(w) ==
    /\ \E flip \in tick[w].staged :
        LET r == flip.rule
            status == EvaluatedStatus(snapshot[w][r], flip.value)
        IN  /\ r \in live
            /\ row' = [row EXCEPT ![r] = FlippedRow(w, r, status)]
            /\ history' = [history EXCEPT ![r] = LoggedFeed(r, status, flip.value)]
    /\ tick' = [tick EXCEPT ![w].staged = {}]
    /\ UNCHANGED <<live, created, events, clock, ticks, snapshot, request, boundVars>>

\* The rule was deleted meanwhile: the UPDATE matches no row and the flush
\* raises StaleDataError.
FlushFindsNoRow(w) == \E flip \in tick[w].staged : flip.rule \notin live

\* now - timedelta(minutes=...) falls before datetime.min: OverflowError.  The
\* API accepts every window from 1 minute to the INTEGER column's 2^31 - 1.
WindowOverflows(w) ==
    /\ tick[w].staged = {}
    /\ \E r \in tick[w].todo : snapshot[w][r].time_window_minutes > MaxLookback

\* Nothing catches the exception: the task ends, the rules not yet visited are
\* not visited, and Celery does not retry.
AbortTick(w) ==
    /\ FlushFindsNoRow(w) \/ WindowOverflows(w)
    /\ tick' = [tick EXCEPT ![w] = IdleTick]
    /\ snapshot' = [snapshot EXCEPT ![w] = NoRows]
    /\ UNCHANGED <<dbVars, events, clock, ticks, request, boundVars>>

\* All rules visited: the final commit has nothing left to flush.
FinishTick(w) ==
    /\ tick[w].busy
    /\ tick[w].todo = {}
    /\ tick[w].staged = {}
    /\ tick' = [tick EXCEPT ![w] = IdleTick]
    /\ snapshot' = [snapshot EXCEPT ![w] = NoRows]
    /\ UNCHANGED <<dbVars, events, clock, ticks, request, boundVars>>

\* The worker process dies.  The message was acknowledged when the task
\* started (Celery's default), so nobody runs this evaluation again.
CrashWorker(w) ==
    /\ tick[w].busy
    /\ crashes < MaxCrashes
    /\ crashes' = crashes + 1
    /\ tick' = [tick EXCEPT ![w] = IdleTick]
    /\ snapshot' = [snapshot EXCEPT ![w] = NoRows]
    /\ UNCHANGED <<dbVars, events, clock, ticks, request, updates>>

-----------------------------------------------------------------------------
(* The admins: POST, PUT and DELETE on /alerts.                            *)

\* Mutant: POST takes the status from its payload.
StatusFromPayload == AlertStatus

\* POST leaves the status to the column's default.
NewRuleStatus == {"active"}

create_rule(r, object) ==
    /\ r \notin created
    /\ object.status \in NewRuleStatus
    /\ created' = created \cup {r}
    /\ live' = live \cup {r}
    /\ row' = [row EXCEPT ![r] = object]
    /\ UNCHANGED <<history, events, clock, ticks, workerVars, request, boundVars>>

\* The first half of PUT and DELETE: load the rule, or answer 403.
get_rule(a, r) ==
    /\ request[a] = {}
    /\ r \in live
    /\ request' = [request EXCEPT ![a] = {[rule |-> r, object |-> row[r]]}]
    /\ UNCHANGED <<dbVars, events, clock, ticks, workerVars, boundVars>>

\* Mutant: the UPDATE writes every column of the loaded object.
FlushAllColumns(current, loaded, patched) == patched

\* The columns an UPDATE sets are those whose new value differs from the
\* loaded one; the others keep what the database holds.
FlushColumns(current, loaded, patched) ==
    [column \in DOMAIN current |->
        IF patched[column] # loaded[column] THEN patched[column] ELSE current[column]]

\* The second half of PUT: assign the columns present in the payload and
\* commit.  If the row is gone the flush (or the refresh) raises, the client
\* gets a 500 and nothing is written.
update_rule(a, patched) ==
    /\ updates < MaxUpdates
    /\ updates' = updates + 1
    /\ \E loaded \in request[a] :
        /\ patched.status \in StatusWrites \cup {loaded.object.status}
        /\ row' = IF loaded.rule \in live
                  THEN [row EXCEPT ![loaded.rule] = FlushColumns(@, loaded.object, patched)]
                  ELSE row
    /\ request' = [request EXCEPT ![a] = {}]
    /\ UNCHANGED <<live, created, history, events, clock, ticks, workerVars, crashes>>

\* Mutant: neither the ORM nor the foreign key cascades.
KeptHistory(r) == history

PurgedHistory(r) == [history EXCEPT ![r] = <<>>]

\* The second half of DELETE: the rule goes, and with it its history, by the
\* ORM's cascade and by the foreign key's ON DELETE CASCADE.
delete_rule(a) ==
    /\ \E loaded \in request[a] :
        /\ live' = live \ {loaded.rule}
        /\ row' = [row EXCEPT ![loaded.rule] = NoRow]
        /\ history' = PurgedHistory(loaded.rule)
    /\ request' = [request EXCEPT ![a] = {}]
    /\ UNCHANGED <<created, events, clock, ticks, workerVars, boundVars>>

-----------------------------------------------------------------------------
WorkerStep(w) ==
    \/ list_active_and_triggered_rules(w)
    \/ \E r \in Rules : EvaluateRule(w, r)
    \/ create_history_log(w)
    \/ AbortTick(w)
    \/ FinishTick(w)

AdminStep(a) ==
    \/ \E r \in Rules : get_rule(a, r)
    \/ \E patched \in AlertRule : update_rule(a, patched)
    \/ delete_rule(a)

Next ==
    \/ AdvanceClock
    \/ \E name \in EventNames, ts \in Time : create_events_batch(name, ts)
    \/ Beat
    \/ \E w \in Workers : WorkerStep(w) \/ CrashWorker(w)
    \/ \E r \in Rules, object \in AlertRule : create_rule(r, object)
    \/ \E a \in Admins : AdminStep(a)

Spec == Init /\ [][Next]_vars

\* Beat keeps firing and a live worker keeps running its task; nobody is
\* obliged to edit rules, send events or crash.
Fairness == WF_vars(Beat) /\ \A w \in Workers : WF_vars(WorkerStep(w))

FairSpec == Spec /\ Fairness

-----------------------------------------------------------------------------
(* Properties.                                                             *)

\* The feed of a rule alternates TRIGGERED, RESOLVED, TRIGGERED, ...: a reader
\* of /alerts can pair every breach with its resolution.
FeedAlternates ==
    \A r \in Rules : \A i \in 1 .. Len(history[r]) :
        history[r][i].status_at_trigger = IF i % 2 = 1 THEN "triggered" ELSE "resolved"

\* A live rule's status and the newest entry of its feed tell the same story:
\* the flip and its log row are never seen apart, whatever crashes, aborts or
\* concurrent edits happen in between.
StatusAgreesWithFeed ==
    \A r \in live :
        row[r].status = IF Len(history[r]) % 2 = 1 THEN "triggered" ELSE "active"

\* Edits of other columns never undo a flip: the status of a surviving rule
\* moves only in the step that logs the move.
OnlyLoggedFlipsMoveStatus ==
    [][\A r \in live \cap live' :
          row'[r].status # row[r].status => Len(history'[r]) = Len(history[r]) + 1]_vars

\* And a flip never undoes an edit: the step that logs leaves the condition
\* that the admins configured as it stands in the database.
FlipsKeepCondition ==
    [][\A r \in live : history'[r] # history[r] /\ r \in live' =>
          \A column \in DOMAIN row[r] \ {"status"} : row'[r][column] = row[r][column]]_vars

\* An evaluation that was in flight when its rule was deleted leaves no log.
DeletedRulesHaveNoFeed == \A r \in Rules \ live : history[r] = <<>>

Breached(r) ==
    count_events_in_window(row[r].event_name, clock - row[r].time_window_minutes)
        >= row[r].threshold

Evaluable(r) ==
    /\ r \in live
    /\ row[r].status \in Monitored
    /\ row[r].time_window_minutes <= MaxLookback

\* A live rule that stays monitored and stays in breach is reported: status
\* TRIGGERED recurs, even if other rules are deleted under the evaluator.
BreachIsReported ==
    \A r \in Rules :
        <>[](Evaluable(r) /\ Breached(r)) => []<>(row[r].status = "triggered")

\* A live rule that stays monitored and stays below its threshold is resolved.
QuietIsResolved ==
    \A r \in Rules :
        <>[](Evaluable(r) /\ ~Breached(r)) => []<>(row[r].status = "active")

-----------------------------------------------------------------------------
(* The abstraction, and the invariant behind it.                           *)

FeedPhase ==
    [r \in Rules |-> IF r \notin created THEN "unborn"
                     ELSE IF r \notin live THEN "gone"
                     ELSE IF row[r].status = "triggered" THEN "breached" ELSE "quiet"]

FeedLog ==
    [r \in Rules |-> [i \in 1 .. Len(history[r]) |-> history[r][i].status_at_trigger]]

Feed == INSTANCE AlertFeed WITH phase <- FeedPhase, feed <- FeedLog

\* With one evaluator and no status edits, sessions, crashes, aborts, deletes
\* and edits of conditions leave exactly the behaviours of AlertFeed.
ImplementsFeed == Feed!Spec

\* What a session in flight knows of the rules it has yet to write: the status
\* it loaded is still the stored one, and a staged flip contradicts it.
SessionsAreCurrent ==
    \A w \in Workers :
        /\ tick[w].todo \subseteq created
        /\ \A r \in tick[w].todo \cap live : snapshot[w][r].status = row[r].status
        /\ \A flip \in tick[w].staged :
              /\ flip.rule \in created \ tick[w].todo
              /\ snapshot[w][flip.rule].status
                    # EvaluatedStatus(snapshot[w][flip.rule], flip.value)
              /\ flip.rule \in live =>
                    snapshot[w][flip.rule].status = row[flip.rule].status

\* The inductive invariant: the feed facts do not survive a step by themselves,
\* because the evaluator writes what it concluded from its snapshot.
IInv ==
    /\ TypeOK
    /\ IsFiniteSet(events)
    /\ SessionsAreCurrent
    /\ DeletedRulesHaveNoFeed
    /\ StatusAgreesWithFeed
    /\ FeedAlternates

=============================================================================
