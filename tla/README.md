# Insights: a TLA+ model of the platform

*Insights* is a multi-tenant analytics service: a FastAPI backend (`app/`), a
Celery worker with Beat (`app/worker.py`), Postgres, Redis, and a Next.js
client (`frontend/`). This directory holds TLA+ models of it, the TLC
configurations that check them, and proofs that TLAPS checks. The repository has
no tests; what goes wrong here goes wrong between two awaits, and that is what
the models are about.

## How the program executes

* One `uvicorn` process runs every request and WebSocket as a coroutine of one
  asyncio event loop. Between two awaits nothing else runs in that process; at
  every await anything may.
* Each request has its own SQLAlchemy session (`app/database.py`), with
  `autoflush=False` and `expire_on_commit=False`. An object loaded before an await
  keeps its loaded values. An UPDATE names the row by id and sets the columns
  whose value differs from the loaded one. An UPDATE that matches no row raises
  `StaleDataError`; a DELETE that matches none only warns. Postgres runs READ
  COMMITTED.
* `start.sh` runs a Celery worker (a pool of processes) and a Beat process beside
  uvicorn. Messages are acknowledged when the task *starts* (Celery's default), so
  a crash or an exception loses the task. No task is retried.
* Redis is the broker and holds the rate limiter's sorted sets.

## Components

| Component | State | Operations | Interacts with | What makes it correct |
|---|---|---|---|---|
| Alert rules and evaluator (`worker.py`, `repositories/alert.py`, `services/alert.py`, `endpoints/alerts.py`) | `alert_rules`, `alert_history`, the evaluator's session | POST/PUT/DELETE/GET rules; evaluate every 60 s | counts `events`; Beat; the panel writes statuses | the feed alternates and agrees with the status; edits and flips do not undo each other; lasting breaches are reported |
| Rate limiter (`api/deps.py:23-41`) | sorted set per API key | one Redis transaction per request | called by every ingest request | at most 100 requests in a minute; nobody limited on a quiet key |
| Live stream (`core/websocket.py`, `endpoints/ws.py`) | dictionary org → list of sockets | connect, disconnect, broadcast | ingest requests broadcast; browsers | the registry is exact; each connected client gets each message once; broadcasts end |
| Onboarding (`services/auth.py`, `services/invitation.py`, their repositories) | `organizations`, `users`, `invitations` | signup, invite, accept, expiry | mail task; all of authentication | one account per email; an account is a founder's or was invited |
| Ingest pipeline (`services/ingest.py`, `worker.py:49-60`) | broker queue, `events` | single, batch, CSV; insert task | limiter, stream, evaluator | accepted events are stored once; refused ones are not |
| API keys (`services/api_key.py`) | `api_keys` | create, rotate, (de)activate, authenticate | authenticates ingest | a rotated-out or deactivated key stays dead |
| Dashboards (`services/dashboard.py`, `repositories/dashboard.py`) | `dashboards`, `widgets` | CRUD, aggregation, public read | reads `events` | no widget without dashboard; stale copies undo nothing; charts stay in their organization; private means private |
| Session (`services/auth.py`, `core/security.py`, `Providers.tsx`, `authStore.ts`) | refresh cookie (per browser), access token (per tab) | login, refresh, logout, silent recovery | every page | profile and token agree; logout ends the session; logins run out; recovery ends |
| Workspace pages (`dashboard/page.tsx`, `AlertsAndTeamPanel.tsx`, ...) | list of dashboards, active copy, modals, calls in flight | fetch, create, edit, delete, add widget, tabs | dashboards API | late answers leave the list sound; deleted boards stay off it |
| Live viewer (`LiveStreamViewer.tsx`) | connected flag, last 50 events | effect per access token | live stream | display only |
| Schema and migrations, error mapping, configuration, UI primitives | none at run time | | | constraints and status codes appear in the models that use them |

The hard behaviours, with their lines, are the `hazards` of `PROJECT.json`:
sessions that write what they concluded from stale rows, evaluations that
overlap, workers that crash in mid evaluation, rows deleted under a session,
timestamps taken before the round trip that records them, a list iterated across
awaits while others mutate it, checks and commits of racing requests, answers
lost after a commit, tabs that share a cookie but not a token, answers that
arrive after the page has moved on.

## Modules

| Module | What it is |
|---|---|
| `AlertEngine` | rules, admins' requests, evaluator, events, crashes |
| `AlertFeed` | the abstraction: what the history feed promises its readers |
| `AlertEngineProofs` | type correctness, the inductive invariant, the action properties, the refinement |
| `RateLimiter`, `RateLimiterProofs` | the sorted set of one key; its bound and the bound's converse |
| `LiveStream`, `LiveStreamProofs` | registry, socket handlers, broadcasts; the exact registry and what departures cost |
| `Onboarding`, `OnboardingProofs` | signup, invitation and acceptance; their invariants |
| `ApiKeys` | the table of keys and its concurrent edits |
| `IngestPipeline` | ingest requests, queue, insert task, beside the steps of `ApiKeys` (INSTANCE) |
| `BatchDelivery` | the abstraction: what the pipeline promises of a queued batch |
| `IngestPipelineProofs` | the keys on their own: rotated-out and deactivated ones stay dead; the pipeline's invariant and refinement, and the keys' theorems beside it |
| `Dashboards` | members' edits on copies of rows, the cascade, chart requests of members and strangers |
| `BoardStore` | the abstraction: a store of dashboards whose edits carry no copy |
| `DashboardsProofs` | invariant, privacy, action property and refinement of Dashboards |
| `Session`, `SessionProofs` | cookie, tokens and recovery in a browser's tabs; their invariant, and why a recovery gives up |
| `Workspace`, `WorkspaceProofs` | the dashboard page beside a store that a colleague changes too; its invariant |
| `MCAlertEngine`, `MCRateLimiter`, `MCLiveStream`, `MCOnboarding`, `MCIngestPipeline`, `MCDashboards`, `MCSession`, `MCWorkspace` | symmetry sets and inputs for TLC |

A definition whose comment begins with *Mutant* is a plausible bug: the mutants of
`PROJECT.json` put it in the place of the definition it precedes, and the named
property must then fail. No specification uses one.

### AlertEngine

An action is one database round trip that another session can observe, with the
Python before the next await. The evaluator (`_evaluate_alerts_async`) loads the
rules and their columns into `snapshot` (`list_active_and_triggered_rules`), then
visits them in any order, for the SELECT has no ORDER BY: `EvaluateRule` queries
the count and stages a flip if the *in-memory* status contradicts it,
`create_history_log` commits the status and the log row together. `AbortTick` is an
uncaught exception: the staged UPDATE found no row, or `now - timedelta(...)` fell
before year 1 (`MaxLookback`). `CrashWorker` is the death of the process. Beat only
enqueues (`Beat`), so with two `Workers` evaluations overlap. An admin's PUT or
DELETE is `get_rule` then `update_rule` or `delete_rule`. `FlushColumns` is
SQLAlchemy's net-change UPDATE, `FlippedRow` its status-only one.

`StatusWrites` are the statuses a PUT may carry. The API accepts any; the panel
sends only `muted` and `active` (`AlertsAndTeamPanel.tsx:124`).

### RateLimiter

`TakeTimestamp` reads the clock, a later action runs the MULTI/EXEC block. The set
is a set of timestamps because the member *is* the timestamp's text. `LoseReply` is
a transaction that ran although the caller got an error; the caller fails, or the
Redis client runs the block again. `MaxLag` bounds the time between timestamp and
transaction; it is the parameter the bound depends on.

### LiveStream

An action is the code between two awaits. A broadcast keeps an index into the
organization's list and the identity of that list (`lists` counts how many lists
the organization has had, since an emptied list is deleted from the dictionary
and a new one started). `NextConnection` is Python's list iterator.
`audience` and `departures` are history for the properties: a departure counts for a
broadcast when it removes a socket from the very list object that the broadcast
iterates. `received` counts a message for a connection whose peer is there when the
send completes.

### Onboarding

Each request reads and checks in one round trip and commits in a later one, and
its session keeps what it read. `UniqueEmail` is the unique index on `users.email`
at commit: the loser's transaction, with a flushed organization or a marked
invitation in it, is rolled back whole. `Committed` lets the answer get lost after
the commit: the refresh that follows is one more round trip.

### ApiKeys

A rotation or status edit is `get_by_id_and_org` then `update_key`, in the session of
one request; `create` is a single INSERT. `FlushColumns` is SQLAlchemy's net-change
UPDATE: a column whose assigned value equals the loaded one is not written, which is
why a rotation (`is_active=True` on a key loaded active) does not undo a
deactivation. An id and a secret are generated once, by one request, and carry
its name. `prefix` goes with the hash in every INSERT and UPDATE and is left out.

### IngestPipeline

`get_api_key_org_id` reads the key, `CheckRate` stands for the limiter's verdict (200, 429
or a Redis error), `EventsData` is what a body leaves to store: CSV rows without a
name are skipped. The publisher (`process_events_task.delay`) runs no await, but its
Redis call can fail on either side of the LPUSH: `delay`, `LoseDispatchReply` (the
message is there; Celery's publisher retries, or the request fails) and
`BrokerUnreachable`. `FinishBroadcast` is the end of the broadcast and the 202.
`StartTask` acknowledges the message, `create_events_batch` inserts all rows in one
transaction, `CrashTask` is a worker that dies or cannot reach the database.
`CommittedRows` is the transaction: one row that Postgres or `fromisoformat` rejects
leaves none. `sent` is history; each execution of the task happens once.

### Dashboards

PUT, DELETE and the POST of a widget begin with `get_dashboard`, which loads the row
under the caller's organization, and write in a later round trip: `editor` holds the
row as loaded and the object after the assignments. `FlushColumns` is SQLAlchemy's
net-change UPDATE. `ForeignKeyHolds` is the constraint that refuses a widget whose
dashboard went away, `CascadedWidgets` the ORM's and the database's cascade together:
whichever widgets the session had loaded, none of the dashboard's is left. A DELETE of
a row that is gone is answered 204. `DropEdit` is a request that fails. A chart
request checks access in one query (`get_widget_data`, `get_public_widget_data`) and
counts in another (`query_time_series_data`); `viewer` holds what it knows between.
`name` stands for name and description, which the code treats alike. GETs of
dashboards change nothing and read one row; they are left out, but for the guard
`get_public_dashboard`, which the public chart route repeats.

`BoardStore` is the store such an API promises: `Ask` notes the columns an edit wants
to differ, `TakeEffect` changes these and no others, `Delete` takes the widgets along.
`Wanted` maps a session's two copies of a row to what it wants.

### Session

Each call is sent (`Send`, with the cookie or the bearer token it carries), served, and
received; `LoseCall` loses it on the way or fails it. The cookie belongs to the browser
and changes when an answer is received (`CookieAfter`); a tab's `auth` is the memory of
its page and starts empty. A page load is `LoadPage` (POST /auth/refresh),
`FetchProfile` (GET /users/me with the new token) and `EndRecovery` (`setAuth` or
`clearAuth`, then the `finally`). `Heeded` is the browser's rule for cookies in the
answers to cross-site fetches: only `SameSite=None` ones are taken. `CrossSite` and
`Deployed` say where pages and API live and whether `ENVIRONMENT` is other than `local`.
`login` and `ended` are history for the properties. The browser drops the
cookie after `max_age`, which is the refresh token's own lifetime, so only the
token's `exp` is modelled.

### Workspace

`dashboards` and `activeDashboard` hold copies, as the page does. `Submit` begins a call
and keeps what the closure of that render holds: the id of the active board, and the
list (`handleDeleteDashboard` filters that list, not the current one). `Filtered` says
what a filter is, the entries it keeps in their order (`Orderings`), rather than
calling `SelectSeq`, whose recursion the provers cannot expand. `Serve` is the
store's answer, `Receive` the continuation. Cancelling a modal leaves its call in
flight; a button is disabled while its own call is. `Colleague` is another member's page.
`ReceiveWidget` does what lines 198-216 do: the entry of the closure's board and
the *current* active copy both get the widget.

## Runs

| Run | Instance | Shows |
|---|---|---|
| `alerts_feed` | 1 rule, 1 worker, 2 admins, thresholds 1 and 2, 2 events, crash, no status edits | the feed alternates and agrees with the status, `IInv` is invariant, `AlertEngine` implements `AlertFeed` |
| `alerts_overlap` | 2 workers, 1 admin | what holds even when evaluations overlap: edits do not undo flips, flips do not undo edits, a deleted rule keeps no log |
| `alerts_live` | 2 rules, 1 worker, mute, unmute, delete, crash | lasting breaches are reported and lasting quiet is resolved |
| `limiter_lag` | 5 requests, limit 2, window 4, lag 1 | at most `Limit` admissions in any `Window - MaxLag`; whoever is limited shares its window with `Limit` recorded timestamps |
| `stream` | 3 sockets of 2 organizations, 1 broadcast | exact registry, no message twice, one miss per departure, broadcasts end |
| `onboarding` | 2 people, 2 organizations, 2 tokens, 5 requests | one account and one winner per email, every account founded or invited |
| `ingest` | 2 organizations, 3 edits of keys, 1 request that publishes up to twice, 3 task executions | a message is stored whole and once or not at all (`DeliversBatches`), answers are true, rows stay in their organization, edits of a key do not undo each other |
| `dashboards` | 2 organizations, 2 dashboards, 1 widget, 2 editing sessions, 1 chart request, 1 event | no widget without dashboard, stale copies undo nothing (`ChangesAreAsked`, `ImplementsStore`), charts count their own organization's events, what is never public is never shown to strangers |
| `session` | 2 people, 2 tabs, 2 logins, 3 page loads, lifetimes of one unit, one site | profile and token agree, sign-out is final, logins run out, a recovery ends and restores the session unless a call or a token fails |
| `workspace` | 2 dashboards, 1 widget, a member and a colleague | no board listed twice or with a foreign widget, deleted boards stay off the list, the board under an open settings form changes with the answer to a create only |

Two runs state what the repository says of itself, and TLC refutes it:

| Run | What is said | What happens |
|---|---|---|
| `alerts_poisoned` | "Evaluate active rules every 60 seconds" | one rule with an enormous window aborts every evaluation before other rules are visited |
| `session_signout` | logout will "clear the client's HTTP-only refresh token session cookie" | with pages on vercel.app and the API on onrender.com the login's cookie is `SameSite=None`, logout deletes it with `SameSite=Lax`, which browsers ignore in a cross-site answer: the next page load signs in again |

Other deviations that the models contain, and that the properties above are worded
around:

* Two overlapping evaluations both log the same breach; `FeedAlternates` is checked
  and proved for one worker (`SoleEvaluator`).
* A rule muted between the evaluator's SELECT and its write is logged, and its mute
  overwritten; unmuting a triggered rule writes ACTIVE without a log entry.
* Requests that overtake an older one prune what it must count: more than
  `Limit` may pass in one whole `Window`; `AdmissionBound` is about `Window - MaxLag`.
* A departure during a broadcast shifts the list under the iteration, and the next
  connection misses the message; `OneMissPerDeparture` bounds that.
* On the workspace page a delete drops boards created since its click from the list,
  a late save makes a deleted board active again, and a widget added to one board is
  shown on another that was selected meanwhile, all until a reload. The list never
  shows them wrongly, which is `ListIsSound` and `DroppedStaysOff`.
* `README.md:192` of the repository describes a "+ Add Chart Widget" button; the page
  offers a widget form for empty boards only (`OpenModal`), so the form gives a
  board its first widget.

### Bounds, and why they suffice

`MaxTime`, `MaxEvents`, `MaxTicks`, `MaxUpdates` and `MaxCrashes` bound AlertEngine;
each is named as a bound where it is declared. Rules interact only through one
evaluation's order and its abort, so one rule is enough for the feed and two for
liveness. Windows of one unit in a clock of three let an event enter and
leave the window. The window 9 with `MaxLookback` 2 is the one that overflows.
In the limiter, five requests at limit 2 leave room for pruned, held and overtaking
ones, and a clock of 6 exceeds the window of 4, so that members age out and the
key expires. Three sockets are a departed one, a skipped one and one served; a
broadcast only reads the list, so a second would not affect the first. Five
requests allow a signup, two invitations of one person and two acceptances; two
invitations of different roles stand for those of different organizations, which
would need two more requests and which the proof covers.
Three edits of keys are a creation, a rotation and a deactivation in any
interleaving, or a creation and the edits of two organizations. Ingest requests
share nothing but the tables and the queue; what they do to each other is what the
two messages of one request do, so one request that may publish twice suffices.
Three executions leave one to spare for a message that would be taken twice. A
batch has a row of each kind that the insert treats differently.
Two dashboards, each of either organization, are the one asked for and another under
whose id or organization it might be reached; two editing sessions are two stale
copies, or an addition and a delete, and a chart reads nothing that another chart
writes. Two tabs and two logins are a session and the one that replaces or ends it;
three page loads reload one tab in between. With lifetimes of one unit and a clock of two,
tokens expire between any two steps, and a token issued at the last moment outlives its
login. Two boards on the workspace page are the one a call is about and one selected
meanwhile.

Symmetry is used for ids (rules, admins, workers, requests, people, organizations,
tokens, task executions, boards of the page) and only in runs without liveness. `CHECK_DEADLOCK FALSE` is set where the
system really stops: RateLimiter, LiveStream, Onboarding and IngestPipeline have finitely many
requests or connections, each used once, and end when all are answered or
closed; Dashboards ends when its ids are used up. In Session a stuck page must show as a
violation of `RecoveryEnds`, not as a deadlock. AlertEngine and Workspace keep deadlock
checking: they never stop.

### Fairness

Only `alerts_live`, `alerts_poisoned`, `stream` and `session` assume fairness.

* `WF(Beat)`: the Beat process runs on and enqueues every 60 seconds.
* `WF(WorkerStep(w))`: the worker runs its tasks; Celery restarts a dead child.
  Since `MaxCrashes` bounds the crashes, a worker eventually survives an evaluation.
* `WF(FinishSend(b))`, `WF(disconnect(s))`: the event loop resumes every coroutine,
  and uvicorn's WebSocket pings (20 s) close a connection that stops reading, so
  no send and no receive is suspended for ever.
* `WF(Serve(t))`, `WF(Receive(t))`: a fetch ends with an answer or an error, and the
  code after its `await` runs. `page.tsx` and `Providers.tsx` set no timeout of
  their own; the browser's and the proxy's end a connection that hangs.

Nobody is obliged to send events, edit rules, connect, load a page or crash.
`BreachIsReported` and `QuietIsResolved` speak of rules that stay evaluable: the
clock stops at `MaxTime` in the model, so a breach that lasts is one whose events stay
in the window. They hold although other rules' deletes abort evaluations, because
a behaviour has finitely many rules and updates.

## Proofs

Everything below holds for every value of the constants, under the assumptions that the
modules name.

* **AlertEngineProofs.** `TypeCorrect` needs only `AlertConstants`.
  `InductiveInvariant`, `FeedIsSymmetrical`, `StatusMatchesFeed` and `Refinement` assume
  `SoleEvaluator`: one worker, and no status edits. Both are needed: overlapping
  evaluations log a breach twice, and unmuting a triggered rule writes ACTIVE without a
  log entry, so the next evaluation logs the breach again. `FeedAlternates` is not
  inductive: the evaluator writes what it concluded from its snapshot, so `IInv` adds
  `SessionsAreCurrent` (the status a session loaded for a rule that it has yet to write
  is still the stored one, and a staged flip contradicts it), `StatusAgreesWithFeed`
  (the parity of the feed is the status) and `DeletedRulesHaveNoFeed` (a rule is born
  with an empty feed). The proof has one lemma per action that touches these; the others
  fall under `FeedFrame`. The refinement maps a committed flip to `Raise` or `Clear`,
  POST and DELETE to `Open` and `Close`, everything else to a stutter. Three properties
  hold for any number of workers. `DeletesPurge`: a commit that logs updates a row, so
  it fails when the row is gone. `ConditionsSurviveFlips`: only `create_history_log`
  logs, and it writes the status column alone. `StatusMovesAreLogged` assumes that no
  PUT carries a status (`StatusWrites = {}`) and then holds because a PUT writes back no
  column it did not set.
* **RateLimiterProofs.** `LimiterBound` assumes `FineClock` (timestamps are distinct).
  Consider the request that is let through last among those in a span of `Window -
  MaxLag`. The others have younger stamps than the window at that moment (the clock is
  at most `MaxLag` ahead), so they are still members of the set: nothing that young is
  pruned by anybody's earlier `now`, and the key has not expired. Their stamps are
  distinct, so the cardinality it read counts each of them, and it read less than
  `Limit`. `YoungStampsAreHeld`, `PendingAreRecent`, `StampsDistinct` and
  `AdmittedAreLogged` are these facts. `RefusalsAreEarned`, the converse, needs no
  assumption on the clock: members of the set are recorded timestamps
  (`MembersAreLogged`), what a request counts is in its window or later, and records
  only grow, although the set is pruned and expires.
* **LiveStreamProofs.** `RegistryIsExact` is proved from `PoolsAreRegistries`, which
  says the same without counting: an organization's list is injective and ranges over
  its registered sockets; `remove()` then takes out the only occurrence.
  `NobodyServedTwice` needs to know what a suspended iteration will still meet:
  `Ahead(b)`, the part of the list above the index. `TargetsAreFresh` says that neither
  those sockets nor the current target have the message, and `CastsKnowThePast` that a
  socket which connects later does not have it either. A departure shifts the list,
  which can only take sockets out of `Ahead`. `MissesAreDepartures` counts the ones it
  takes out without removing them: `Skipped(b)` gains at most one member when
  `departures` grows (`SkipsAreCounted`), and when the iteration ends `Ahead` is empty
  and what was missed was skipped.
* **OnboardingProofs.** `OnboardingInvariant` needs no assumption beyond the type of
  `InvitedRoles`. `OneAccountPerEmail`, `AcceptedIsMembership`, `FoundedOnce` and
  `GrantsAreExclusive`, each a theorem of its own (`OneAccountEach`,
  `MembersWereInvited`, `FoundersAlone`, `OneWinnerPerEmail`), rest on each other and on
  `RowsAreLinked`: what a session holds of an invitation is the row but for
  `is_accepted`. Reading steps share one lemma (`ReadingKeeps`), and each committing
  step has its own. An email that is free at commit has no accepted invitation and no
  earlier grant, which is all that the absence of a second check of the invitation
  needs.
* **IngestPipelineProofs, on ApiKeys.** The first part proves the specification of the
  keys alone, under the instance's prefix `Keys!`. `KeysInvariant` says that ids and
  hashes are unique (`KeysAreDistinct`), that a secret in the table comes from a request
  that committed (`SecretsAreCommitted`) and that a session's row still exists in its
  organization (`SessionsAreLinked`). `UpdatedKeyRow` says what an UPDATE may leave of a
  row: its hash or the request's own new one, its status or one that the session saw
  otherwise. `RotationIsFinal` and `DeactivationIsKept` follow: a secret enters the
  table only in the step in which its request commits.
* **IngestPipelineProofs, on the pipeline.** `PipelineInvariant` assumes
  `PipelineConstants` only. A message is in the queue, in exactly one execution, or
  settled (`MessagesAreInOnePlace`); it carries what its request brought
  (`MessagesAreGenuine`), and the request was authenticated for the organization that
  was given the secret (`RequestsStayHome`), which no later rotation changes
  (`CommittedIsFinal`). `EventsStayHome` and `AnswersAreHonest` are consequences. In
  `PipelineDelivers` a dispatch is `Send`, the end of an execution `Store` or `Lose`,
  everything else a stutter. `KeysImplemented` carries the theorems about the keys over.
* **DashboardsProofs.** `BoardsInvariant` assumes `BoardConstants`. A session's
  dashboard exists or existed, in the session's own organization (`SessionsStayHome`);
  since no edit changes `organization_id` and ids are never reused, what a chart request
  concluded of the organization stays true after the dashboard is edited or deleted, and
  `ChartsStayHome` follows. `EditsChangeWhatTheyAsk` needs only what `FlushColumns`
  leaves alone. In `DashboardsImplementStore` loading for a PUT is `Ask`, its commit
  `TakeEffect`, or `Forget` when the row is gone; widgets and deletes map to themselves,
  charts to stutters.
* **SessionProofs.** `SessionInvariant` assumes `SessionConstants`. `TokensAreSound`
  says that each token, in the cookie, a tab or a call, names the user of its login and
  expires in time, from which `TabsKnowWhoTheyAre` and `ReloadsDoNotStretch` follow. For
  `SignOutIsFinal` the invariant adds `LoginsAreFresh`: the cookie that a login's answer
  is about to set is nobody's before. It assumes `~CrossSite`; `session_signout` shows
  that it must. `RecoveriesRestore` is about the answer to a call, which says nothing of
  why it was refused; `RefusedForAge` (`RefusalsAreForAge`) does: a refusal is for the
  age of the token the call carried, and an expired token stays expired until the answer
  is read.
* **WorkspaceProofs.** No assumption. `ListIsSound` and `DroppedStaysOff` are not
  inductive: both depend on what an answer in flight will put into the list.
  `AnswersAreSound` says what that is: the closure's list and the answer's copies are
  sound, a created board is one the page has never seen (`Seen`), a saved board is the
  one its closure names, a delete's list holds no dropped board, a new widget names its
  board. The store hands ids out once (`IdsAreFresh`), so a created board is new to the
  list however long its answer takes. Only one call of each kind is in flight
  (`PageHoldsOne`), because its button is disabled, so no delete is answered while
  another holds an older list. The first GET precedes everything (`LoadingComesFirst`),
  so it overwrites nothing. `SettingsMeanTheirBoard` goes through the actions: every
  other one that changes the active board closes the form or cannot happen under it.

Every safety property that a passing run checks, invariant or action property, is the
statement of a theorem. The invariants of LiveStream and Workspace (`IInv` there) and
`RefusedForAge` of Session were checked by TLC on the instances of the runs before they
were proved; no run lists them, for the runs list what they imply.

Only model-checked: the liveness properties `BreachIsReported`, `QuietIsResolved`,
`CastsEnd` and `RecoveryEnds`, which need fairness and ENABLED, out of the prover's
reach; and the two violation runs, which are counterexamples.

## Not modelled, and why

* Other organizations in AlertEngine: every query filters on `organization_id`; the
  one interference, an aborted evaluation, shows between rules of one organization.
* The reads (GET endpoints, aggregations), which change nothing; names, texts,
  formats and layout.
* JWT and password cryptography, mail delivery (a mock that prints), CORS, routing.
* Failures inside Postgres and Redis, other than losing a connection or a reply;
  Redis redelivering a message that a worker fetched more than an hour ago and has
  not started (Celery's visibility timeout), which would run it twice.
* That an accepted batch is stored eventually: nothing retries a failed task, and the
  backlog may be arbitrarily long. `BatchDelivery` therefore promises no progress.
* A client that sends its batch again: nothing identifies a batch, so it counts as new.
* In the browser: a second click on Sign Out while the first is in flight, a login's
  answer whose headers arrive although its page was reloaded, deactivated accounts (no
  code clears `User.is_active`), an access token that expires under an open page (calls
  then fail with 401 until a reload), and reloads of the workspace page.
* The live viewer: it prepends messages and keeps fifty. Its effect reruns when the
  access token changes, which happens only as the page is left. The public dashboard
  page is one fetch; the alert panel's caches refetch after each mutation.
* Equal timestamps in the limiter are in the model (`FineClock = FALSE`) but in no run:
  they count once, and no bound on requests then holds.

## Plan

1. Proofs: what of AlertEngine's feed survives overlapping evaluations and status edits
   (`SoleEvaluator` dropped); how far above `Limit` a whole `Window` may go.
2. Workspace composed with Session: what a reload or a sign-out does to calls in flight.

Done so far: AlertEngine with its abstraction and refinement, RateLimiter,
LiveStream, Onboarding, ApiKeys, IngestPipeline with its abstraction and
refinement, Dashboards with its abstraction and refinement, Session, Workspace.
