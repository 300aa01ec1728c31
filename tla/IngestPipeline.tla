--------------------------- MODULE IngestPipeline ---------------------------
(***************************************************************************)
(* An event's way into the database.  A request to /ingest authenticates   *)
(* with an API key and passes the rate limiter (api/deps.py), queues its   *)
(* events for process_events_task and broadcasts them (services/ingest.py);*)
(* a Celery worker inserts them (app/worker.py, repositories/event.py).    *)
(*                                                                         *)
(* The keys change meanwhile: every step of ApiKeys is a step here.  Of    *)
(* the limiter (RateLimiter) only the verdict matters, and a broadcast     *)
(* (LiveStream) is part of the time between publishing and answering.      *)
(***************************************************************************)
EXTENDS Naturals

CONSTANTS
    Orgs, Admins,   \* as in ApiKeys
    Requests,       \* ingest requests
    Payloads,       \* what clients may send
    Executions,     \* bound: executions of process_events_task
    MaxCopies       \* bound: how often the publisher retries one message, plus 1

\* A row that Postgres stores; one that makes the insert fail (in a CSV file a
\* timestamp that fromisoformat rejects or an overlong name; anywhere a NUL
\* character); a CSV row without event_name.
Row == {"good", "unstorable", "nameless"}

\* A CSV body without rows stands for any that cannot be read as well: one with
\* another extension or encoding.
Payload == [form: {"json"}, rows: SUBSET {"good", "unstorable"} \ {{}}]
           \cup [form: {"csv"}, rows: SUBSET Row]

ASSUME PipelineConstants ==
    /\ Payloads \subseteq Payload
    /\ MaxCopies \in Nat

VARIABLES
    api_keys, session, outcome,     \* as in ApiKeys
    request,    \* what each ingest request has brought and loaded: {} or one record
    answer,     \* where each ingest request stands
    sent,       \* messages ever published (history variable)
    queue,      \* messages in Redis, or fetched by a worker and not started
    execution,  \* the message each execution of the task has taken: {} or one
    running,    \* executions in progress
    events      \* rows of events

Keys == INSTANCE ApiKeys

keyVars == <<api_keys, session, outcome>>
webVars == <<request, answer>>
workerVars == <<execution, running, events>>
vars == <<keyVars, webVars, sent, queue, workerVars>>

\* copy tells the messages of one request apart: the publisher may retry.
Message == [request: Requests, copy: 1 .. MaxCopies, organization_id: Orgs,
            events_data: SUBSET {"good", "unstorable"}]

IngestRequest == [secret: Admins, payload: Payloads, organization_id: Orgs]

\* "failed" is a 500, a 422 from the publisher, or no answer at all.
Answer == {"new", "authenticated", "admitted", "published",
           "accepted", "refused", "failed"}

Event == [execution: Executions, message: Message, organization_id: Orgs,
          row: {"good", "unstorable"}]

TypeOK ==
    /\ Keys!TypeOK
    /\ request \in [Requests -> SUBSET IngestRequest]
    /\ answer \in [Requests -> Answer]
    /\ sent \subseteq Message
    /\ queue \subseteq Message
    /\ execution \in [Executions -> SUBSET Message]
    /\ running \subseteq Executions
    /\ events \subseteq Event

Init ==
    /\ Keys!Init
    /\ request = [r \in Requests |-> {}]
    /\ answer = [r \in Requests |-> "new"]
    /\ sent = {}
    /\ queue = {}
    /\ execution = [x \in Executions |-> {}]
    /\ running = {}
    /\ events = {}

-----------------------------------------------------------------------------
(* The ingest request.                                                     *)

Answered(r, status) == answer' = [answer EXCEPT ![r] = status]

\* The key is read here and not again: what an admin does to it later does not
\* stop this request.
get_api_key_org_id(r, secret, payload) ==
    /\ answer[r] = "new"
    /\ \/ /\ Keys!get_active_by_hash(secret) = {}
          /\ Answered(r, "refused")
          /\ UNCHANGED request
       \/ \E k \in Keys!get_active_by_hash(secret) :
          /\ request' = [request EXCEPT ![r] =
                {[secret |-> secret, payload |-> payload,
                  organization_id |-> k.organization_id]}]
          /\ Answered(r, "authenticated")
    /\ UNCHANGED <<keyVars, sent, queue, workerVars>>

CheckRate(r) ==
    /\ answer[r] = "authenticated"
    /\ \E status \in {"admitted", "refused", "failed"} : Answered(r, status)
    /\ UNCHANGED <<keyVars, request, sent, queue, workerVars>>

\* Rows without event_name are skipped.
EventsData(payload) == payload.rows \ {"nameless"}

\* Nothing to store: a 400 that the handler's own except clause makes a 422.
RefuseEmpty(r) ==
    /\ answer[r] = "admitted"
    /\ \E q \in request[r] : EventsData(q.payload) = {}
    /\ Answered(r, "refused")
    /\ UNCHANGED <<keyVars, request, sent, queue, workerVars>>

\* Mutant: the task is dispatched before the limiter has its say.
EarlyDispatch(r) == answer[r] \in {"authenticated", "admitted"}

ReadyToDispatch(r) == answer[r] = "admitted"

\* The message is in Redis.
Dispatch(r) ==
    /\ ReadyToDispatch(r)
    /\ \E q \in request[r], n \in 1 .. MaxCopies :
          LET message == [request |-> r, copy |-> n,
                          organization_id |-> q.organization_id,
                          events_data |-> EventsData(q.payload)]
          IN  /\ message.events_data # {}
              /\ \A m \in sent : m.request = r => m.copy # n
              /\ sent' = sent \cup {message}
              /\ queue' = queue \cup {message}
    /\ UNCHANGED <<keyVars, request, workerVars>>

delay(r) == Dispatch(r) /\ Answered(r, "published")

\* Redis took the message but its reply was lost: the publisher tries again,
\* or gives up and the request fails although its events are queued.
LoseDispatchReply(r) == Dispatch(r) /\ (UNCHANGED answer \/ Answered(r, "failed"))

BrokerUnreachable(r) ==
    /\ answer[r] = "admitted"
    /\ \E q \in request[r] : EventsData(q.payload) # {}
    /\ Answered(r, "failed")
    /\ UNCHANGED <<keyVars, request, sent, queue, workerVars>>

\* The broadcast raises nothing; after it the request is answered with 202.
FinishBroadcast(r) ==
    /\ answer[r] = "published"
    /\ Answered(r, "accepted")
    /\ UNCHANGED <<keyVars, request, sent, queue, workerVars>>

\* The client, the database connection or the server goes away.
DropRequest(r) ==
    /\ answer[r] \in {"authenticated", "admitted", "published"}
    /\ Answered(r, "failed")
    /\ UNCHANGED <<keyVars, request, sent, queue, workerVars>>

-----------------------------------------------------------------------------
(* process_events_task.                                                    *)

\* Mutant: starting the task does not acknowledge the message.
KeepUntilDone(m) == queue

\* Celery's default: the message is acknowledged when the task starts.
Acknowledged(m) == queue \ {m}

StartTask(x, m) ==
    /\ m \in queue
    /\ execution[x] = {}
    /\ execution' = [execution EXCEPT ![x] = {m}]
    /\ running' = running \cup {x}
    /\ queue' = Acknowledged(m)
    /\ UNCHANGED <<keyVars, webVars, sent, events>>

EndTask(x) ==
    /\ running' = running \ {x}
    /\ UNCHANGED <<keyVars, webVars, sent, queue, execution>>

Stored(x, m, rows) ==
    {[execution |-> x, message |-> m, organization_id |-> m.organization_id, row |-> e] :
        e \in rows}

\* Mutant: every row is committed on its own, up to the one that fails.
StorableRows(m) == m.events_data \ {"unstorable"}

\* All rows are in one transaction: one that fails leaves nothing.
CommittedRows(m) == IF "unstorable" \in m.events_data THEN {} ELSE m.events_data

\* The task ends with the commit, or with an exception that nobody retries.  If
\* only the commit's reply is lost, the task fails but its rows are there.
create_events_batch(x) ==
    /\ x \in running
    /\ \E m \in execution[x] : events' = events \cup Stored(x, m, CommittedRows(m))
    /\ EndTask(x)

\* The database cannot be reached, or the worker's process dies.
CrashTask(x) ==
    /\ x \in running
    /\ EndTask(x)
    /\ UNCHANGED events

PipelineNext ==
    \/ \E r \in Requests :
          \/ \E secret \in Admins, payload \in Payloads : get_api_key_org_id(r, secret, payload)
          \/ CheckRate(r) \/ RefuseEmpty(r)
          \/ delay(r) \/ LoseDispatchReply(r) \/ BrokerUnreachable(r)
          \/ FinishBroadcast(r) \/ DropRequest(r)
    \/ \E x \in Executions :
          \/ \E m \in queue : StartTask(x, m)
          \/ create_events_batch(x) \/ CrashTask(x)

KeysNext == Keys!Next /\ UNCHANGED <<webVars, sent, queue, workerVars>>

Next == PipelineNext \/ KeysNext

Spec == Init /\ [][Next]_vars

-----------------------------------------------------------------------------
(* Properties.                                                             *)

\* Edits of keys: see ApiKeys.
RotatedOutStaysDead == Keys!RotatedOutStaysDead
DeactivationSticks == Keys!DeactivationSticks

\* Whatever the publisher's retries, failing rows and dying workers do, each
\* message is stored whole and once or not at all.
Delivery == INSTANCE BatchDelivery WITH
    settled <- sent \ (queue \cup UNION {execution[x] : x \in running})

DeliversBatches == Delivery!Spec

\* A client that is told 202 has its whole batch with the pipeline, and one
\* that is told 401, 422 (nothing to store) or 429 has left nothing in it.
Sends(r) == {m \in sent : m.request = r}

AnswersAreHonest ==
    \A r \in Requests :
        /\ answer[r] = "refused" => Sends(r) = {}
        /\ answer[r] = "accepted" =>
              \E m \in Sends(r), q \in request[r] : m.events_data = EventsData(q.payload)

\* Every stored row belongs to the organization whose admin was given the
\* secret that brought it, however keys were rotated before or after.
EventsStayHome ==
    \A e \in events : \A q \in request[e.message.request] :
        \A edit \in session[q.secret] : edit.organization_id = e.organization_id

-----------------------------------------------------------------------------
(* The inductive invariant.                                                *)

\* Each message is in one place: queued, in one execution, or settled.
MessagesAreInOnePlace ==
    /\ queue \subseteq sent
    /\ \A x \in Executions :
          /\ execution[x] \subseteq sent \ queue
          /\ execution[x] = {} => x \notin running
          /\ \A m, n \in execution[x] : m = n
          /\ \A y \in Executions : execution[x] \cap execution[y] # {} => x = y

\* A message carries what its request brought.
MessagesAreGenuine ==
    \A m \in sent :
        /\ request[m.request] # {} /\ m.events_data # {}
        /\ \A q \in request[m.request] :
              /\ m.organization_id = q.organization_id
              /\ m.events_data = EventsData(q.payload)

\* A row stems from an execution of its message.
EventsAreGenuine ==
    \A e \in events :
        /\ e.message \in execution[e.execution]
        /\ e.execution \notin running
        /\ e.organization_id = e.message.organization_id

\* What a request has authenticated with was given to its organization.
RequestsStayHome ==
    \A r \in Requests :
        /\ answer[r] = "new" => request[r] = {}
        /\ answer[r] \notin {"new", "refused"} => request[r] # {}
        /\ \A p, q \in request[r] : p = q
        /\ \A q \in request[r] :
              /\ outcome[q.secret] \in Keys!Committed
              /\ \A edit \in session[q.secret] : edit.organization_id = q.organization_id

\* Nothing is sent for a request that has not been through the limiter, and
\* something has been for one that goes on.
SendsFollowAnswers ==
    \A r \in Requests :
        /\ answer[r] \in {"new", "authenticated"} => Sends(r) = {}
        /\ answer[r] \in {"published", "accepted"} => Sends(r) # {}

IInv ==
    /\ TypeOK
    /\ Keys!KeysInv
    /\ MessagesAreInOnePlace
    /\ MessagesAreGenuine
    /\ EventsAreGenuine
    /\ RequestsStayHome
    /\ SendsFollowAnswers
    /\ AnswersAreHonest
    /\ EventsStayHome

=============================================================================
