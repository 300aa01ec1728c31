----------------------- MODULE IngestPipelineProofs ------------------------
(***************************************************************************)
(* The invariants of ApiKeys and of IngestPipeline, which composes it with *)
(* the requests, and that the pipeline implements BatchDelivery, for any   *)
(* number of organizations, admins, requests and executions.               *)
(***************************************************************************)
EXTENDS IngestPipeline, TLAPS

-----------------------------------------------------------------------------
(* The keys (module ApiKeys) by themselves.                                *)

LEMMA KeysInit == Keys!Init => Keys!KeysInv
BY DEF Keys!Init, Keys!KeysInv, Keys!TypeOK, Keys!Outcome, Keys!KeysAreDistinct,
       Keys!SessionsAreLinked, Keys!SecretsAreCommitted, Keys!SessionsHoldOne,
       Keys!SecretsStayHome

LEMMA CreateKeepsKeys ==
    ASSUME Keys!KeysInv, NEW a \in Admins, NEW org \in Orgs, Keys!create(a, org)
    PROVE  Keys!KeysInv'
<1> DEFINE new_key == [id |-> a, organization_id |-> org, hashed_key |-> a, is_active |-> TRUE]
           edit == [task |-> "create", organization_id |-> org, api_key |-> new_key]
<1>1. /\ outcome[a] = "none" /\ session[a] = {}
      /\ api_keys' = api_keys \cup {new_key}
      /\ session' = [session EXCEPT ![a] = {edit}]
  BY DEF Keys!create, Keys!Fresh
<1>2. PICK told \in Keys!Committed : outcome' = [outcome EXCEPT ![a] = told]
  BY DEF Keys!create, Keys!Commit
<1>3. new_key \in Keys!ApiKey /\ new_key.id = a /\ new_key.hashed_key = a
      /\ new_key.organization_id = org
  BY DEF Keys!ApiKey
<1>4. edit \in Keys!Edit /\ edit.organization_id = org /\ edit.api_key = new_key
  BY <1>3 DEF Keys!Edit
<1> HIDE DEF new_key, edit
<1>5. Keys!TypeOK'
  BY <1>1, <1>2, <1>3, <1>4 DEF Keys!KeysInv, Keys!TypeOK, Keys!Outcome, Keys!Committed
<1>6. \A k \in api_keys : k.id # a /\ k.hashed_key # a
  BY <1>1 DEF Keys!KeysInv, Keys!SecretsAreCommitted, Keys!Committed
<1>7. Keys!KeysAreDistinct'
  BY <1>1, <1>3, <1>6 DEF Keys!KeysInv, Keys!KeysAreDistinct
<1>8. Keys!SessionsAreLinked'
  <2>1. ASSUME NEW b \in Admins, NEW e \in session'[b]
        PROVE  /\ e.organization_id = e.api_key.organization_id
               /\ e.api_key.hashed_key = b => outcome'[b] \in Keys!Committed
               /\ \E k \in api_keys' : k.id = e.api_key.id
                                       /\ k.organization_id = e.api_key.organization_id
    <3>1. CASE b = a
      BY <1>1, <1>2, <1>3, <1>4, <2>1, <3>1 DEF Keys!KeysInv, Keys!TypeOK
    <3>2. CASE b # a
      BY <1>1, <1>2, <2>1, <3>2 DEF Keys!KeysInv, Keys!TypeOK, Keys!SessionsAreLinked
    <3> QED
      BY <3>1, <3>2
  <2> QED
    BY <2>1 DEF Keys!SessionsAreLinked
<1>9. Keys!SecretsAreCommitted'
  BY <1>1, <1>2, <1>3, <1>6 DEF Keys!KeysInv, Keys!TypeOK, Keys!ApiKey, Keys!SecretsAreCommitted
<1>10. Keys!SessionsHoldOne'
  BY <1>1 DEF Keys!KeysInv, Keys!TypeOK, Keys!SessionsHoldOne
<1>11. Keys!SecretsStayHome'
  BY <1>1, <1>3, <1>4, <1>6 DEF Keys!KeysInv, Keys!TypeOK, Keys!ApiKey, Keys!SecretsStayHome
<1> QED
  BY <1>5, <1>7, <1>8, <1>9, <1>10, <1>11 DEF Keys!KeysInv

LEMMA LoadKeepsKeys ==
    ASSUME Keys!KeysInv, NEW a \in Admins, NEW id \in Admins, NEW org \in Orgs,
           NEW task \in {"rotate", "activate", "deactivate"},
           Keys!get_by_id_and_org(a, id, org, task)
    PROVE  Keys!KeysInv'
<1>1. outcome[a] = "none" /\ session[a] = {} /\ UNCHANGED api_keys
  BY DEF Keys!get_by_id_and_org, Keys!Fresh
<1>2. \A k \in api_keys : k.hashed_key # a
  BY <1>1 DEF Keys!KeysInv, Keys!SecretsAreCommitted, Keys!Committed
<1>3. CASE outcome' = [outcome EXCEPT ![a] = "refused"] /\ UNCHANGED session
  BY <1>1, <1>2, <1>3 DEF Keys!KeysInv, Keys!TypeOK, Keys!Outcome, Keys!Committed,
     Keys!KeysAreDistinct, Keys!SessionsAreLinked, Keys!SecretsAreCommitted,
     Keys!SessionsHoldOne, Keys!SecretsStayHome
<1>4. ASSUME NEW k \in Keys!KeysByIdAndOrg(id, org), UNCHANGED outcome,
             session' = [session EXCEPT ![a] =
                {[task |-> task, organization_id |-> org, api_key |-> k]}]
      PROVE  Keys!KeysInv'
  <2> DEFINE edit == [task |-> task, organization_id |-> org, api_key |-> k]
  <2>1. k \in api_keys /\ k \in Keys!ApiKey /\ k.organization_id = org
    BY <1>4 DEF Keys!KeysByIdAndOrg, Keys!KeysInv, Keys!TypeOK
  <2>2. edit \in Keys!Edit /\ edit.organization_id = org /\ edit.api_key = k
    BY <2>1 DEF Keys!Edit
  <2>3. session' = [session EXCEPT ![a] = {edit}]
    BY <1>4
  <2> HIDE DEF edit
  <2>4. Keys!TypeOK'
    BY <1>1, <1>4, <2>2, <2>3 DEF Keys!KeysInv, Keys!TypeOK
  <2>5. Keys!KeysAreDistinct'
    BY <1>1 DEF Keys!KeysInv, Keys!KeysAreDistinct
  <2>6. Keys!SessionsAreLinked'
    BY <1>1, <1>2, <1>4, <2>1, <2>2, <2>3 DEF Keys!KeysInv, Keys!TypeOK, Keys!SessionsAreLinked
  <2>7. Keys!SecretsAreCommitted' /\ Keys!SecretsStayHome'
    BY <1>1, <1>2, <1>4, <2>3 DEF Keys!KeysInv, Keys!TypeOK, Keys!ApiKey,
       Keys!SecretsAreCommitted, Keys!SecretsStayHome
  <2>8. Keys!SessionsHoldOne'
    BY <2>3 DEF Keys!KeysInv, Keys!TypeOK, Keys!SessionsHoldOne
  <2> QED
    BY <2>4, <2>5, <2>6, <2>7, <2>8 DEF Keys!KeysInv
<1> QED
  BY <1>3, <1>4 DEF Keys!get_by_id_and_org

-----------------------------------------------------------------------------
(* What an UPDATE leaves of each row.                                      *)

UpdatedKey(a, edit, k) ==
    IF k.id = edit.api_key.id THEN Keys!FlushColumns(k, edit.api_key, Keys!Assigned(a, edit)) ELSE k

LEMMA UpdatedKeyRow ==
    ASSUME Keys!KeysInv, NEW a \in Admins, NEW edit \in session[a], NEW k \in api_keys
    PROVE  LET row == UpdatedKey(a, edit, k)
           IN  /\ row \in Keys!ApiKey
               /\ row.id = k.id /\ row.organization_id = k.organization_id
               /\ \/ row.hashed_key = k.hashed_key
                  \/ row.hashed_key = a /\ k.id = edit.api_key.id
               /\ row.is_active =>
                     \/ k.is_active
                     \/ k.id = edit.api_key.id /\ ~edit.api_key.is_active
<1>1. k \in Keys!ApiKey /\ edit \in Keys!Edit
  BY DEF Keys!KeysInv, Keys!TypeOK
<1> DEFINE object == Keys!Assigned(a, edit)
<1>2. /\ object.hashed_key \in {edit.api_key.hashed_key, a}
      /\ object.is_active \in BOOLEAN
  BY <1>1 DEF Keys!Assigned, Keys!Edit, Keys!ApiKey
<1>3. UpdatedKey(a, edit, k) =
        IF k.id = edit.api_key.id THEN Keys!FlushColumns(k, edit.api_key, object) ELSE k
  BY DEF UpdatedKey
<1> HIDE DEF object
<1>4. CASE k.id = edit.api_key.id
  <2> DEFINE row == Keys!FlushColumns(k, edit.api_key, object)
  <2>1. /\ row \in Keys!ApiKey
        /\ row.id = k.id /\ row.organization_id = k.organization_id
        /\ row.hashed_key = IF object.hashed_key = edit.api_key.hashed_key
                            THEN k.hashed_key ELSE object.hashed_key
        /\ row.is_active = IF object.is_active = edit.api_key.is_active
                           THEN k.is_active ELSE object.is_active
    BY <1>1, <1>2 DEF Keys!FlushColumns, Keys!ApiKey, Keys!Edit
  <2> HIDE DEF row
  <2>2. edit.api_key.is_active \in BOOLEAN /\ k.is_active \in BOOLEAN
    BY <1>1 DEF Keys!Edit, Keys!ApiKey
  <2>3. row.is_active => k.is_active \/ ~edit.api_key.is_active
    BY <1>2, <2>1, <2>2
  <2>4. UpdatedKey(a, edit, k) = row
    BY <1>3, <1>4 DEF row
  <2>5. row.hashed_key \in {k.hashed_key, a}
    BY <1>2, <2>1
  <2> QED
    BY <1>4, <2>1, <2>3, <2>4, <2>5
<1>5. CASE k.id # edit.api_key.id
  BY <1>1, <1>3, <1>5
<1> QED
  BY <1>4, <1>5

LEMMA UpdateKeepsKeys ==
    ASSUME Keys!KeysInv, NEW a \in Admins, Keys!update_key(a)
    PROVE  Keys!KeysInv'
<1>1. PICK edit \in session[a] : api_keys' = {UpdatedKey(a, edit, k) : k \in api_keys}
  BY DEF Keys!update_key, UpdatedKey
<1>2. PICK told \in Keys!Committed : outcome' = [outcome EXCEPT ![a] = told]
  BY DEF Keys!update_key, Keys!Commit
<1>3. outcome[a] = "none" /\ UNCHANGED session
  BY DEF Keys!update_key
<1>4. Keys!TypeOK'
  BY <1>1, <1>2, <1>3, UpdatedKeyRow DEF Keys!KeysInv, Keys!TypeOK, Keys!Outcome, Keys!Committed
<1>5. /\ \A k \in api_keys : k.hashed_key # a
      /\ edit.api_key.hashed_key # a
  BY <1>3 DEF Keys!KeysInv, Keys!SecretsAreCommitted, Keys!SessionsAreLinked, Keys!Committed
<1>6. Keys!KeysAreDistinct'
  <2> SUFFICES ASSUME NEW k \in api_keys, NEW l \in api_keys,
                      \/ UpdatedKey(a, edit, k).id = UpdatedKey(a, edit, l).id
                      \/ UpdatedKey(a, edit, k).hashed_key = UpdatedKey(a, edit, l).hashed_key
               PROVE  UpdatedKey(a, edit, k) = UpdatedKey(a, edit, l)
    BY <1>1 DEF Keys!KeysAreDistinct
  <2>1. k.id = l.id \/ k.hashed_key = l.hashed_key
    BY <1>5, UpdatedKeyRow
  <2> QED
    BY <2>1 DEF Keys!KeysInv, Keys!KeysAreDistinct
<1>7. Keys!SessionsAreLinked'
  <2>1. \A k \in api_keys : \E l \in api_keys' :
            l.id = k.id /\ l.organization_id = k.organization_id
    BY <1>1, UpdatedKeyRow
  <2>2. \A b \in Admins : outcome[b] \in Keys!Committed => outcome'[b] \in Keys!Committed
    BY <1>2 DEF Keys!KeysInv, Keys!TypeOK
  <2>3. ASSUME NEW b \in Admins, NEW e \in session[b]
        PROVE  \E l \in api_keys' : l.id = e.api_key.id
                                     /\ l.organization_id = e.api_key.organization_id
    <3>1. PICK k \in api_keys : k.id = e.api_key.id
                                /\ k.organization_id = e.api_key.organization_id
      BY <2>3 DEF Keys!KeysInv, Keys!SessionsAreLinked
    <3> QED
      BY <2>1, <3>1
  <2> QED
    BY <1>3, <2>2, <2>3 DEF Keys!KeysInv, Keys!SessionsAreLinked
<1>8. Keys!SecretsAreCommitted'
  <2> SUFFICES ASSUME NEW k \in api_keys
               PROVE  /\ outcome'[UpdatedKey(a, edit, k).id] \in Keys!Committed
                      /\ outcome'[UpdatedKey(a, edit, k).hashed_key] \in Keys!Committed
                      /\ session[UpdatedKey(a, edit, k).hashed_key] # {}
    BY <1>1, <1>3 DEF Keys!SecretsAreCommitted
  <2>1. k.id \in Admins /\ k.hashed_key \in Admins
    BY DEF Keys!KeysInv, Keys!TypeOK, Keys!ApiKey
  <2> QED
    BY <1>2, <2>1, UpdatedKeyRow DEF Keys!KeysInv, Keys!TypeOK, Keys!SecretsAreCommitted
<1>9. Keys!SessionsHoldOne'
  BY <1>3 DEF Keys!KeysInv, Keys!SessionsHoldOne
<1>10. Keys!SecretsStayHome'
  <2> SUFFICES ASSUME NEW k \in api_keys, NEW e \in session[UpdatedKey(a, edit, k).hashed_key]
               PROVE  e.organization_id = UpdatedKey(a, edit, k).organization_id
    BY <1>1, <1>3 DEF Keys!SecretsStayHome
  <2>1. CASE UpdatedKey(a, edit, k).hashed_key = k.hashed_key
    BY <2>1, UpdatedKeyRow DEF Keys!KeysInv, Keys!SecretsStayHome
  <2>2. CASE UpdatedKey(a, edit, k).hashed_key = a /\ k.id = edit.api_key.id
    <3>1. e = edit
      BY <2>2 DEF Keys!KeysInv, Keys!SessionsHoldOne
    <3>2. PICK l \in api_keys : l.id = edit.api_key.id
                                /\ l.organization_id = edit.organization_id
      BY DEF Keys!KeysInv, Keys!SessionsAreLinked
    <3>3. l = k
      BY <2>2, <3>2 DEF Keys!KeysInv, Keys!KeysAreDistinct
    <3> QED
      BY <3>1, <3>2, <3>3, UpdatedKeyRow
  <2> QED
    BY <2>1, <2>2, UpdatedKeyRow
<1> QED
  BY <1>4, <1>6, <1>7, <1>8, <1>9, <1>10 DEF Keys!KeysInv

LEMMA DropKeepsKeys ==
    ASSUME Keys!KeysInv, NEW a \in Admins, Keys!DropEdit(a)
    PROVE  Keys!KeysInv'
<1>1. /\ outcome[a] = "none"
      /\ outcome' = [outcome EXCEPT ![a] = "failed"]
      /\ UNCHANGED <<api_keys, session>>
  BY DEF Keys!DropEdit
<1>2. Keys!TypeOK'
  BY <1>1 DEF Keys!KeysInv, Keys!TypeOK, Keys!Outcome
<1>3. \A b \in Admins : outcome[b] \in Keys!Committed => outcome'[b] = outcome[b]
  BY <1>1 DEF Keys!KeysInv, Keys!TypeOK, Keys!Committed
<1>4. \A k \in api_keys : k.id \in Admins /\ k.hashed_key \in Admins
  BY DEF Keys!KeysInv, Keys!TypeOK, Keys!ApiKey
<1> QED
  BY <1>1, <1>2, <1>3, <1>4 DEF Keys!KeysInv, Keys!KeysAreDistinct, Keys!SessionsAreLinked,
     Keys!SecretsAreCommitted, Keys!SessionsHoldOne, Keys!SecretsStayHome

LEMMA KeysStep == Keys!KeysInv /\ [Keys!Next]_Keys!keyVars => Keys!KeysInv'
<1> SUFFICES ASSUME Keys!KeysInv, [Keys!Next]_Keys!keyVars PROVE Keys!KeysInv'
  OBVIOUS
<1>1. CASE UNCHANGED Keys!keyVars
  BY <1>1 DEF Keys!keyVars, Keys!KeysInv, Keys!TypeOK, Keys!KeysAreDistinct, Keys!SessionsAreLinked,
     Keys!SecretsAreCommitted, Keys!SessionsHoldOne, Keys!SecretsStayHome
<1>2. CASE Keys!Next
  BY <1>2, CreateKeepsKeys, LoadKeepsKeys, UpdateKeepsKeys, DropKeepsKeys DEF Keys!Next
<1> QED
  BY <1>1, <1>2

\* The table's rows are distinct and linked to sessions and secrets of their
\* own organization, whatever edits interleave.
THEOREM KeysInvariant == Keys!Spec => []Keys!KeysInv
<1>1. Keys!Init => Keys!KeysInv
  BY KeysInit
<1>2. Keys!KeysInv /\ [Keys!Next]_Keys!keyVars => Keys!KeysInv'
  BY KeysStep
<1> QED
  BY <1>1, <1>2, PTL DEF Keys!Spec

-----------------------------------------------------------------------------
(* The action properties.                                                  *)

\* Only the step that commits an edit changes rows or ends a request well.
LEMMA QuietSteps ==
    ASSUME Keys!KeysInv, [Keys!Next]_Keys!keyVars
    PROVE  \/ UNCHANGED api_keys
           \/ \E a \in Admins, org \in Orgs : Keys!create(a, org)
           \/ \E a \in Admins : Keys!update_key(a)
BY DEF Keys!Next, Keys!keyVars, Keys!get_by_id_and_org, Keys!DropEdit

\* A hash that a step brings into the table is the secret of a request that
\* had not committed.
LEMMA NewHashes ==
    ASSUME Keys!KeysInv, [Keys!Next]_Keys!keyVars, NEW l \in api_keys'
    PROVE  Keys!InUse(l.hashed_key) \/ outcome[l.hashed_key] = "none"
<1>1. CASE UNCHANGED api_keys
  BY <1>1 DEF Keys!InUse
<1>2. ASSUME NEW a \in Admins, NEW org \in Orgs, Keys!create(a, org)
      PROVE  l \in api_keys \/ outcome[l.hashed_key] = "none"
  BY <1>2 DEF Keys!create, Keys!Fresh
<1>3. ASSUME NEW a \in Admins, Keys!update_key(a)
      PROVE  Keys!InUse(l.hashed_key) \/ outcome[l.hashed_key] = "none"
  <2>1. PICK edit \in session[a] : api_keys' = {UpdatedKey(a, edit, k) : k \in api_keys}
    BY <1>3 DEF Keys!update_key, UpdatedKey
  <2>2. PICK k \in api_keys : l = UpdatedKey(a, edit, k)
    BY <2>1
  <2>3. l.hashed_key = k.hashed_key \/ l.hashed_key = a
    BY <2>2, UpdatedKeyRow
  <2> QED
    BY <1>3, <2>3 DEF Keys!update_key, Keys!InUse
<1> QED
  BY <1>1, <1>2, <1>3, QuietSteps DEF Keys!InUse

\* A rotated-out secret stays dead.
THEOREM RotationIsFinal == Keys!Spec => Keys!RotatedOutStaysDead
<1>1. ASSUME Keys!KeysInv, [Keys!Next]_Keys!keyVars
      PROVE  [\A s \in Admins : outcome[s] \in Keys!Committed /\ ~Keys!InUse(s)
                                  => ~Keys!InUse(s)']_Keys!keyVars
  <2> SUFFICES ASSUME NEW s \in Admins, outcome[s] \in Keys!Committed,
                      ~Keys!InUse(s), Keys!InUse(s)'
               PROVE  FALSE
    OBVIOUS
  <2>1. PICK l \in api_keys' : l.hashed_key = s
    BY DEF Keys!InUse
  <2> QED
    BY <1>1, <2>1, NewHashes DEF Keys!Committed
<1> QED
  BY <1>1, KeysInvariant, PTL DEF Keys!Spec, Keys!RotatedOutStaysDead

\* A deactivated key is turned on by an edit that found it inactive, or never.
THEOREM DeactivationIsKept == Keys!Spec => Keys!DeactivationSticks
<1>1. ASSUME Keys!KeysInv, [Keys!Next]_Keys!keyVars
      PROVE  [\A k \in api_keys, l \in api_keys' :
                k.id = l.id /\ ~k.is_active /\ l.is_active =>
                    \E a \in Admins : Keys!Reactivates(a, k)]_Keys!keyVars
  <2> SUFFICES ASSUME NEW k \in api_keys, NEW l \in api_keys',
                      k.id = l.id, ~k.is_active, l.is_active
               PROVE  \E a \in Admins : Keys!Reactivates(a, k)
    OBVIOUS
  <2>1. l \notin api_keys
    BY <1>1 DEF Keys!KeysInv, Keys!KeysAreDistinct
  <2>2. ASSUME NEW a \in Admins, NEW org \in Orgs, Keys!create(a, org)
        PROVE  FALSE
    <3>1. l.id = a /\ outcome[a] = "none"
      BY <2>1, <2>2 DEF Keys!create, Keys!Fresh
    <3> QED
      BY <1>1, <3>1 DEF Keys!KeysInv, Keys!SecretsAreCommitted, Keys!Committed
  <2>3. ASSUME NEW a \in Admins, Keys!update_key(a)
        PROVE  Keys!Reactivates(a, k)
    <3>1. PICK edit \in session[a] : api_keys' = {UpdatedKey(a, edit, m) : m \in api_keys}
      BY <2>3 DEF Keys!update_key, UpdatedKey
    <3>2. PICK m \in api_keys : l = UpdatedKey(a, edit, m)
      BY <3>1
    <3>3. m.id = l.id
      BY <1>1, <3>2, UpdatedKeyRow
    <3>4. m = k
      BY <1>1, <3>3 DEF Keys!KeysInv, Keys!KeysAreDistinct
    <3>5. k.id = edit.api_key.id /\ ~edit.api_key.is_active
      BY <1>1, <3>2, <3>4, UpdatedKeyRow
    <3>6. outcome[a] = "none" /\ outcome'[a] \in Keys!Committed
      BY <1>1, <2>3 DEF Keys!update_key, Keys!Commit, Keys!KeysInv, Keys!TypeOK
    <3> QED
      BY <3>5, <3>6 DEF Keys!Reactivates
  <2> QED
    BY <1>1, <2>1, <2>2, <2>3, QuietSteps
<1> QED
  BY <1>1, KeysInvariant, PTL DEF Keys!Spec, Keys!DeactivationSticks

-----------------------------------------------------------------------------
(* What the pipeline needs of the keys.                                    *)

LEMMA KeysStutter == Keys!KeysInv /\ UNCHANGED keyVars => Keys!KeysInv'
BY KeysStep DEF keyVars, Keys!keyVars

\* What a committed request was about does not change any more.
LEMMA CommittedIsFinal ==
    ASSUME Keys!KeysInv, Keys!Next, NEW s \in Admins, outcome[s] \in Keys!Committed
    PROVE  outcome'[s] = outcome[s] /\ session'[s] = session[s]
<1> USE DEF Keys!KeysInv, Keys!TypeOK, Keys!Committed
<1>1. ASSUME NEW a \in Admins, NEW org \in Orgs, Keys!create(a, org)
      PROVE  outcome'[s] = outcome[s] /\ session'[s] = session[s]
  BY <1>1 DEF Keys!create, Keys!Fresh, Keys!Commit
<1>2. ASSUME NEW a \in Admins, NEW org \in Orgs, NEW id \in Admins,
             NEW task \in {"rotate", "activate", "deactivate"},
             Keys!get_by_id_and_org(a, id, org, task)
      PROVE  outcome'[s] = outcome[s] /\ session'[s] = session[s]
  BY <1>2 DEF Keys!get_by_id_and_org, Keys!Fresh
<1>3. ASSUME NEW a \in Admins, Keys!update_key(a)
      PROVE  outcome'[s] = outcome[s] /\ session'[s] = session[s]
  BY <1>3 DEF Keys!update_key, Keys!Commit
<1>4. ASSUME NEW a \in Admins, Keys!DropEdit(a)
      PROVE  outcome'[s] = outcome[s] /\ session'[s] = session[s]
  BY <1>4 DEF Keys!DropEdit
<1> QED
  BY <1>1, <1>2, <1>3, <1>4 DEF Keys!Next

-----------------------------------------------------------------------------
(* Consequences of the other conjuncts.                                    *)

\* A stored row is of the organization of the secret that brought it.
LEMMA HomeFollows ==
    TypeOK /\ MessagesAreInOnePlace /\ MessagesAreGenuine /\ EventsAreGenuine
    /\ RequestsStayHome => EventsStayHome
<1> SUFFICES ASSUME TypeOK, MessagesAreInOnePlace, MessagesAreGenuine, EventsAreGenuine,
                    RequestsStayHome,
                    NEW e \in events, NEW q \in request[e.message.request],
                    NEW edit \in session[q.secret]
             PROVE  edit.organization_id = e.organization_id
  BY DEF EventsStayHome
<1>1. e.execution \in Executions
  BY DEF TypeOK, Event
<1>2. e.message \in sent /\ e.organization_id = e.message.organization_id
  BY <1>1 DEF MessagesAreInOnePlace, EventsAreGenuine
<1>3. e.message.request \in Requests
  BY <1>2 DEF TypeOK, Message
<1> QED
  BY <1>2, <1>3 DEF MessagesAreGenuine, RequestsStayHome

RefusedSentNothing == \A r \in Requests : answer[r] = "refused" => Sends(r) = {}

\* What is accepted has been sent whole.
LEMMA AcceptedFollows ==
    MessagesAreGenuine /\ RequestsStayHome /\ SendsFollowAnswers /\ RefusedSentNothing
    => AnswersAreHonest
<1> SUFFICES ASSUME MessagesAreGenuine, RequestsStayHome, SendsFollowAnswers,
                    RefusedSentNothing,
                    NEW r \in Requests, answer[r] = "accepted"
             PROVE  \E m \in Sends(r), q \in request[r] : m.events_data = EventsData(q.payload)
  BY DEF AnswersAreHonest, RefusedSentNothing
<1>1. PICK m \in Sends(r) : TRUE
  BY DEF SendsFollowAnswers
<1>2. PICK q \in request[r] : TRUE
  BY DEF RequestsStayHome
<1> QED
  BY <1>1, <1>2 DEF Sends, MessagesAreGenuine

-----------------------------------------------------------------------------
(* The steps of the keys.                                                  *)

LEMMA KeysKeep ==
    ASSUME IInv, KeysNext
    PROVE  IInv'
<1>1. UNCHANGED <<webVars, sent, queue, workerVars>> /\ Keys!Next
  BY DEF KeysNext
<1>2. Keys!KeysInv'
  BY <1>1, KeysStep DEF IInv
<1>3. TypeOK'
  BY <1>1, <1>2 DEF IInv, TypeOK, Keys!KeysInv, webVars, workerVars, Message, IngestRequest,
     Answer, Event
<1>4. MessagesAreInOnePlace' /\ MessagesAreGenuine' /\ EventsAreGenuine'
      /\ SendsFollowAnswers' /\ AnswersAreHonest'
  BY <1>1 DEF IInv, webVars, workerVars, MessagesAreInOnePlace, MessagesAreGenuine,
     EventsAreGenuine, SendsFollowAnswers, AnswersAreHonest, Sends
<1>5. RequestsStayHome'
  <2>1. ASSUME NEW r \in Requests, NEW q \in request[r]
        PROVE  outcome'[q.secret] = outcome[q.secret] /\ session'[q.secret] = session[q.secret]
    <3>1. q.secret \in Admins
      BY DEF IInv, TypeOK, IngestRequest
    <3> QED
      BY <1>1, <3>1, CommittedIsFinal DEF IInv, RequestsStayHome
  <2> QED
    BY <1>1, <2>1 DEF IInv, webVars, RequestsStayHome, Keys!Committed
<1> QED
  BY <1>2, <1>3, <1>4, <1>5, HomeFollows, PTL DEF IInv

-----------------------------------------------------------------------------
(* The steps of an ingest request.                                         *)

\* A step that only answers: it may refuse whom it has not sent for, go on with
\* whom it has, and fail anybody.
LEMMA AnsweringKeeps ==
    ASSUME IInv, NEW r \in Requests, answer[r] \notin {"new", "refused"},
           NEW status \in Answer \ {"new", "authenticated"}, Answered(r, status),
           UNCHANGED <<keyVars, request, sent, queue, workerVars>>,
           status = "refused" => Sends(r) = {},
           status \in {"published", "accepted"} => Sends(r) # {}
    PROVE  IInv'
<1>1. Keys!KeysInv'
  BY KeysStutter DEF IInv
<1>2. TypeOK'
  BY <1>1 DEF IInv, TypeOK, Answered, Keys!KeysInv, workerVars, Message, IngestRequest, Event
<1>3. MessagesAreInOnePlace' /\ MessagesAreGenuine' /\ EventsAreGenuine'
  BY DEF IInv, workerVars, MessagesAreInOnePlace, MessagesAreGenuine, EventsAreGenuine
<1>4. \A p \in Requests : answer'[p] = IF p = r THEN status ELSE answer[p]
  BY DEF IInv, TypeOK, Answered
<1>5. RequestsStayHome'
  BY <1>4 DEF IInv, keyVars, RequestsStayHome
<1>6. SendsFollowAnswers'
  BY <1>4 DEF IInv, SendsFollowAnswers, Sends
<1>7. RefusedSentNothing'
  BY <1>4 DEF IInv, AnswersAreHonest, RefusedSentNothing, Sends
<1> QED
  BY <1>1, <1>2, <1>3, <1>5, <1>6, <1>7, HomeFollows, AcceptedFollows, PTL DEF IInv

LEMMA AuthenticationKeeps ==
    ASSUME IInv, NEW r \in Requests, NEW secret \in Admins, NEW payload \in Payloads,
           get_api_key_org_id(r, secret, payload)
    PROVE  IInv'
<1>1. answer[r] = "new" /\ UNCHANGED <<keyVars, sent, queue, workerVars>>
  BY DEF get_api_key_org_id
<1>2. Sends(r) = {} /\ request[r] = {}
  BY <1>1 DEF IInv, SendsFollowAnswers, RequestsStayHome
<1>3. Keys!KeysInv'
  BY <1>1, KeysStutter DEF IInv
<1>4. PICK status \in {"refused", "authenticated"} :
          /\ answer' = [answer EXCEPT ![r] = status]
          /\ status = "refused" => UNCHANGED request
  BY DEF get_api_key_org_id, Answered
<1>5. \A p \in Requests : answer'[p] = IF p = r THEN status ELSE answer[p]
  BY <1>4 DEF IInv, TypeOK
<1>6. /\ request' \in [Requests -> SUBSET IngestRequest]
      /\ \A p \in Requests \ {r} : request'[p] = request[p]
      /\ status = "authenticated" => request'[r] # {}
      /\ \A p, q \in request'[r] : p = q
      /\ \A q \in request'[r] :
            /\ outcome[q.secret] \in Keys!Committed
            /\ \A edit \in session[q.secret] : edit.organization_id = q.organization_id
  <2>1. CASE UNCHANGED request /\ Answered(r, "refused")
    <3>1. status = "refused"
      BY <1>4, <2>1 DEF Answered, IInv, TypeOK
    <3> QED
      BY <1>2, <2>1, <3>1 DEF IInv, TypeOK
  <2>2. ASSUME NEW k \in Keys!get_active_by_hash(secret),
               request' = [request EXCEPT ![r] =
                  {[secret |-> secret, payload |-> payload,
                    organization_id |-> k.organization_id]}]
        PROVE  /\ request' \in [Requests -> SUBSET IngestRequest]
               /\ \A p \in Requests \ {r} : request'[p] = request[p]
               /\ request'[r] # {}
               /\ \A p, q \in request'[r] : p = q
               /\ \A q \in request'[r] :
                     /\ outcome[q.secret] \in Keys!Committed
                     /\ \A edit \in session[q.secret] :
                           edit.organization_id = q.organization_id
    <3> DEFINE brought == [secret |-> secret, payload |-> payload,
                           organization_id |-> k.organization_id]
    <3>1. k \in api_keys /\ k.hashed_key = secret
      BY DEF Keys!get_active_by_hash
    <3>2. k.organization_id \in Orgs
      BY <3>1 DEF IInv, Keys!KeysInv, Keys!TypeOK, Keys!ApiKey
    <3>3. brought \in IngestRequest /\ brought.secret = secret
          /\ brought.organization_id = k.organization_id
      BY <3>2 DEF IngestRequest
    <3>4. request' = [request EXCEPT ![r] = {brought}]
      BY <2>2
    <3> HIDE DEF brought
    <3>5. /\ outcome[secret] \in Keys!Committed
          /\ \A edit \in session[secret] : edit.organization_id = k.organization_id
      BY <3>1 DEF IInv, Keys!KeysInv, Keys!SecretsAreCommitted, Keys!SecretsStayHome
    <3> QED
      BY <3>3, <3>4, <3>5 DEF IInv, TypeOK
  <2> QED
    BY <2>1, <2>2 DEF get_api_key_org_id
<1>7. TypeOK'
  BY <1>1, <1>3, <1>4, <1>6 DEF IInv, TypeOK, Answer, Keys!KeysInv, workerVars, Message, Event,
     IngestRequest
<1>8. MessagesAreInOnePlace' /\ EventsAreGenuine'
  BY <1>1 DEF IInv, workerVars, MessagesAreInOnePlace, EventsAreGenuine
<1>9. MessagesAreGenuine'
  <2>1. \A m \in sent : m.request \in Requests \ {r}
    BY <1>2 DEF IInv, TypeOK, Message, Sends
  <2> QED
    BY <1>1, <1>6, <2>1 DEF IInv, MessagesAreGenuine
<1>10. RequestsStayHome'
  BY <1>1, <1>5, <1>6 DEF IInv, keyVars, RequestsStayHome
<1>11. SendsFollowAnswers' /\ RefusedSentNothing'
  BY <1>1, <1>2, <1>5 DEF IInv, SendsFollowAnswers, AnswersAreHonest, RefusedSentNothing, Sends
<1> QED
  BY <1>3, <1>7, <1>8, <1>9, <1>10, <1>11, HomeFollows, AcceptedFollows, PTL DEF IInv

\* The message that a request sends next, and what becomes of its answer.
LEMMA DispatchKeeps ==
    ASSUME IInv, NEW r \in Requests, Dispatch(r),
           NEW status \in {"admitted", "published", "failed"}, Answered(r, status)
    PROVE  IInv'
<1>1. answer[r] = "admitted" /\ UNCHANGED <<keyVars, request, workerVars>>
  BY DEF Dispatch, ReadyToDispatch
<1>2. PICK q \in request[r], n \in 1 .. MaxCopies, message \in sent' :
          /\ message = [request |-> r, copy |-> n, organization_id |-> q.organization_id,
                        events_data |-> EventsData(q.payload)]
          /\ message.events_data # {}
          /\ \A m \in sent : m.request = r => m.copy # n
          /\ sent' = sent \cup {message} /\ queue' = queue \cup {message}
  BY DEF Dispatch
<1>3. q \in IngestRequest
  BY DEF IInv, TypeOK
<1>4. q.payload.rows \subseteq Row
  BY <1>3, PipelineConstants DEF IngestRequest, Payload, Row
<1>5. /\ message \in Message /\ message.request = r /\ message.copy = n
      /\ message.organization_id = q.organization_id
      /\ message.events_data = EventsData(q.payload)
  BY <1>2, <1>3, <1>4 DEF Message, IngestRequest, EventsData, Row
<1>6. message \notin sent
  BY <1>2, <1>5
<1>7. Keys!KeysInv'
  BY <1>1, KeysStutter DEF IInv
<1>8. TypeOK'
  BY <1>1, <1>2, <1>5, <1>7 DEF IInv, TypeOK, Answered, Answer, Keys!KeysInv, workerVars, Event,
     IngestRequest
<1>9. MessagesAreInOnePlace'
  BY <1>1, <1>2, <1>6 DEF IInv, workerVars, MessagesAreInOnePlace
<1>10. EventsAreGenuine'
  BY <1>1 DEF IInv, workerVars, EventsAreGenuine
<1>11. MessagesAreGenuine'
  <2>1. \A p \in request[r] : p = q
    BY DEF IInv, RequestsStayHome
  <2> QED
    BY <1>1, <1>2, <1>5, <2>1 DEF IInv, MessagesAreGenuine
<1>12. \A p \in Requests : answer'[p] = IF p = r THEN status ELSE answer[p]
  BY DEF IInv, TypeOK, Answered
<1>13. RequestsStayHome'
  BY <1>1, <1>12 DEF IInv, keyVars, RequestsStayHome
<1>14. \A p \in Requests : Sends(p) \subseteq Sends(p)' /\ (p # r => Sends(p)' = Sends(p))
  BY <1>2, <1>5 DEF Sends
<1>15. Sends(r)' # {}
  BY <1>2, <1>5 DEF Sends
<1>16. SendsFollowAnswers' /\ RefusedSentNothing'
  BY <1>1, <1>12, <1>14, <1>15
  DEF IInv, SendsFollowAnswers, AnswersAreHonest, RefusedSentNothing
<1> QED
  BY <1>7, <1>8, <1>9, <1>10, <1>11, <1>13, <1>16, HomeFollows, AcceptedFollows, PTL DEF IInv

-----------------------------------------------------------------------------
(* The steps of the worker.                                                *)

\* They leave requests, answers and keys alone.
LEMMA WorkerFrame ==
    ASSUME IInv, UNCHANGED <<keyVars, webVars, sent>>
    PROVE  /\ Keys!KeysInv' /\ MessagesAreGenuine' /\ RequestsStayHome'
           /\ SendsFollowAnswers' /\ RefusedSentNothing'
<1>1. Keys!KeysInv'
  BY KeysStutter DEF IInv
<1> QED
  BY <1>1 DEF IInv, keyVars, webVars, MessagesAreGenuine, RequestsStayHome, SendsFollowAnswers,
     AnswersAreHonest, RefusedSentNothing, Sends

LEMMA StartKeeps ==
    ASSUME IInv, NEW x \in Executions, NEW m \in queue, StartTask(x, m)
    PROVE  IInv'
<1>1. /\ execution[x] = {} /\ execution' = [execution EXCEPT ![x] = {m}]
      /\ running' = running \cup {x} /\ queue' = queue \ {m}
      /\ UNCHANGED <<keyVars, webVars, sent, events>>
  BY DEF StartTask, Acknowledged
<1>2. TypeOK'
  BY <1>1, WorkerFrame DEF IInv, TypeOK, webVars, Keys!KeysInv, Message, Event, IngestRequest,
     Answer
<1>3. MessagesAreInOnePlace'
  <2>1. m \in sent /\ \A y \in Executions : m \notin execution[y]
    BY DEF IInv, MessagesAreInOnePlace
  <2>2. \A y \in Executions : execution'[y] = IF y = x THEN {m} ELSE execution[y]
    BY <1>1 DEF IInv, TypeOK
  <2> QED
    BY <1>1, <2>1, <2>2 DEF IInv, MessagesAreInOnePlace
<1>4. EventsAreGenuine'
  <2> SUFFICES ASSUME NEW e \in events
               PROVE  /\ e.message \in execution'[e.execution] /\ e.execution \notin running'
                      /\ e.organization_id = e.message.organization_id
    BY <1>1 DEF EventsAreGenuine
  <2>1. e.execution \in Executions
    BY DEF IInv, TypeOK, Event
  <2> QED
    BY <1>1, <2>1 DEF IInv, TypeOK, EventsAreGenuine
<1>5. /\ Keys!KeysInv' /\ MessagesAreGenuine' /\ RequestsStayHome'
      /\ SendsFollowAnswers' /\ RefusedSentNothing'
  BY <1>1, WorkerFrame
<1> QED
  BY <1>2, <1>3, <1>4, <1>5, HomeFollows, AcceptedFollows, PTL DEF IInv

\* A task ends, with whatever rows of its message in the table.
LEMMA EndKeeps ==
    ASSUME IInv, NEW x \in running, EndTask(x), NEW m \in execution[x],
           NEW rows \in SUBSET m.events_data, events' = events \cup Stored(x, m, rows)
    PROVE  IInv'
<1>1. /\ running' = running \ {x}
      /\ UNCHANGED <<keyVars, webVars, sent, queue, execution>>
  BY DEF EndTask
<1>2. x \in Executions /\ m \in Message
  BY DEF IInv, TypeOK
<1>3. ASSUME NEW e \in Stored(x, m, rows)
      PROVE  /\ e \in Event /\ e.execution = x /\ e.message = m
             /\ e.organization_id = m.organization_id
  BY <1>2, <1>3 DEF Stored, Event, Message
<1>4. TypeOK'
  BY <1>1, <1>3, WorkerFrame DEF IInv, TypeOK, webVars, Keys!KeysInv, Message, IngestRequest,
     Answer
<1>5. MessagesAreInOnePlace'
  BY <1>1 DEF IInv, MessagesAreInOnePlace
<1>6. EventsAreGenuine'
  BY <1>1, <1>3 DEF IInv, EventsAreGenuine
<1>7. /\ Keys!KeysInv' /\ MessagesAreGenuine' /\ RequestsStayHome'
      /\ SendsFollowAnswers' /\ RefusedSentNothing'
  BY <1>1, WorkerFrame
<1> QED
  BY <1>4, <1>5, <1>6, <1>7, HomeFollows, AcceptedFollows, PTL DEF IInv

LEMMA InsertKeeps ==
    ASSUME IInv, NEW x \in running, create_events_batch(x)
    PROVE  IInv'
<1>1. PICK m \in execution[x] : events' = events \cup Stored(x, m, CommittedRows(m))
  BY DEF create_events_batch
<1>2. CommittedRows(m) \in SUBSET m.events_data
  BY DEF CommittedRows
<1> QED
  BY <1>1, <1>2, EndKeeps DEF create_events_batch

LEMMA CrashKeeps ==
    ASSUME IInv, NEW x \in running, CrashTask(x)
    PROVE  IInv'
<1>1. PICK m \in execution[x] : TRUE
  BY DEF IInv, TypeOK, MessagesAreInOnePlace
<1>2. Stored(x, m, {}) = {}
  BY DEF Stored
<1> QED
  BY <1>1, <1>2, EndKeeps DEF CrashTask

-----------------------------------------------------------------------------

LEMMA RequestStep ==
    ASSUME IInv, NEW r \in Requests,
           CheckRate(r) \/ RefuseEmpty(r) \/ delay(r) \/ LoseDispatchReply(r)
           \/ BrokerUnreachable(r) \/ FinishBroadcast(r) \/ DropRequest(r)
    PROVE  IInv'
<1>1. CASE CheckRate(r)
  BY <1>1, AnsweringKeeps DEF CheckRate, IInv, SendsFollowAnswers, Answer
<1>2. CASE RefuseEmpty(r)
  <2>1. Sends(r) = {}
    <3> SUFFICES ASSUME NEW m \in Sends(r) PROVE FALSE
      OBVIOUS
    <3>1. m.events_data = {}
      BY <1>2 DEF RefuseEmpty, Sends, IInv, MessagesAreGenuine
    <3> QED
      BY <3>1 DEF Sends, IInv, MessagesAreGenuine
  <2> QED
    BY <1>2, <2>1, AnsweringKeeps DEF RefuseEmpty, Answer
<1>3. CASE delay(r)
  BY <1>3, DispatchKeeps DEF delay
<1>4. CASE LoseDispatchReply(r)
  <2>1. UNCHANGED answer => Answered(r, "admitted")
    BY <1>4 DEF LoseDispatchReply, Dispatch, ReadyToDispatch, Answered, IInv, TypeOK
  <2> QED
    BY <1>4, <2>1, DispatchKeeps DEF LoseDispatchReply
<1>5. CASE BrokerUnreachable(r)
  BY <1>5, AnsweringKeeps DEF BrokerUnreachable, Answer
<1>6. CASE FinishBroadcast(r)
  BY <1>6, AnsweringKeeps DEF FinishBroadcast, Answer, IInv, SendsFollowAnswers
<1>7. CASE DropRequest(r)
  BY <1>7, AnsweringKeeps DEF DropRequest, Answer
<1> QED
  BY <1>1, <1>2, <1>3, <1>4, <1>5, <1>6, <1>7

LEMMA PipelineInit == Init => IInv
<1> SUFFICES ASSUME Init PROVE IInv
  OBVIOUS
<1>1. Keys!KeysInv
  BY KeysInit DEF Init
<1> QED
  BY <1>1 DEF Init, IInv, TypeOK, Keys!KeysInv, Answer, MessagesAreInOnePlace, MessagesAreGenuine,
     EventsAreGenuine, RequestsStayHome, SendsFollowAnswers, AnswersAreHonest, EventsStayHome,
     Sends

LEMMA PipelineStep == IInv /\ [Next]_vars => IInv'
<1> SUFFICES ASSUME IInv, [Next]_vars PROVE IInv'
  OBVIOUS
<1>1. CASE UNCHANGED vars
  <2>1. TypeOK' /\ MessagesAreInOnePlace' /\ EventsAreGenuine'
    BY <1>1, KeysStutter DEF vars, webVars, workerVars, IInv, TypeOK, Keys!KeysInv,
       MessagesAreInOnePlace, EventsAreGenuine, Message, Event, IngestRequest, Answer
  <2>2. /\ Keys!KeysInv' /\ MessagesAreGenuine' /\ RequestsStayHome'
        /\ SendsFollowAnswers' /\ RefusedSentNothing'
    BY <1>1, WorkerFrame DEF vars
  <2> QED
    BY <2>1, <2>2, HomeFollows, AcceptedFollows, PTL DEF IInv
<1>2. CASE KeysNext
  BY <1>2, KeysKeep
<1>3. CASE PipelineNext
  BY <1>3, AuthenticationKeeps, RequestStep, StartKeeps, InsertKeeps, CrashKeeps
  DEF PipelineNext, create_events_batch, CrashTask
<1> QED
  BY <1>1, <1>2, <1>3 DEF Next

\* Every message is in one place and stands for what its request brought;
\* refused requests have sent nothing, accepted ones their whole batch.
THEOREM PipelineInvariant == Spec => []IInv
BY PipelineInit, PipelineStep, PTL DEF Spec

\* No row is stored for another organization than that of the admin who was
\* given the secret.
THEOREM EventsAreHome == Spec => []EventsStayHome
<1>1. IInv => EventsStayHome
  BY DEF IInv
<1> QED
  BY <1>1, PipelineInvariant, PTL

\* What a client is told about its batch is true.
THEOREM AnswersHonest == Spec => []AnswersAreHonest
<1>1. IInv => AnswersAreHonest
  BY DEF IInv
<1> QED
  BY <1>1, PipelineInvariant, PTL

-----------------------------------------------------------------------------
(* What was said of edits of keys holds beside the pipeline as well.       *)

\* Every step is a step of the keys or leaves them alone.
LEMMA KeysImplemented == Spec => Keys!Spec
<1>1. Init => Keys!Init
  BY DEF Init
<1>2. [Next]_vars => [Keys!Next]_Keys!keyVars
  <2> SUFFICES ASSUME [Next]_vars PROVE Keys!Next \/ UNCHANGED <<api_keys, session, outcome>>
    BY DEF Keys!keyVars
  <2>1. CASE KeysNext
    BY <2>1 DEF KeysNext
  <2>2. CASE PipelineNext
    BY <2>2 DEF PipelineNext, keyVars, get_api_key_org_id, CheckRate, RefuseEmpty, delay,
       LoseDispatchReply, Dispatch, BrokerUnreachable, FinishBroadcast, DropRequest, StartTask,
       create_events_batch, CrashTask, EndTask
  <2> QED
    BY <2>1, <2>2 DEF Next, vars, keyVars
<1> QED
  BY <1>1, <1>2, PTL DEF Spec, Keys!Spec

\* A rotated-out secret stays dead, whatever the pipeline does beside.
THEOREM SecretsStayDead == Spec => RotatedOutStaysDead
BY KeysImplemented, RotationIsFinal, PTL DEF RotatedOutStaysDead

\* Edits that loaded a key active do not undo its deactivation.
THEOREM KeysStayOff == Spec => DeactivationSticks
BY KeysImplemented, DeactivationIsKept, PTL DEF DeactivationSticks

-----------------------------------------------------------------------------
(* The refinement.                                                         *)

Settled == sent \ (queue \cup UNION {execution[x] : x \in running})

LEMMA SettledIs ==
    ASSUME IInv
    PROVE  \A m \in sent : m \in Settled <=>
               m \notin queue /\ \A x \in running : m \notin execution[x]
BY DEF Settled

LEMMA RefinementInit == Init => Delivery!Init
BY DEF Init, Delivery!Init

\* A message is queued.
LEMMA DispatchSends ==
    ASSUME IInv, NEW r \in Requests, Dispatch(r), IInv'
    PROVE  \E m \in Message : Delivery!Send(m)
<1>1. PICK m \in sent' : /\ \A n \in sent : n.request = r => n.copy # m.copy
                         /\ m.request = r
                         /\ sent' = sent \cup {m} /\ queue' = queue \cup {m}
  BY DEF Dispatch
<1>2. m \in Message /\ m \notin sent
  BY <1>1 DEF IInv, TypeOK
<1>3. UNCHANGED workerVars
  BY DEF Dispatch
<1>4. Settled' = Settled
  BY <1>1, <1>2, <1>3 DEF Settled, workerVars, IInv, MessagesAreInOnePlace, TypeOK
<1> QED
  BY <1>1, <1>2, <1>3, <1>4 DEF Delivery!Send, Settled, workerVars

\* A task that ends settles its message.
LEMMA EndSettles ==
    ASSUME IInv, NEW x \in running, NEW m \in execution[x], EndTask(x)
    PROVE  m \in Message /\ Delivery!Settle(m)
<1>1. running' = running \ {x} /\ UNCHANGED <<sent, queue, execution>>
  BY DEF EndTask
<1>2. x \in Executions /\ m \in Message /\ m \in sent \ queue /\ running \subseteq Executions
  BY DEF IInv, TypeOK, MessagesAreInOnePlace
<1>3. \A y \in running : m \in execution[y] => y = x
  BY <1>2 DEF IInv, MessagesAreInOnePlace
<1>4. \A n \in execution[x] : n = m
  BY <1>2 DEF IInv, MessagesAreInOnePlace
<1>5. m \notin Settled /\ Settled' = Settled \cup {m}
  BY <1>1, <1>2, <1>3, <1>4 DEF Settled
<1> QED
  BY <1>1, <1>2, <1>5 DEF Delivery!Settle, Settled

LEMMA InsertDelivers ==
    ASSUME IInv, NEW x \in running, create_events_batch(x)
    PROVE  \E m \in Message : Delivery!Lose(m) \/ \E y \in Executions : Delivery!Store(m, y)
<1>1. PICK m \in execution[x] : events' = events \cup Stored(x, m, CommittedRows(m))
  BY DEF create_events_batch
<1>2. m \in Message /\ Delivery!Settle(m) /\ x \in Executions
  BY EndSettles DEF create_events_batch, IInv, TypeOK
<1>3. CASE "unstorable" \in m.events_data
  <2>1. events' = events
    BY <1>1, <1>3 DEF CommittedRows, Stored
  <2> QED
    BY <1>2, <2>1 DEF Delivery!Lose
<1>4. CASE "unstorable" \notin m.events_data
  <2>1. events' = events \cup Delivery!Inserted(x, m)
    BY <1>1, <1>4 DEF CommittedRows, Stored, Delivery!Inserted
  <2> QED
    BY <1>2, <2>1 DEF Delivery!Store
<1> QED
  BY <1>3, <1>4

LEMMA RefinementStep == IInv /\ IInv' /\ [Next]_vars => [Delivery!Next]_<<sent, Settled, events>>
<1> SUFFICES ASSUME IInv, IInv', [Next]_vars
             PROVE  Delivery!Next \/ UNCHANGED <<sent, Settled, events>>
  OBVIOUS
<1>1. CASE UNCHANGED <<sent, queue, workerVars>>
  BY <1>1 DEF Settled, workerVars
<1>2. ASSUME NEW r \in Requests, Dispatch(r)
      PROVE  Delivery!Next
  BY <1>2, DispatchSends DEF Delivery!Next
<1>3. ASSUME NEW x \in Executions, NEW m \in queue, StartTask(x, m)
      PROVE  UNCHANGED <<sent, Settled, events>>
  <2>1. /\ execution[x] = {} /\ execution' = [execution EXCEPT ![x] = {m}]
        /\ running' = running \cup {x} /\ queue' = queue \ {m}
        /\ UNCHANGED <<sent, events>>
    BY <1>3 DEF StartTask, Acknowledged
  <2>2. x \notin running /\ running \subseteq Executions
    BY <1>3, <2>1 DEF IInv, TypeOK, MessagesAreInOnePlace
  <2>3. /\ \A y \in running : execution'[y] = execution[y]
        /\ execution'[x] = {m}
    BY <1>3, <2>1, <2>2 DEF IInv, TypeOK
  <2>4. Settled' = Settled
    BY <2>1, <2>2, <2>3 DEF Settled
  <2> QED
    BY <2>1, <2>4
<1>4. ASSUME NEW x \in running, create_events_batch(x)
      PROVE  Delivery!Next
  BY <1>4, InsertDelivers DEF Delivery!Next
<1>5. ASSUME NEW x \in running, CrashTask(x)
      PROVE  Delivery!Next
  <2>1. PICK m \in execution[x] : TRUE
    BY DEF IInv, TypeOK, MessagesAreInOnePlace
  <2> QED
    BY <1>5, <2>1, EndSettles DEF CrashTask, Delivery!Lose, Delivery!Next
<1>6. CASE UNCHANGED vars
  BY <1>1, <1>6 DEF vars
<1>7. CASE KeysNext
  BY <1>1, <1>7 DEF KeysNext
<1>8. CASE PipelineNext
  BY <1>1, <1>2, <1>3, <1>4, <1>5, <1>8
  DEF PipelineNext, get_api_key_org_id, CheckRate, RefuseEmpty, delay, LoseDispatchReply,
      BrokerUnreachable, FinishBroadcast, DropRequest, create_events_batch, CrashTask
<1> QED
  BY <1>6, <1>7, <1>8 DEF Next

\* However the publisher retries, rows fail and workers die, a batch is stored
\* whole and once for each message, or not at all.
THEOREM PipelineDelivers == Spec => DeliversBatches
<1>1. Init => Delivery!Init
  BY RefinementInit
<1>2. IInv /\ IInv' /\ [Next]_vars => [Delivery!Next]_Delivery!vars
  BY RefinementStep DEF Delivery!vars, Settled
<1> QED
  BY <1>1, <1>2, PipelineInvariant, PTL DEF Spec, DeliversBatches, Delivery!Spec

=============================================================================
