------------------------------ MODULE ApiKeys ------------------------------
(***************************************************************************)
(* The API keys of the organizations: created, rotated, activated and      *)
(* deactivated by owners and admins (services/api_key.py), and looked up   *)
(* by the hash of what an ingest request presents (api/deps.py).           *)
(*                                                                         *)
(* A rotation or a status edit loads the row in one round trip and commits *)
(* in a later one.  The UPDATE sets the columns whose value differs from   *)
(* the loaded one, so requests that edit one key together mix.             *)
(*                                                                         *)
(* Ids (uuid4) and secrets (32 random bytes) are generated once, by one    *)
(* request: both are named after it.  A row holds the SHA-256 of the       *)
(* secret; it matches that secret and no other.                            *)
(***************************************************************************)
CONSTANTS
    Orgs,       \* organizations
    Admins      \* requests by owners and admins, each made once

VARIABLES
    api_keys,   \* rows of api_keys
    session,    \* what each request works on: {} or one record
    outcome     \* what became of each request

keyVars == <<api_keys, session, outcome>>

ApiKey == [id: Admins, organization_id: Orgs, hashed_key: Admins, is_active: BOOLEAN]

\* organization_id is that of the user; api_key the row as created or loaded.
Edit == [task: {"create", "rotate", "activate", "deactivate"},
         organization_id: Orgs, api_key: ApiKey]

\* "failed": nothing was committed; "lost": committed, but the answer was lost.
Outcome == {"none", "refused", "failed", "granted", "lost"}
Committed == {"granted", "lost"}

TypeOK ==
    /\ api_keys \subseteq ApiKey
    /\ session \in [Admins -> SUBSET Edit]
    /\ outcome \in [Admins -> Outcome]

Init ==
    /\ api_keys = {}
    /\ session = [a \in Admins |-> {}]
    /\ outcome = [a \in Admins |-> "none"]

-----------------------------------------------------------------------------
Fresh(a) == outcome[a] = "none" /\ session[a] = {}

\* The refresh that follows every commit, or the connection, may fail.
Commit(a) == \E told \in Committed : outcome' = [outcome EXCEPT ![a] = told]

create(a, org) ==
    LET new_key == [id |-> a, organization_id |-> org, hashed_key |-> a, is_active |-> TRUE]
    IN  /\ Fresh(a)
        /\ api_keys' = api_keys \cup {new_key}
        /\ session' = [session EXCEPT ![a] =
              {[task |-> "create", organization_id |-> org, api_key |-> new_key]}]
        /\ Commit(a)

\* Mutant: the query forgets the organization.
KeysById(id, org) == {k \in api_keys : k.id = id}

KeysByIdAndOrg(id, org) == {k \in api_keys : k.id = id /\ k.organization_id = org}

get_by_id_and_org(a, id, org, task) ==
    /\ Fresh(a)
    /\ \/ /\ KeysByIdAndOrg(id, org) = {}
          /\ outcome' = [outcome EXCEPT ![a] = "refused"]
          /\ UNCHANGED session
       \/ \E k \in KeysByIdAndOrg(id, org) :
          /\ session' = [session EXCEPT ![a] =
                {[task |-> task, organization_id |-> org, api_key |-> k]}]
          /\ UNCHANGED outcome
    /\ UNCHANGED api_keys

\* The object in memory after the assignments: a rotation assigns the new hash
\* and is_active=True, a status edit is_active alone.
Assigned(a, edit) ==
    [edit.api_key EXCEPT !.hashed_key = IF edit.task = "rotate" THEN a ELSE @,
                         !.is_active = edit.task # "deactivate"]

\* Mutant: the UPDATE sets every column, changed or not.
FlushAllColumns(row, loaded, object) ==
    [row EXCEPT !.hashed_key = object.hashed_key, !.is_active = object.is_active]

\* Mutant: is_active is set whether or not it differs from what was loaded.
FlushStatusAlways(row, loaded, object) ==
    [row EXCEPT !.hashed_key = IF object.hashed_key = loaded.hashed_key
                               THEN @ ELSE object.hashed_key,
                !.is_active = object.is_active]

\* What an UPDATE of the columns that differ from the loaded ones leaves.
FlushColumns(row, loaded, object) ==
    [row EXCEPT !.hashed_key = IF object.hashed_key = loaded.hashed_key
                               THEN @ ELSE object.hashed_key,
                !.is_active = IF object.is_active = loaded.is_active
                              THEN @ ELSE object.is_active]

update_key(a) ==
    /\ outcome[a] = "none"
    /\ \E edit \in session[a] :
          api_keys' = {IF k.id = edit.api_key.id
                       THEN FlushColumns(k, edit.api_key, Assigned(a, edit))
                       ELSE k : k \in api_keys}
    /\ Commit(a)
    /\ UNCHANGED session

\* The request's connection to the database, or the server, goes away.
DropEdit(a) ==
    /\ outcome[a] = "none"
    /\ session[a] # {}
    /\ outcome' = [outcome EXCEPT ![a] = "failed"]
    /\ UNCHANGED <<api_keys, session>>

Next ==
    \E a \in Admins :
        \/ \E org \in Orgs :
              \/ create(a, org)
              \/ \E id \in Admins, task \in {"rotate", "activate", "deactivate"} :
                    get_by_id_and_org(a, id, org, task)
        \/ update_key(a)
        \/ DropEdit(a)

Spec == Init /\ [][Next]_keyVars

-----------------------------------------------------------------------------
(* The lookup of get_api_key_org_id.                                       *)

\* The rows that authenticate whoever presents this secret.
get_active_by_hash(secret) == {k \in api_keys : k.hashed_key = secret /\ k.is_active}

-----------------------------------------------------------------------------
(* Properties.                                                             *)

InUse(secret) == \E k \in api_keys : k.hashed_key = secret

\* "Invalidating the old hash": once a rotation has replaced a secret, no edit
\* that loaded the row before brings the secret back.
RotatedOutStaysDead ==
    [][\A s \in Admins : outcome[s] \in Committed /\ ~InUse(s) => ~InUse(s)']_keyVars

\* Only a request that found the key inactive turns it on: a rotation or an
\* activation that loaded the key active does not undo a deactivation that
\* came in between.
Reactivates(a, k) ==
    /\ outcome[a] = "none" /\ outcome'[a] \in Committed
    /\ \E edit \in session[a] : edit.api_key.id = k.id /\ ~edit.api_key.is_active

DeactivationSticks ==
    [][\A k \in api_keys, l \in api_keys' :
          k.id = l.id /\ ~k.is_active /\ l.is_active =>
              \E a \in Admins : Reactivates(a, k)]_keyVars

\* A secret authenticates for the organization whose admin was given it.
SecretsStayHome ==
    \A k \in api_keys : \A edit \in session[k.hashed_key] :
        edit.organization_id = k.organization_id

-----------------------------------------------------------------------------
(* The inductive invariant.                                                *)

\* Ids and hashes are unique, as the table's constraints ask: the INSERT and
\* the UPDATEs never run into them, and no lookup finds two rows.
KeysAreDistinct ==
    \A k, l \in api_keys : k.id = l.id \/ k.hashed_key = l.hashed_key => k = l

\* What a session loaded is a row of its own organization that is still there.
SessionsAreLinked ==
    \A a \in Admins : \A edit \in session[a] :
        /\ edit.organization_id = edit.api_key.organization_id
        /\ edit.api_key.hashed_key = a => outcome[a] \in Committed
        /\ \E k \in api_keys :
              k.id = edit.api_key.id /\ k.organization_id = edit.api_key.organization_id

\* A secret in a row comes from a request that committed.
SecretsAreCommitted ==
    \A k \in api_keys :
        /\ outcome[k.id] \in Committed
        /\ outcome[k.hashed_key] \in Committed
        /\ session[k.hashed_key] # {}

SessionsHoldOne == \A a \in Admins : \A e, f \in session[a] : e = f

KeysInv ==
    /\ TypeOK
    /\ KeysAreDistinct
    /\ SessionsAreLinked
    /\ SecretsAreCommitted
    /\ SessionsHoldOne
    /\ SecretsStayHome

=============================================================================
