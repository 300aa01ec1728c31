----------------------------- MODULE Onboarding -----------------------------
(***************************************************************************)
(* How accounts come to be: POST /auth/signup founds an organization with  *)
(* its owner (services/auth.py, repositories/user.py), and a person whom   *)
(* an owner or admin invited joins it through /invites/{token}/accept      *)
(* (services/invitation.py, repositories/invitation.py).                   *)
(*                                                                         *)
(* Every request checks first and commits later, each in a database round  *)
(* trip of its own, so requests for the same email or the same token race. *)
(* What settles the race is the unique index on users.email, at commit.    *)
(***************************************************************************)
EXTENDS FiniteSets

CONSTANTS
    Emails,
    Orgs,           \* organization ids; uuid4, so each is used once
    Tokens,         \* invitation tokens; random, so each is used once
    Requests,       \* concurrent HTTP requests
    InvitedRoles    \* roles a POST /invites may carry

UserRole == {"owner", "admin", "analyst", "viewer"}

ASSUME OnboardingConstants == InvitedRoles \subseteq UserRole

VARIABLES
    organizations,  \* rows of organizations
    users,          \* rows of users
    invitations,    \* rows of invitations
    expired,        \* tokens whose expires_at has passed
    session,        \* what each request has read and checked: {} or one record
    answer          \* what each request was told

vars == <<organizations, users, invitations, expired, session, answer>>

User == [email: Emails, organization_id: Orgs, role: UserRole]
Invitation == [token: Tokens, email: Emails, organization_id: Orgs,
               role: UserRole, is_accepted: BOOLEAN]

\* A signup or an invitation whose email was found free, an invitation loaded
\* by its token ("load"), and one whose email was then found free ("accept").
Signup == [task: {"signup"}, email: Emails]
Invite == [task: {"invite"}, user: User]
Accept == [task: {"load", "accept"}, invite: Invitation]

\* "failed" is a 500 or no answer at all: the client cannot tell whether the
\* commit took place.
Answer == {"none", "granted", "refused", "failed"}

TypeOK ==
    /\ organizations \subseteq Orgs
    /\ users \subseteq User
    /\ invitations \subseteq Invitation
    /\ expired \subseteq Tokens
    /\ session \in [Requests -> SUBSET (Signup \cup Invite \cup Accept)]
    /\ answer \in [Requests -> Answer]

Init ==
    /\ organizations = {}
    /\ users = {}
    /\ invitations = {}
    /\ expired = {}
    /\ session = [q \in Requests |-> {}]
    /\ answer = [q \in Requests |-> "none"]

-----------------------------------------------------------------------------
Registered(email) == \E u \in users : u.email = email

\* A request learns that it may go on, with what it read, or is refused.
Proceed(q, checked) ==
    /\ session' = [session EXCEPT ![q] = {checked}]
    /\ UNCHANGED answer

Refuse(q) ==
    /\ answer' = [answer EXCEPT ![q] = "refused"]
    /\ UNCHANGED session

\* A request that committed is granted, unless the refresh that follows the
\* commit, or the connection, fails.
Committed(q) ==
    /\ \E told \in {"granted", "failed"} : answer' = [answer EXCEPT ![q] = told]
    /\ UNCHANGED session

\* The request ends in a 500, and nothing it staged is committed.
RolledBack(q) ==
    /\ answer' = [answer EXCEPT ![q] = "failed"]
    /\ UNCHANGED <<organizations, users, invitations, session>>

Fresh(q) == answer[q] = "none" /\ session[q] = {}

Holds(q, task, held) == answer[q] = "none" /\ held \in session[q] /\ held.task = task

\* Mutant: users.email has an index, but not a unique one.
NoConstraint(email) == TRUE

\* The unique index on users.email, as the commit finds it.
UniqueEmail(email) == ~Registered(email)

-----------------------------------------------------------------------------
(* POST /auth/signup.                                                      *)

register_tenant(q, email) ==
    /\ Fresh(q)
    /\ IF Registered(email) THEN Refuse(q)
       ELSE Proceed(q, [task |-> "signup", email |-> email])
    /\ UNCHANGED <<organizations, users, invitations, expired>>

\* Mutant: the organization is committed before its owner.
OrganizationSurvives(email, org) == organizations \cup {org}

\* What a rejected INSERT of the owner leaves of the new organization: the
\* flush before it belongs to the same transaction.
OrganizationsAfterRollback(email, org) == organizations

create_tenant(q, org) ==
    /\ org \notin organizations
    /\ \E held \in session[q] :
        /\ Holds(q, "signup", held)
        /\ IF UniqueEmail(held.email)
           THEN /\ organizations' = organizations \cup {org}
                /\ users' = users \cup {[email |-> held.email,
                                         organization_id |-> org, role |-> "owner"]}
                /\ Committed(q)
           ELSE /\ organizations' = OrganizationsAfterRollback(held.email, org)
                /\ answer' = [answer EXCEPT ![q] = "failed"]
                /\ UNCHANGED <<users, session>>
    /\ UNCHANGED <<invitations, expired>>

-----------------------------------------------------------------------------
(* POST /invites, by an owner or admin of the organization.                *)

CanInvite(org) ==
    \E u \in users : u.organization_id = org /\ u.role \in {"owner", "admin"}

create_invitation(q, offer) ==
    /\ Fresh(q)
    /\ CanInvite(offer.organization_id)
    /\ offer.role \in InvitedRoles
    /\ IF Registered(offer.email) THEN Refuse(q)
       ELSE Proceed(q, [task |-> "invite", user |-> offer])
    /\ UNCHANGED <<organizations, users, invitations, expired>>

\* Nothing limits the pending invitations of one email.  The mail is a task of
\* its own, and its failure is logged and ignored.
create(q, token) ==
    /\ \A i \in invitations : i.token # token
    /\ \E held \in session[q] :
        /\ Holds(q, "invite", held)
        /\ invitations' = invitations \cup
              {[token |-> token, email |-> held.user.email,
                organization_id |-> held.user.organization_id,
                role |-> held.user.role, is_accepted |-> FALSE]}
    /\ Committed(q)
    /\ UNCHANGED <<organizations, users, expired>>

\* Seven days have passed since the invitation was created.
Expire(token) ==
    /\ \E i \in invitations : i.token = token
    /\ token \notin expired
    /\ expired' = expired \cup {token}
    /\ UNCHANGED <<organizations, users, invitations, session, answer>>

-----------------------------------------------------------------------------
(* POST /invites/{token}/accept.                                           *)

ActiveInvitations(token) ==
    {i \in invitations : i.token = token /\ ~i.is_accepted /\ token \notin expired}

get_active_by_token(q, token) ==
    /\ Fresh(q)
    /\ IF ActiveInvitations(token) = {} THEN Refuse(q)
       ELSE \E i \in ActiveInvitations(token) : Proceed(q, [task |-> "load", invite |-> i])
    /\ UNCHANGED <<organizations, users, invitations, expired>>

\* "Ensure email didn't sign up separately while invite was pending."
EnsureNotRegistered(q) ==
    /\ \E held \in session[q] :
        /\ Holds(q, "load", held)
        /\ IF Registered(held.invite.email) THEN Refuse(q)
           ELSE Proceed(q, [held EXCEPT !.task = "accept"])
    /\ UNCHANGED <<organizations, users, invitations, expired>>

\* Mutant: nobody marks the invitation.
InvitationsUnmarked(invite) == invitations

MarkAccepted(invite) ==
    {IF i.token = invite.token THEN [i EXCEPT !.is_accepted = TRUE] ELSE i : i \in invitations}

\* Mutant: the account goes to the default role.
DefaultRole(invite) == [email |-> invite.email, role |-> "viewer",
                        organization_id |-> invite.organization_id]

InvitedUser(invite) == [email |-> invite.email, role |-> invite.role,
                        organization_id |-> invite.organization_id]

\* The INSERT of the user and the UPDATE of the invitation commit together, or
\* the index rejects the INSERT and neither does.  Neither the acceptance nor
\* the expiry of the invitation is checked again.
accept_invitation(q) ==
    /\ \E held \in session[q] :
        /\ Holds(q, "accept", held)
        /\ IF UniqueEmail(held.invite.email)
           THEN /\ users' = users \cup {InvitedUser(held.invite)}
                /\ invitations' = MarkAccepted(held.invite)
                /\ Committed(q)
                /\ UNCHANGED organizations
           ELSE RolledBack(q)
    /\ UNCHANGED expired

-----------------------------------------------------------------------------
\* The request's database connection or the server goes away.
DropRequest(q) ==
    /\ answer[q] = "none"
    /\ session[q] # {}
    /\ RolledBack(q)
    /\ UNCHANGED expired

Next ==
    \/ \E q \in Requests :
          \/ \E email \in Emails : register_tenant(q, email)
          \/ \E org \in Orgs : create_tenant(q, org)
          \/ \E offer \in User : create_invitation(q, offer)
          \/ \E token \in Tokens : create(q, token) \/ get_active_by_token(q, token)
          \/ EnsureNotRegistered(q)
          \/ accept_invitation(q)
          \/ DropRequest(q)
    \/ \E token \in Tokens : Expire(token)

Spec == Init /\ [][Next]_vars

-----------------------------------------------------------------------------
(* Properties.                                                             *)

\* However signups and acceptances race, an email belongs to one account.
OneAccountPerEmail == \A u, v \in users : u.email = v.email => u = v

Accepted == {i \in invitations : i.is_accepted}

\* The account an invitation promises.
Promised(i) == [email |-> i.email, organization_id |-> i.organization_id, role |-> i.role]

\* An accepted invitation stands for the account it promised, with its role in
\* its organization, and no account was bought twice: invitations by several
\* organizations, or several by one, end in one acceptance at most.
AcceptedIsMembership ==
    /\ \A i \in Accepted : Promised(i) \in users
    /\ \A i, j \in Accepted : i.email = j.email => i = j

Founders(org) ==
    {u \in users : u.organization_id = org /\ \A i \in Accepted : Promised(i) # u}

\* Nobody enters an organization uninvited but the owner who founded it, and no
\* failed signup leaves an organization without one.
FoundedOnce ==
    \A org \in organizations :
        /\ \E u \in Founders(org) : u.role = "owner"
        /\ \A u, v \in Founders(org) : u = v

\* The email a request was promised an account for.
GrantedEmails(q) ==
    IF answer[q] # "granted" THEN {}
    ELSE {held.email : held \in {h \in session[q] : h.task = "signup"}} \cup
         {held.invite.email : held \in {h \in session[q] : h.task = "accept"}}

\* Of all the requests that race for an email, one at most is told it has won,
\* and it has an account.
GrantsAreExclusive ==
    \A p, q \in Requests :
        /\ \A email \in GrantedEmails(q) : Registered(email)
        /\ GrantedEmails(p) \cap GrantedEmails(q) # {} => p = q

-----------------------------------------------------------------------------
(* The inductive invariant.                                                *)

\* The rows a session's record relies on exist; what it holds of an invitation
\* differs from the row at most in is_accepted.
Linked(held) ==
    /\ held.task = "invite" => held.user.organization_id \in organizations
    /\ held.task \in {"load", "accept"} =>
          \E i \in invitations : Promised(i) = Promised(held.invite)
                                 /\ i.token = held.invite.token

RowsAreLinked ==
    /\ \A u \in users : u.organization_id \in organizations
    /\ \A i \in invitations : i.organization_id \in organizations
    /\ \A i, j \in invitations : i.token = j.token => i = j
    /\ \A q \in Requests : \A held \in session[q] : Linked(held)

SessionsHoldOne == \A q \in Requests : \A g, h \in session[q] : g = h

IInv ==
    /\ TypeOK
    /\ RowsAreLinked
    /\ SessionsHoldOne
    /\ OneAccountPerEmail
    /\ AcceptedIsMembership
    /\ FoundedOnce
    /\ GrantsAreExclusive

=============================================================================
