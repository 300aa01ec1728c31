-------------------------- MODULE OnboardingProofs --------------------------
(***************************************************************************)
(* The invariants of Onboarding hold for any number of people,             *)
(* organizations, invitations and concurrent requests.                     *)
(***************************************************************************)
EXTENDS Onboarding, TLAPS

\* A step of request q that grants nothing and takes no account away leaves
\* the grants as they are.
LEMMA GrantsUntouched ==
    ASSUME GrantsAreExclusive, users \subseteq users',
           \A q \in Requests : answer'[q] = "granted" =>
               answer[q] = "granted" /\ session'[q] = session[q]
    PROVE  GrantsAreExclusive'
<1>1. \A q \in Requests : GrantedEmails(q)' \subseteq GrantedEmails(q)
  BY DEF GrantedEmails
<1>2. \A email : Registered(email) => Registered(email)'
  BY DEF Registered
<1> QED
  BY <1>1, <1>2 DEF GrantsAreExclusive

\* A step that commits an account for a free email and may grant it to q.
LEMMA GrantsExtended ==
    ASSUME GrantsAreExclusive, SessionsHoldOne, users \subseteq users',
           NEW q \in Requests, NEW email, ~Registered(email), Registered(email)',
           session' = session,
           \A p \in Requests \ {q} : answer'[p] = answer[p],
           \A held \in session[q] :
               \/ held.task = "signup" /\ held.email = email
               \/ held.task = "accept" /\ held.invite.email = email
    PROVE  GrantsAreExclusive'
<1>1. GrantedEmails(q)' \subseteq {email}
  BY DEF GrantedEmails
<1>2. \A p \in Requests \ {q} : GrantedEmails(p)' = GrantedEmails(p)
  BY DEF GrantedEmails
<1>3. \A p \in Requests \ {q} : email \notin GrantedEmails(p)
  BY DEF GrantsAreExclusive
<1>4. \A e : Registered(e) => Registered(e)'
  BY DEF Registered
<1> QED
  BY <1>1, <1>2, <1>3, <1>4 DEF GrantsAreExclusive

LEMMA InitEstablishes == Init => IInv
BY DEF Init, IInv, TypeOK, RowsAreLinked, SessionsHoldOne, OneAccountPerEmail, Answer,
       AcceptedIsMembership, Accepted, FoundedOnce, GrantsAreExclusive, GrantedEmails

-----------------------------------------------------------------------------
(* Steps that only read: the tables stay as they are.                      *)

LEMMA ReadingKeeps ==
    ASSUME IInv, NEW q \in Requests, answer[q] = "none",
           UNCHANGED <<organizations, users, invitations>>, expired' \subseteq Tokens,
           \/ answer' = [answer EXCEPT ![q] = "refused"] /\ UNCHANGED session
           \/ answer' = [answer EXCEPT ![q] = "failed"] /\ UNCHANGED session
           \/ \E checked \in Signup \cup Invite \cup Accept :
                 Linked(checked) /\ Proceed(q, checked)
    PROVE  IInv'
<1>1. TypeOK'
  BY DEF IInv, TypeOK, Answer, Proceed
<1>2. RowsAreLinked'
  <2>1. \A held : Linked(held) => Linked(held)'
    BY DEF Linked, Promised
  <2>2. \A p \in Requests : \A held \in session'[p] : held \in session[p] \/ Linked(held)
    BY DEF IInv, TypeOK, Proceed
  <2> QED
    BY <2>1, <2>2 DEF IInv, RowsAreLinked
<1>3. SessionsHoldOne'
  BY DEF IInv, TypeOK, SessionsHoldOne, Proceed
<1>4. OneAccountPerEmail' /\ AcceptedIsMembership' /\ FoundedOnce'
  BY DEF IInv, OneAccountPerEmail, AcceptedIsMembership, FoundedOnce, Founders, Accepted, Promised
<1>5. GrantsAreExclusive'
  <2>1. \A p \in Requests : answer'[p] = "granted" =>
            answer[p] = "granted" /\ session'[p] = session[p]
    BY DEF IInv, TypeOK, Proceed
  <2> QED
    BY <2>1, GrantsUntouched DEF IInv
<1> QED
  BY <1>1, <1>2, <1>3, <1>4, <1>5 DEF IInv

LEMMA RegisterTenant ==
    ASSUME IInv, NEW q \in Requests, NEW email \in Emails, register_tenant(q, email)
    PROVE  IInv'
<1>1. [task |-> "signup", email |-> email] \in Signup
  BY DEF Signup
<1>2. Linked([task |-> "signup", email |-> email])
  BY DEF Linked
<1> QED
  BY <1>1, <1>2, ReadingKeeps DEF register_tenant, Fresh, Refuse, IInv, TypeOK

LEMMA CreateInvitation ==
    ASSUME IInv, NEW q \in Requests, NEW offer \in User, create_invitation(q, offer)
    PROVE  IInv'
<1> DEFINE checked == [task |-> "invite", user |-> offer]
<1>1. checked \in Invite
  BY DEF Invite
<1>2. Linked(checked)
  BY DEF create_invitation, CanInvite, IInv, RowsAreLinked, Linked
<1> HIDE DEF checked
<1>3. Refuse(q) \/ Proceed(q, checked)
  BY DEF create_invitation, checked
<1> QED
  BY <1>1, <1>2, <1>3, ReadingKeeps DEF create_invitation, Fresh, Refuse, IInv, TypeOK

LEMMA GetActiveByToken ==
    ASSUME IInv, NEW q \in Requests, NEW token \in Tokens, get_active_by_token(q, token)
    PROVE  IInv'
<1>1. CASE Refuse(q)
  BY <1>1, ReadingKeeps DEF get_active_by_token, Fresh, Refuse, IInv, TypeOK
<1>2. ASSUME NEW i \in invitations, Proceed(q, [task |-> "load", invite |-> i])
      PROVE  IInv'
  <2> DEFINE checked == [task |-> "load", invite |-> i]
  <2>1. checked \in Accept
    BY DEF Accept, IInv, TypeOK
  <2>2. Linked(checked)
    BY DEF Linked
  <2> HIDE DEF checked
  <2>3. Proceed(q, checked)
    BY <1>2 DEF checked
  <2> QED
    BY <2>1, <2>2, <2>3, ReadingKeeps DEF get_active_by_token, Fresh, IInv, TypeOK
<1> QED
  BY <1>1, <1>2 DEF get_active_by_token, ActiveInvitations

LEMMA CheckedAgain ==
    ASSUME IInv, NEW q \in Requests, EnsureNotRegistered(q)
    PROVE  IInv'
<1>1. PICK held \in session[q] :
          /\ Holds(q, "load", held)
          /\ Refuse(q) \/ Proceed(q, [held EXCEPT !.task = "accept"])
  BY DEF EnsureNotRegistered
<1> DEFINE checked == [held EXCEPT !.task = "accept"]
<1>2. held \in Accept
  BY <1>1 DEF IInv, TypeOK, Holds, Signup, Invite, Accept
<1>3. checked \in Accept /\ checked.task = "accept" /\ checked.invite = held.invite
  BY <1>2 DEF Accept
<1>4. Linked(held)
  BY <1>1 DEF IInv, RowsAreLinked
<1> HIDE DEF checked
<1>5. Linked(checked)
  BY <1>2, <1>3, <1>4 DEF Linked, Accept
<1>6. Refuse(q) \/ Proceed(q, checked)
  BY <1>1 DEF checked
<1> QED
  BY <1>1, <1>3, <1>5, <1>6, ReadingKeeps
  DEF EnsureNotRegistered, Holds, Refuse, IInv, TypeOK

LEMMA Dropped ==
    ASSUME IInv, NEW q \in Requests, DropRequest(q)
    PROVE  IInv'
BY ReadingKeeps DEF DropRequest, RolledBack, IInv, TypeOK

LEMMA Expired ==
    ASSUME IInv, NEW token \in Tokens, Expire(token)
    PROVE  IInv'
<1> USE DEF Expire
<1>1. TypeOK' /\ SessionsHoldOne'
  BY DEF IInv, TypeOK, SessionsHoldOne
<1>2. RowsAreLinked'
  BY DEF IInv, RowsAreLinked, Linked, Promised
<1>3. OneAccountPerEmail' /\ AcceptedIsMembership' /\ FoundedOnce'
  BY DEF IInv, OneAccountPerEmail, AcceptedIsMembership, FoundedOnce, Founders, Accepted, Promised
<1>4. GrantsAreExclusive'
  BY GrantsUntouched DEF IInv
<1> QED
  BY <1>1, <1>2, <1>3, <1>4 DEF IInv

-----------------------------------------------------------------------------
(* Steps that commit.                                                      *)

LEMMA Create ==
    ASSUME IInv, NEW q \in Requests, NEW token \in Tokens, create(q, token)
    PROVE  IInv'
<1>1. PICK held \in session[q] :
          /\ Holds(q, "invite", held)
          /\ invitations' = invitations \cup
                {[token |-> token, email |-> held.user.email,
                  organization_id |-> held.user.organization_id,
                  role |-> held.user.role, is_accepted |-> FALSE]}
  BY DEF create
<1> DEFINE new == [token |-> token, email |-> held.user.email,
                   organization_id |-> held.user.organization_id,
                   role |-> held.user.role, is_accepted |-> FALSE]
<1>2. held \in Invite
  BY <1>1 DEF IInv, TypeOK, Holds, Signup, Invite, Accept
<1>3. new \in Invitation /\ ~new.is_accepted /\ new.token = token
      /\ new.organization_id \in organizations
  BY <1>1, <1>2 DEF Invite, User, Invitation, IInv, RowsAreLinked, Linked, Holds
<1>4. invitations' = invitations \cup {new}
  BY <1>1
<1> HIDE DEF new
<1>5. TypeOK' /\ SessionsHoldOne'
  BY <1>3, <1>4 DEF create, Committed, IInv, TypeOK, Answer, SessionsHoldOne
<1>6. RowsAreLinked'
  <2>1. \A h : Linked(h) => Linked(h)'
    BY <1>4 DEF create, Linked, Promised
  <2> QED
    BY <1>3, <1>4, <2>1 DEF create, Committed, IInv, RowsAreLinked
<1>7. Accepted' = Accepted
  BY <1>3, <1>4 DEF Accepted
<1>8. OneAccountPerEmail' /\ AcceptedIsMembership' /\ FoundedOnce'
  BY <1>7 DEF create, IInv, OneAccountPerEmail, AcceptedIsMembership, FoundedOnce, Founders,
              Promised
<1>9. GrantsAreExclusive'
  <2>1. \A h \in session[q] : h.task = "invite"
    BY <1>1 DEF Holds, IInv, SessionsHoldOne
  <2>2. \A p \in Requests : GrantedEmails(p)' \subseteq GrantedEmails(p)
    BY <2>1 DEF create, Committed, GrantedEmails, IInv, TypeOK
  <2>3. \A email : Registered(email) => Registered(email)'
    BY DEF create, Registered
  <2> QED
    BY <2>2, <2>3 DEF IInv, GrantsAreExclusive
<1> QED
  BY <1>5, <1>6, <1>8, <1>9 DEF IInv

LEMMA CreateTenant ==
    ASSUME IInv, NEW q \in Requests, NEW org \in Orgs, create_tenant(q, org)
    PROVE  IInv'
<1>1. PICK held \in session[q] :
          /\ Holds(q, "signup", held)
          /\ \/ /\ UniqueEmail(held.email)
                /\ organizations' = organizations \cup {org}
                /\ users' = users \cup {[email |-> held.email,
                                         organization_id |-> org, role |-> "owner"]}
                /\ Committed(q)
             \/ /\ organizations' = OrganizationsAfterRollback(held.email, org)
                /\ answer' = [answer EXCEPT ![q] = "failed"]
                /\ UNCHANGED <<users, session>>
  BY DEF create_tenant
<1>2. CASE /\ organizations' = OrganizationsAfterRollback(held.email, org)
           /\ answer' = [answer EXCEPT ![q] = "failed"]
           /\ UNCHANGED <<users, session>>
  BY <1>1, <1>2, ReadingKeeps
  DEF create_tenant, Holds, OrganizationsAfterRollback, IInv, TypeOK
<1>3. ASSUME UniqueEmail(held.email), organizations' = organizations \cup {org},
             users' = users \cup {[email |-> held.email,
                                   organization_id |-> org, role |-> "owner"]},
             Committed(q)
      PROVE  IInv'
  <2> DEFINE owner == [email |-> held.email, organization_id |-> org, role |-> "owner"]
  <2>1. held \in Signup
    BY <1>1 DEF IInv, TypeOK, Holds, Signup, Invite, Accept
  <2>2. owner \in User /\ owner.email = held.email /\ owner.organization_id = org
        /\ owner.role = "owner"
    BY <2>1 DEF Signup, User, UserRole
  <2>3. users' = users \cup {owner}
    BY <1>3
  <2> HIDE DEF owner
  <2>4. org \notin organizations /\ UNCHANGED <<invitations, expired, session>>
    BY <1>3 DEF create_tenant, Committed
  <2>5. \A u \in users : u.email # held.email /\ u.organization_id # org
    BY <1>3, <2>4 DEF UniqueEmail, Registered, IInv, RowsAreLinked
  <2>6. TypeOK' /\ SessionsHoldOne'
    BY <1>3, <2>2, <2>3, <2>4 DEF Committed, IInv, TypeOK, Answer, SessionsHoldOne
  <2>7. RowsAreLinked'
    <3>1. \A h : Linked(h) => Linked(h)'
      BY <1>3, <2>4 DEF Linked, Promised
    <3> QED
      BY <1>3, <2>2, <2>3, <2>4, <3>1 DEF IInv, RowsAreLinked
  <2>8. OneAccountPerEmail'
    BY <2>2, <2>3, <2>5 DEF IInv, OneAccountPerEmail
  <2>9. AcceptedIsMembership'
    BY <2>3, <2>4 DEF IInv, AcceptedIsMembership, Accepted, Promised
  <2>10. FoundedOnce'
    <3>1. \A o \in organizations : Founders(o)' = Founders(o)
      BY <2>2, <2>3, <2>4 DEF Founders, Accepted, Promised
    <3>2. \A i \in Accepted : Promised(i) # owner
      BY <2>2, <2>4 DEF IInv, RowsAreLinked, Accepted, Promised
    <3>3. Founders(org)' = {owner}
      BY <2>2, <2>3, <2>4, <2>5, <3>2 DEF Founders, Accepted, Promised
    <3> QED
      BY <1>3, <2>2, <3>1, <3>3 DEF IInv, FoundedOnce
  <2>11. GrantsAreExclusive'
    <3>1. \A h \in session[q] : h.task = "signup" /\ h.email = held.email
      BY <1>1 DEF Holds, IInv, SessionsHoldOne
    <3>2. ~Registered(held.email) /\ Registered(held.email)'
      BY <1>3, <2>2, <2>3 DEF UniqueEmail, Registered
    <3>3. \A p \in Requests \ {q} : answer'[p] = answer[p]
      BY <1>3 DEF Committed, IInv, TypeOK
    <3> QED
      BY <2>3, <2>4, <3>1, <3>2, <3>3, GrantsExtended DEF IInv
  <2> QED
    BY <2>6, <2>7, <2>8, <2>9, <2>10, <2>11 DEF IInv
<1> QED
  BY <1>1, <1>2, <1>3

LEMMA AcceptInvitation ==
    ASSUME IInv, NEW q \in Requests, accept_invitation(q)
    PROVE  IInv'
<1>1. PICK held \in session[q] :
          /\ Holds(q, "accept", held)
          /\ \/ /\ UniqueEmail(held.invite.email)
                /\ users' = users \cup {InvitedUser(held.invite)}
                /\ invitations' = MarkAccepted(held.invite)
                /\ Committed(q)
                /\ UNCHANGED organizations
             \/ RolledBack(q)
  BY DEF accept_invitation
<1>2. CASE RolledBack(q)
  BY <1>1, <1>2, ReadingKeeps DEF accept_invitation, Holds, RolledBack, IInv, TypeOK
<1>3. ASSUME UniqueEmail(held.invite.email),
             users' = users \cup {InvitedUser(held.invite)},
             invitations' = MarkAccepted(held.invite),
             Committed(q),
             UNCHANGED organizations
      PROVE  IInv'
  <2>1. PICK i \in invitations :
            Promised(i) = Promised(held.invite) /\ i.token = held.invite.token
    BY <1>1 DEF Holds, IInv, RowsAreLinked, Linked
  <2> DEFINE member == Promised(i)
             marked == [i EXCEPT !.is_accepted = TRUE]
  <2>2. i \in Invitation /\ member \in User
    BY DEF IInv, TypeOK, Invitation, User, Promised
  <2>3. member.email = i.email /\ member.organization_id = i.organization_id
        /\ held.invite.email = i.email
    BY <2>1 DEF Promised
  <2>4. users' = users \cup {member}
    BY <1>3, <2>1 DEF InvitedUser, Promised
  <2>5. marked \in Invitation /\ marked.is_accepted /\ Promised(marked) = member
        /\ marked.token = i.token /\ marked.organization_id = i.organization_id
        /\ marked.email = i.email
    BY <2>2 DEF Invitation, Promised
  <2>6. invitations' = (invitations \ {i}) \cup {marked}
    BY <1>3, <2>1 DEF MarkAccepted, IInv, RowsAreLinked
  <2> HIDE DEF member, marked
  <2>7. \A u \in users : u.email # i.email
    BY <1>3, <2>3 DEF UniqueEmail, Registered
  <2>8. i \notin Accepted /\ \A k \in Accepted : k.email # i.email
    BY <2>7 DEF IInv, AcceptedIsMembership, Promised
  <2>9. Accepted' = Accepted \cup {marked}
    BY <2>5, <2>6, <2>8 DEF Accepted
  <2>10. UNCHANGED <<session, expired>>
    BY <1>3 DEF accept_invitation, Committed
  <2>11. TypeOK' /\ SessionsHoldOne'
    BY <1>3, <2>2, <2>4, <2>5, <2>6, <2>10 DEF Committed, IInv, TypeOK, Answer, SessionsHoldOne
  <2>12. RowsAreLinked'
    <3>1. \A h : Linked(h) => Linked(h)'
      <4> SUFFICES ASSUME NEW h, Linked(h) PROVE Linked(h)'
        OBVIOUS
      <4>1. h.task = "invite" => h.user.organization_id \in organizations'
        BY <1>3 DEF Linked
      <4>2. ASSUME h.task \in {"load", "accept"}
            PROVE  \E j \in invitations' : Promised(j) = Promised(h.invite)
                                           /\ j.token = h.invite.token
        <5>1. PICK j \in invitations :
                  Promised(j) = Promised(h.invite) /\ j.token = h.invite.token
          BY <4>2 DEF Linked
        <5>2. CASE j = i
          <6>1. marked \in invitations'
            BY <2>6
          <6>2. Promised(marked) = Promised(h.invite) /\ marked.token = h.invite.token
            BY <2>5, <5>1, <5>2 DEF member
          <6> QED
            BY <6>1, <6>2
        <5>3. CASE j # i
          BY <2>6, <5>1, <5>3
        <5> QED
          BY <5>2, <5>3
      <4> QED
        BY <4>1, <4>2 DEF Linked, Promised
    <3>2. \A u \in users' : u.organization_id \in organizations'
      BY <1>3, <2>3, <2>4 DEF IInv, RowsAreLinked
    <3>3. /\ \A j \in invitations' : j.organization_id \in organizations'
          /\ \A j, k \in invitations' : j.token = k.token => j = k
      BY <1>3, <2>5, <2>6 DEF IInv, RowsAreLinked
    <3> QED
      BY <2>10, <3>1, <3>2, <3>3 DEF IInv, RowsAreLinked
  <2>13. OneAccountPerEmail'
    BY <2>3, <2>4, <2>7 DEF IInv, OneAccountPerEmail
  <2>14. AcceptedIsMembership'
    BY <2>4, <2>5, <2>8, <2>9 DEF IInv, AcceptedIsMembership, Promised
  <2>15. FoundedOnce'
    <3>1. \A u \in users : u # member
      BY <2>3, <2>7
    <3>2. \A o : Founders(o)' = Founders(o)
      BY <2>4, <2>5, <2>9, <3>1 DEF Founders, Promised
    <3> QED
      BY <1>3, <3>2 DEF IInv, FoundedOnce
  <2>16. GrantsAreExclusive'
    <3>1. \A h \in session[q] : h.task = "accept" /\ h.invite.email = i.email
      BY <1>1, <2>3 DEF Holds, IInv, SessionsHoldOne
    <3>2. ~Registered(i.email) /\ Registered(i.email)'
      BY <2>3, <2>4, <2>7 DEF Registered
    <3>3. \A p \in Requests \ {q} : answer'[p] = answer[p]
      BY <1>3 DEF Committed, IInv, TypeOK
    <3> QED
      BY <2>4, <2>10, <3>1, <3>2, <3>3, GrantsExtended DEF IInv
  <2> QED
    BY <2>11, <2>12, <2>13, <2>14, <2>15, <2>16 DEF IInv
<1> QED
  BY <1>1, <1>2, <1>3

-----------------------------------------------------------------------------
LEMMA NextPreserves == IInv /\ [Next]_vars => IInv'
<1> SUFFICES ASSUME IInv, [Next]_vars PROVE IInv'
  OBVIOUS
<1>1. ASSUME NEW q \in Requests, NEW email \in Emails, register_tenant(q, email)
      PROVE  IInv'
  BY <1>1, RegisterTenant
<1>2. ASSUME NEW q \in Requests, NEW org \in Orgs, create_tenant(q, org)
      PROVE  IInv'
  BY <1>2, CreateTenant
<1>3. ASSUME NEW q \in Requests, NEW offer \in User, create_invitation(q, offer)
      PROVE  IInv'
  BY <1>3, CreateInvitation
<1>4. ASSUME NEW q \in Requests, NEW token \in Tokens, create(q, token)
      PROVE  IInv'
  BY <1>4, Create
<1>5. ASSUME NEW q \in Requests, NEW token \in Tokens, get_active_by_token(q, token)
      PROVE  IInv'
  BY <1>5, GetActiveByToken
<1>6. ASSUME NEW q \in Requests, EnsureNotRegistered(q)
      PROVE  IInv'
  BY <1>6, CheckedAgain
<1>7. ASSUME NEW q \in Requests, accept_invitation(q)
      PROVE  IInv'
  BY <1>7, AcceptInvitation
<1>8. ASSUME NEW q \in Requests, DropRequest(q)
      PROVE  IInv'
  BY <1>8, Dropped
<1>9. ASSUME NEW token \in Tokens, Expire(token)
      PROVE  IInv'
  BY <1>9, Expired
<1>10. CASE UNCHANGED vars
  <2> USE <1>10 DEF vars
  <2>1. TypeOK' /\ SessionsHoldOne'
    BY DEF IInv, TypeOK, SessionsHoldOne
  <2>2. RowsAreLinked'
    BY DEF IInv, RowsAreLinked, Linked, Promised
  <2>3. OneAccountPerEmail' /\ AcceptedIsMembership' /\ FoundedOnce'
    BY DEF IInv, OneAccountPerEmail, AcceptedIsMembership, FoundedOnce, Founders, Accepted,
           Promised
  <2>4. GrantsAreExclusive'
    BY GrantsUntouched DEF IInv
  <2> QED
    BY <2>1, <2>2, <2>3, <2>4 DEF IInv
<1> QED
  BY <1>1, <1>2, <1>3, <1>4, <1>5, <1>6, <1>7, <1>8, <1>9, <1>10 DEF Next

\* Every race of signups, invitations and acceptances keeps the invariant that
\* links users, organizations, invitations and the sessions in flight.
THEOREM OnboardingInvariant == Spec => []IInv
BY InitEstablishes, NextPreserves, PTL DEF Spec

\* However signups and acceptances interleave and fail, the unique index and
\* the checks before it leave an email with one account.
THEOREM OneAccountEach == Spec => []OneAccountPerEmail
<1>1. IInv => OneAccountPerEmail
  BY DEF IInv
<1> QED
  BY <1>1, OnboardingInvariant, PTL

\* Of the requests that race for an email, one at most is told that the account
\* was created, and it was.
THEOREM OneWinnerPerEmail == Spec => []GrantsAreExclusive
<1>1. IInv => GrantsAreExclusive
  BY DEF IInv
<1> QED
  BY <1>1, OnboardingInvariant, PTL

\* An accepted invitation and the account it promised are never seen apart.
THEOREM MembersWereInvited == Spec => []AcceptedIsMembership
<1>1. IInv => AcceptedIsMembership
  BY DEF IInv
<1> QED
  BY <1>1, OnboardingInvariant, PTL

\* Every organization has exactly one account that no accepted invitation
\* explains, and it is the owner: create_tenant commits both or neither, and
\* nobody else enters uninvited.
THEOREM FoundersAlone == Spec => []FoundedOnce
<1>1. IInv => FoundedOnce
  BY DEF IInv
<1> QED
  BY <1>1, OnboardingInvariant, PTL

=============================================================================
