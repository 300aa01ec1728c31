\* Two people, two organizations and two invitations; signups, invitations and
\* acceptances race and get lost.
SPECIFICATION Spec
CONSTANTS
    Emails = {ann, bob}
    Orgs = {acme, other}
    Tokens = {t1, t2}
    Requests = {q1, q2, q3, q4, q5}
    InvitedRoles = {"admin", "viewer"}
SYMMETRY OnboardingSymmetry
INVARIANTS
    OneAccountPerEmail
    AcceptedIsMembership
    FoundedOnce
    GrantsAreExclusive
    IInv
CHECK_DEADLOCK FALSE
