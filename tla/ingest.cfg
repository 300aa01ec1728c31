\* Keys are edited while requests are authenticated, queued and stored.
SPECIFICATION Spec
CONSTANTS
    Orgs = {o1, o2}
    Admins = {a1, a2, a3}
    Requests = {r1}
    Payloads <- SomePayloads
    Executions = {x1, x2, x3}
    MaxCopies = 2
SYMMETRY IdSymmetry
INVARIANTS
    IInv
    AnswersAreHonest
    EventsStayHome
PROPERTIES
    RotatedOutStaysDead
    DeactivationSticks
    DeliversBatches
CHECK_DEADLOCK FALSE
