\* Two tabs, two people and two logins; pages and API on one site.
SPECIFICATION FairSpec
CONSTANTS
    Users = {u1, u2}
    Tabs = {t1, t2}
    Logins = {1, 2}
    AccessTime = 1
    RefreshTime = 1
    Deployed = FALSE
    CrossSite = FALSE
    MaxTime = 2
    MaxLoads = 3
INVARIANTS
    OneIdentity
    SignedOutStaysOut
    LoginsRunOut
PROPERTIES
    RecoveryRestores
    RecoveryEnds
CHECK_DEADLOCK FALSE
