\* The deployment of the README: pages on vercel.app, API on onrender.com.
SPECIFICATION Spec
CONSTANTS
    Users = {u1}
    Tabs = {t1}
    Logins = {1}
    AccessTime = 1
    RefreshTime = 1
    Deployed = TRUE
    CrossSite = TRUE
    MaxTime = 1
    MaxLoads = 1
INVARIANTS
    SignedOutStaysOut
CHECK_DEADLOCK FALSE
