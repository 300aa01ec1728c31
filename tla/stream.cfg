\* Three connections of two organizations come and go while a broadcast is
\* suspended in its sends.  No symmetry: it is unsound for liveness.
SPECIFICATION FairSpec
CONSTANTS
    Orgs = {acme, other}
    Sockets = {s1, s2, s3}
    Casts = {b1}
INVARIANTS
    RegistryMatchesHandlers
    AtMostOnce
    OneMissPerDeparture
PROPERTIES
    CastsEnd
CHECK_DEADLOCK FALSE
