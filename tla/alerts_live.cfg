\* Two rules under one evaluator that may crash or abort; admins mute, unmute
\* and delete.  No symmetry: it is unsound for liveness.
SPECIFICATION FairSpec
CONSTANTS
    Rules = {r1, r2}
    Workers = {w1}
    Admins = {a1}
    EventNames = {"signup"}
    Thresholds = {1}
    TimeWindows = {1}
    MaxLookback = 2
    StatusWrites = {"muted", "active"}
    MaxTime = 2
    MaxEvents = 1
    MaxTicks = 1
    MaxUpdates = 2
    MaxCrashes = 1
PROPERTIES
    BreachIsReported
    QuietIsResolved
