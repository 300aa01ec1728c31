\* One rule's window reaches before datetime.min: no rule is safe.
SPECIFICATION FairSpec
CONSTANTS
    Rules = {r1, r2}
    Workers = {w1}
    Admins = {}
    EventNames = {"signup"}
    Thresholds = {1}
    TimeWindows = {1, 9}
    MaxLookback = 2
    StatusWrites = {}
    MaxTime = 1
    MaxEvents = 1
    MaxTicks = 1
    MaxUpdates = 0
    MaxCrashes = 0
PROPERTIES
    BreachIsReported
