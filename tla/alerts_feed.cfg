\* One worker, two concurrent admin requests that edit conditions and delete.
SPECIFICATION Spec
CONSTANTS
    Rules = {r1}
    Workers = {w1}
    Admins = {a1, a2}
    EventNames = {"signup"}
    Thresholds = {1, 2}
    TimeWindows = {1}
    MaxLookback = 2
    StatusWrites = {}
    MaxTime = 2
    MaxEvents = 2
    MaxTicks = 1
    MaxUpdates = 2
    MaxCrashes = 1
SYMMETRY RuleSymmetry
INVARIANTS
    FeedAlternates
    StatusAgreesWithFeed
    IInv
PROPERTIES
    ImplementsFeed
