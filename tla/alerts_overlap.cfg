\* Two evaluations that may overlap, and an admin who edits and deletes.
SPECIFICATION Spec
CONSTANTS
    Rules = {r1}
    Workers = {w1, w2}
    Admins = {a1}
    EventNames = {"signup"}
    Thresholds = {1}
    TimeWindows = {1, 9}
    MaxLookback = 2
    StatusWrites = {}
    MaxTime = 2
    MaxEvents = 1
    MaxTicks = 2
    MaxUpdates = 1
    MaxCrashes = 1
SYMMETRY RuleSymmetry
INVARIANTS
    TypeOK
    DeletedRulesHaveNoFeed
PROPERTIES
    OnlyLoggedFlipsMoveStatus
    FlipsKeepCondition
