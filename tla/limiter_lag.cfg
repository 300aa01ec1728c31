\* Requests overtake each other by one clock unit; replies get lost.
SPECIFICATION Spec
CONSTANTS
    Requests = {q1, q2, q3, q4, q5}
    Limit = 2
    Window = 4
    FineClock = TRUE
    MaxLag = 1
    MaxTime = 6
SYMMETRY RequestSymmetry
INVARIANTS
    AdmissionBound
    LimitedOnlyUnderLoad
CHECK_DEADLOCK FALSE
