SPECIFICATION Spec
CONSTANTS
    Conns = {c1, c2}
    None = None
    Bodies <- MCBodies
    Outcome <- MCOutcome
    Workers = 2
    SameUid = TRUE
    MaxStarts = 2
    MaxSent = 3
SYMMETRY ConnSymmetry
CHECK_DEADLOCK FALSE
INVARIANTS
    StaleSocketHarmless
    PhasesAccounted
    AnswerFits
    PageFits
PROPERTIES
    AnsweredOrClosed
    RefinesApiProcess
