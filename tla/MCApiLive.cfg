SPECIFICATION FairSpec
CONSTANTS
    Conns = {c1, c2}
    None = None
    Bodies <- MCBodiesLive
    Outcome <- MCOutcome
    Workers = 1
    SameUid = FALSE
    MaxStarts = 1
    MaxSent = 3
CHECK_DEADLOCK FALSE
PROPERTIES
    EveryRequestEnds
