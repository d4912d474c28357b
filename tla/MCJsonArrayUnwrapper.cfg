SPECIFICATION FairSpec
CONSTANTS
    Elements <- MCElements
    MaxElements = 2
    Outside <- MCOutside
    BufSizes = {1, 3}
CHECK_DEADLOCK FALSE
INVARIANTS
    UnreadIntact
    OutputIsElements
    EofIsTheEnd
PROPERTIES
    EndsEventually
