SPECIFICATION Spec
CONSTANTS
    References <- MCReferences
    Unit = 24
    CentroidCounts = {0, 2}
    Iters = 2
    Probes = 1
CHECK_DEADLOCK FALSE
INVARIANTS
    TornIndexRefused
    OffsetsAreUsable
    EveryVectorFindable
PROPERTIES
    LloydNeverWorsens
