SPECIFICATION Spec
CONSTANTS
    Data <- MCData
    Centroids <- MCCentroids
    Mismatches <- MCMismatches
    Unit = 508
    K = 2
    PROBES = 2
    Threshold = 1
CHECK_DEADLOCK FALSE
INVARIANT ProbeMissIsMiss
