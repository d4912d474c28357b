SPECIFICATION Spec
CONSTANTS
    K = 3
    NumCents = 3
    NumVecs = 4
    MaxVecDist = 1
    EnvProbes = {0, 2}
    HeaderProbes = {0, 3}
    NaN = NaN
    Bounds <- MCBounds
    CentRanks <- MCRanksLive
    Offsets <- MCOffsets
    Labels <- MCLabels
    Query <- MCQuery
    CentDist <- MCCentDist
    VecDist <- MCVecDist
INVARIANT SearchNeverPanics
