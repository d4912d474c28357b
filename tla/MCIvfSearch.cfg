SPECIFICATION FairSpec
CONSTANTS
    K = 3
    NumCents = 3
    NumVecs = 4
    MaxVecDist = 2
    EnvProbes = {0, 2, 9}
    HeaderProbes = {0, 1}
    NaN = NaN
    Bounds <- MCBounds
    CentRanks <- MCRanks
    Offsets <- MCOffsets
    Labels <- MCLabels
    Query <- MCQuery
    CentDist <- MCCentDist
    VecDist <- MCVecDist
INVARIANTS
    TypeOK
    RankOfThisQuery
    ScannedSoFar
    KeptAreNearest
    FullProbeIsExact
    RootIsFarthest
PROPERTIES
    KthNeverGrows
    RefinesNearestK
    SearchTerminates
