SPECIFICATION Spec
CONSTANTS
    None = None
    Requests <- MCRequests
    norm <- MCNorm
    mcc_risk <- MCMccRisk
INVARIANTS
    TypeOK
    NaNOnlyFromOverflow
    NoHistoryStandsApart
    OffsetImmaterial
    UnreadableMeansRecent
