SPECIFICATION Spec
CONSTANTS
    Workers = {w1, w2, w3}
    None = None
    MaxRecords = 3
    BOUNDS <- MCBOUNDS
    Durations <- MCDurations
SYMMETRY WorkerSymmetry
INVARIANTS
    TypeOK
    NothingLost
    AverageNeverLow
    QuietReportIsRight
    ReportIsClose
