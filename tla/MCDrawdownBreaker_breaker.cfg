SPECIFICATION Spec
CONSTANTS
    One = 100
    KellyFraction = 50
    MaxPositionPct = 20
    MaxMarketExposurePct = 30
    MaxTotalExposure = 80
    MaxDrawdownPct = 20
    MinBetAmount = 1
    MinEdge = 3
    Accounts <- MCAccounts
    Steps <- MCSteps
    MaxMoves = 3
    MaxSnapshots = 2
INVARIANTS
    TypeOK
    HaltMeansLoss
    BreakerHolds
    ReadErrorBounded
    ReportedLossReal
