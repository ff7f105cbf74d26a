SPECIFICATION Spec
CONSTANTS
    One = 100
    KellyFraction = 50
    MaxPositionPct = 20
    MaxMarketExposurePct = 30
    MaxTotalExposure = 50
    MaxDrawdownPct = 20
    MinBetAmount = 1
    MinEdge = 3
    Signals <- OneMarket
    Batches <- OneMarketBatches
    Accounts <- SteadyAccounts
    Faults = {"noPortfolio", "nilPortfolio", "load", "rows", "ensure", "record", "lost", "crash"}
    MaxFaults = 3
INVARIANTS
    TypeOK
    KnownExposureCapped
    MemoryCoversLedger
    ApprovedBetsFit
PROPERTIES
    BlacklistHolds
