SPECIFICATION Spec
CONSTANTS
    One = 100
    KellyFraction = 50
    MaxPositionPct = 20
    MaxMarketExposurePct = 30
    MaxTotalExposure = 50
    MaxDrawdownPct = 20
    MinBetAmount = 1
    MinEdge = 3
    Signals <- AllSignals
    Batches <- AllBatches
    Accounts <- NearLimitAccounts
    Faults = {}
    MaxFaults = 0
INVARIANTS
    TotalExposureCapped
