SPECIFICATION Spec
CONSTANTS
    One = 100
    KellyFraction = 50
    MaxPositionPct = 20
    MaxMarketExposurePct = 30
    MaxTotalExposure = 50
    MaxDrawdownPct = 20
    MinBetAmount = 1
    MinEdge = 3
    StartBalance = 10
    Markets <- MCMarkets
    Scans <- MCScans
    Signals <- MCSignals
    Batches <- MCBatches
    KeepTime = 1
    Faults = {}
    MaxTime = 1
    MaxFaults = 0
    MaxLiveBets = 1
INVARIANTS
    LiveExposureIsLive
CHECK_DEADLOCK FALSE
