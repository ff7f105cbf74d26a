SPECIFICATION Spec
CONSTANTS
    One = 1000
    KellyFraction = 25
    MaxPositionPct = 5
    MaxMarketExposurePct = 10
    MaxTotalExposure = 50
    MaxDrawdownPct = 20
    MinBetAmount = 1
    MinEdge = 30
    Config <- Shipped
    BinaryMarkets <- MCBinaryMarkets
    Worlds <- MCWorlds
    Answers <- MCAnswers
    BatchSize = 1
    MaxChanges = 1
INVARIANTS
    QuotesCanBeSized
CHECK_DEADLOCK FALSE
