SPECIFICATION Spec
CONSTANTS
    One = 1000
    KellyFraction = 25
    MaxPositionPct = 5
    MaxMarketExposurePct = 10
    MaxTotalExposure = 50
    MaxDrawdownPct = 20
    MinBetAmount = 1
    MinEdge = 10
    Config <- Shipped
    BinaryMarkets <- MCBinaryMarkets
    Worlds <- MCWorlds
    Answers <- MCAnswers
    BatchSize = 1
    MaxChanges = 1
INVARIANTS
    TypeOK
    LimitsKeepEdge
    NoOpposingBets
    ResolvedOnlyIfUnseen
    FairMarketsLeftAlone
CHECK_DEADLOCK FALSE
