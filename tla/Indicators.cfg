\* One strategy over histories of nine candles.
SPECIFICATION Spec
CONSTANTS
    Candles <- MCCandles
    MayFollow <- MCMayFollow
    MaySlide <- MCMaySlide
    WindowBars = 9
    None = None
    SwingLength = 1
    ConfirmationBars = 1
    Threshold <- MCThreshold
    BlockSize = 1
    WarmupBars = 2
    UsesAtr = FALSE
    MitigatesByClose = FALSE
    MaximumBlocks = 1
    ClusterWidth = 1
    StructureWidth = 1
    MinimumPivots = 2
    Margin <- MCMargin
    ClusterAtr = 2
    ScannedPoints = 7
    DisplacementLength = 2
    NeedsDisplacement = FALSE
    EmitMss = TRUE
    EmitBos = TRUE
    RiskAtr = 2
    StopMargin <- MCStopMargin
    MinimumReward <- MCMinimumReward
CHECK_DEADLOCK FALSE
INVARIANTS
    PivotsMatchDefinition
    BlocksMatchDefinition
    ZonesTellTheirSweep
    BreaksFollowTrend
    GapsMatchDefinition
    GapsOutliveTheWindow
    EvidenceIsKnown
    SetupIsInOrder
