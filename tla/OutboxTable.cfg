SPECIFICATION Spec
CONSTANTS
    Key <- TableKeys
    OpOf <- CardOps
    AnchorOf <- CardAnchors
    BytesOf <- CardBytes
    FinalPairs <- NoPairs
    FallbackBytes = 3
    StoreMaxRows = 2
    StoreMaxBytes = 4
    TotalMaxRows = 3
    TotalMaxBytes = 4
    ClaimMaxBatch = 2
    ClaimMaxBytes = 2
    MaxAttempts = 2
    RetryBase = 1
    RetryMax = 2
    Retention = 0
    SweepBatch = 1
    MaxTime = 2
    MaxRowId = 3
    MaxFaults = 1
    ClockStepsBack = TRUE
    WriterMayDie = TRUE
INVARIANTS CapacityBounded
PROPERTIES SettledStays AnchorSurvives
