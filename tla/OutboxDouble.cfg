SPECIFICATION Spec
CONSTANTS
    Key <- CardKeys
    OpOf <- CardOps
    AnchorOf <- CardAnchors
    BytesOf <- CardBytes
    FinalPairs <- NoPairs
    FallbackBytes = 1
    StoreMaxRows = 3
    StoreMaxBytes = 5
    TotalMaxRows = 3
    TotalMaxBytes = 5
    ClaimMaxBatch = 2
    ClaimMaxBytes = 2
    MaxAttempts = 2
    RetryBase = 1
    RetryMax = 2
    Retention = 3
    SweepBatch = 1
    MaxTime = 2
    MaxRowId = 3
    MaxFaults = 0
    ClockStepsBack = FALSE
    WriterMayDie = FALSE
INVARIANTS FinalVisibleOnce
