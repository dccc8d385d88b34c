SPECIFICATION FairSpec
CONSTANTS
    Key <- AnswerKeys
    OpOf <- CardOps
    AnchorOf <- CardAnchors
    BytesOf <- OneByte
    FinalPairs <- AnswerPair
    FallbackBytes = 1
    StoreMaxRows = 3
    StoreMaxBytes = 3
    TotalMaxRows = 3
    TotalMaxBytes = 3
    ClaimMaxBatch = 2
    ClaimMaxBytes = 2
    MaxAttempts = 2
    RetryBase = 1
    RetryMax = 2
    Retention = 3
    SweepBatch = 1
    MaxTime = 1
    MaxRowId = 3
    MaxFaults = 2
    ClockStepsBack = FALSE
    WriterMayDie = FALSE
INVARIANTS TypeOK AtMostOncePost ParkedRowHoldsSuccessors
PROPERTIES SendsInOrder RowsSettle
