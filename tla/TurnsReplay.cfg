SPECIFICATION Spec
CONSTANTS
    Event <- Repeated
    Scope = {"a"}
    ScopeOf <- OneScope
    MsgOf <- Shared
    KindOf <- TextAndCommand
    MayRefuse = {"m2"}
    MaxRows = 2
    MaxReceived = 3
    MaxLiveTurns = 2
    MaxTurns = 3
    MaxThreads = 3
    QueueCap = 3
    RetryCap = 1
    MailboxCap = 2
    BatchMax = 2
    MaxActors = 1
    MaxActive = 1
    MaxDeliveries = 1
    MayHappen <- AllFaults
    MaxFaults = 2
    Outcomes = {"completed", "failed", "interrupted"}
    Quiet = {1}
CHECK_DEADLOCK FALSE
INVARIANTS SubmittedOnce SettledIsAnswered ScanPasses
