SPECIFICATION Spec
CONSTANTS
    Event <- FourAgain
    Scope = {"a"}
    ScopeOf <- OneScope
    MsgOf <- Shared
    KindOf <- Mixed
    MayRefuse = {"m3", "m4"}
    MaxRows = 4
    MaxReceived = 4
    MaxLiveTurns = 2
    MaxTurns = 4
    MaxThreads = 3
    QueueCap = 6
    RetryCap = 1
    MailboxCap = 2
    BatchMax = 2
    MaxActors = 1
    MaxActive = 1
    MaxDeliveries = 1
    MayHappen = {}
    MaxFaults = 0
    Outcomes = {"completed", "uncertain"}
    Quiet = {1}
CHECK_DEADLOCK FALSE
INVARIANTS KeptInOrder
