SPECIFICATION FairSpec
CONSTANTS
    Event <- Texts
    Scope = {"a", "b"}
    ScopeOf <- TwoScopes
    MsgOf <- Own
    KindOf <- AllText
    MayRefuse = {}
    MaxRows = 3
    MaxReceived = 3
    MaxLiveTurns = 2
    MaxTurns = 3
    MaxThreads = 3
    QueueCap = 3
    RetryCap = 1
    MailboxCap = 2
    BatchMax = 2
    MaxActors = 2
    MaxActive = 1
    MaxDeliveries = 1
    MayHappen <- LiveFaults
    MaxFaults = 2
    Outcomes = {"completed"}
    Quiet = {1}
CHECK_DEADLOCK FALSE
PROPERTIES Drains
