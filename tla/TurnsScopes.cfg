SPECIFICATION Spec
CONSTANTS
    Event <- Four
    Scope = {"a", "b"}
    ScopeOf <- TwoScopes
    MsgOf <- Own
    KindOf <- TextAndResume
    MayRefuse = {}
    MaxRows = 4
    MaxReceived = 4
    MaxLiveTurns = 2
    MaxTurns = 3
    MaxThreads = 3
    QueueCap = 4
    RetryCap = 1
    MailboxCap = 2
    BatchMax = 2
    MaxActors = 1
    MaxActive = 1
    MaxDeliveries = 1
    MayHappen = {"lag", "codex", "timeout", "giveup", "thread"}
    MaxFaults = 2
    Outcomes = {"completed"}
    Quiet = {1}
CHECK_DEADLOCK FALSE
INVARIANTS OneTurnPerScope ThreadsStayHome
