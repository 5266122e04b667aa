\* One run with two calls, each sent again once, and two grants that may end.
CONSTANTS
    r1 = r1
    Runs = {r1}
    Clients = {"reservations", "property-operations", "guest-support", "service-recovery", "legacy"}
    Amounts <- MCAmounts
    Asks <- MCAsks
    Lines = {"R-3001", "", "x", "y", "low"}
    TiesUp <- MCTiesUp
    NoAsk = NoAsk
    NoRequest = NoRequest
    NoClient = NoClient
    MaxCalls = 2
    MaxRetries = 1
    Endings <- MCEndings
SPECIFICATION Spec
INVARIANTS
    IndInv
    LeastPrivilege
    AnswersKeepTheirRequest
    AmountsAreKept
    RefusedOnlyWithReason
    EveryCreditHasOnePath
    ReleaseGatePasses
    AttacksFailForTheirReason
PROPERTIES
    ImplementsContract
\* Every run ends, and with it the behaviour.
CHECK_DEADLOCK FALSE
