\* The workflow under fair threads and a persistent operator.
CONSTANTS
    a1 = a1
    a2 = a2
    w1 = w1
    w2 = w2
    w3 = w3
    manager = manager
    clerk = clerk
    Approvals = {a1}
    Subjects = {k1}
    Workers = {w1, w2}
    Operators = {manager, clerk}
    Approvers = {manager}
    NoSubject = NoSubject
    NoOne = NoOne
    NoCall = NoCall
    LedgerAtomic = TRUE
    LedgerDurable = TRUE
    MaxFaults = 2
    MaxCrashes = 2
SPECIFICATION FairSpec
INVARIANT
    ThreadsNeverStuck
PROPERTIES
    StoppedOnlyByFailure
    EveryCallAnswered
    ApprovedIsExecuted
