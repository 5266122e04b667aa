\* The workflow as deployed: GuestCreditLedger in the process, endpoints in threads.
CONSTANTS
    a1 = a1
    a2 = a2
    w1 = w1
    w2 = w2
    w3 = w3
    manager = manager
    clerk = clerk
    Approvals = {a1}
    Subjects = {k1}
    Workers = {w1, w2}
    Operators = {manager, clerk}
    Approvers = {manager}
    NoSubject = NoSubject
    NoOne = NoOne
    NoCall = NoCall
    LedgerAtomic = FALSE
    LedgerDurable = FALSE
    MaxFaults = 0
    MaxCrashes = 0
SPECIFICATION Spec
SYMMETRY Symmetry
INVARIANT OneCreditPerSubject
