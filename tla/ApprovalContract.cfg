\* The workflow over a provider that honours its idempotency contract.
CONSTANTS
    a1 = a1
    a2 = a2
    w1 = w1
    w2 = w2
    w3 = w3
    manager = manager
    clerk = clerk
    Approvals = {a1, a2}
    Subjects = {k1, k2}
    Workers = {w1, w2}
    Operators = {manager, clerk}
    Approvers = {manager}
    NoSubject = NoSubject
    NoOne = NoOne
    NoCall = NoCall
    LedgerAtomic = TRUE
    LedgerDurable = TRUE
    MaxFaults = 2
    MaxCrashes = 2
SPECIFICATION Spec
SYMMETRY Symmetry
INVARIANTS
    TypeOK
    IndInv
    CreditOnlyAfterApproval
    OneCreditPerSubject
    ExecutedMeansCredited
    HonestReplies
PROPERTIES
    DecisionsAreFinal
    ImplementsLifecycle
