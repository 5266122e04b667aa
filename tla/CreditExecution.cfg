\* As deployed: a provider with idempotency keys, two attempts, one client retry.
CONSTANTS
    r1 = r1
    r2 = r2
    small = small
    large = large
    Runs = {r1}
    Credits = {small, large}
    Allowed = {small}
    NoCredit = NoCredit
    NoRequest = NoRequest
    MaxCalls = 2
    MaxRetries = 1
    MaxAttempts = 2
    ProviderKeyed = TRUE
SPECIFICATION FairSpec
INVARIANTS
    IndInv
    OneCreditPerKey
    HonestAnswers
    CallsNeverStuck
PROPERTIES
    NoCreditAfterTheRun
    RevokedIsFinal
    EveryToolCallAnswered
    ImplementsContract
\* Every run ends, and with it the behaviour.
CHECK_DEADLOCK FALSE
