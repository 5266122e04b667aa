\* A provider without idempotency keys, three attempts.
CONSTANTS
    r1 = r1
    r2 = r2
    small = small
    large = large
    Runs = {r1, r2}
    Credits = {small, large}
    Allowed = {small}
    NoCredit = NoCredit
    NoRequest = NoRequest
    MaxCalls = 1
    MaxRetries = 1
    MaxAttempts = 3
    ProviderKeyed = FALSE
SPECIFICATION Spec
SYMMETRY Symmetry
INVARIANTS
    OneEffectPerInvocation
    OneCreditPerRequest
\* Every run ends, and with it the behaviour.
CHECK_DEADLOCK FALSE
