\* The retry budget as deployed.
CONSTANTS
    r1 = r1
    r2 = r2
    small = small
    large = large
    Runs = {r1}
    Credits = {small}
    Allowed = {small}
    NoCredit = NoCredit
    NoRequest = NoRequest
    MaxCalls = 1
    MaxRetries = 1
    MaxAttempts = 2
    ProviderKeyed = TRUE
SPECIFICATION Spec
PROPERTIES
    AttemptsAreAuthorized
\* Every run ends, and with it the behaviour.
CHECK_DEADLOCK FALSE
