SPECIFICATION Spec
CONSTANTS
    s1 = s1
    s2 = s2
    s3 = s3
    Sessions = {s1, s2, s3}
    Requests = {s1, s3}
    NoSession = NoSession
    Mode = "mixed"
    Policy = "block"
    Limit = 4
    NewLimits = {}
    Estimates = {2}
    Actuals = {1, 3}
    Trusting = TRUE
    MaxFaults = 1
    MaxCrashes = 1
    MaxConfigs = 0
    RequestOf <- SharedKey
INVARIANTS
    TypeOK
    CreditOverrunBounded
    LeftoverBounded
CHECK_DEADLOCK FALSE
