SPECIFICATION FairSpec
CONSTANTS
    s1 = s1
    s2 = s2
    s3 = s3
    Sessions = {s1, s2, s3}
    Requests = {s1, s3}
    NoSession = NoSession
    Mode = "postpaid"
    Policy = "block"
    Limit = 6
    NewLimits = {3}
    Estimates = {2}
    Actuals = {0, 1, 2}
    Trusting = FALSE
    MaxFaults = 1
    MaxCrashes = 1
    MaxConfigs = 1
    RequestOf <- SharedKey
INVARIANTS
    UnbilledIsLedger
    ReservedIsHeld
PROPERTY
    ReservationsReturned
CHECK_DEADLOCK FALSE
