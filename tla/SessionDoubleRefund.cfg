SPECIFICATION Spec
CONSTANTS
    s1 = s1
    s2 = s2
    Sessions = {s1, s2}
    Preferences = {"subscription_only"}
    Wallet = 3
    Token = 9
    Unlimited = FALSE
    AmountTotal = 6
    Overflow = TRUE
    Trust = 0
    Estimates = {2}
    Actuals = {2}
    MaxAttempts = 3
    MaxFaults = 1
    MaxCrashes = 0
    MaxResets = 0
INVARIANT
    SubscriptionRefundIdempotent
CHECK_DEADLOCK FALSE
