SPECIFICATION Spec
CONSTANTS
    s1 = s1
    s2 = s2
    Sessions = {s1, s2}
    Preferences = {"subscription_only", "subscription_first", "wallet_only", "wallet_first"}
    Wallet = 4
    Token = 6
    Unlimited = FALSE
    AmountTotal = 4
    Overflow = TRUE
    Trust = 3
    Estimates = {0, 3, 5}
    Actuals = {1, 4}
    MaxAttempts = 2
    MaxFaults = 2
    MaxCrashes = 1
    MaxResets = 1
INVARIANTS
    TypeOK
    QuotaConserved
    WalletNeverCreditedTwice
    OverdraftBounded
SYMMETRY Symmetry
CHECK_DEADLOCK FALSE
