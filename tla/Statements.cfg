SPECIFICATION Spec
CONSTANTS
    p1 = p1
    p2 = p2
    o1 = o1
    Periods = {p1, p2}
    Operators = {o1}
    NoPeriod = NoPeriod
    Limit = 10
    NewLimits = {5}
    Quotas = {1, 2}
    MaxUsage = 2
    MaxConfigs = 1
    Adjustments <- MCAdjustments
SYMMETRY Symmetry
INVARIANTS
    StatementInv
    AccountMatchesStatements
    DebtIsUsage
PROPERTY
    ConfirmedIsFinal
CHECK_DEADLOCK FALSE
