SPECIFICATION FairQuotaSpec
CONSTANTS
    n1 = n1
    Nodes = {n1, n2}
    n2 = n2
    Amounts = {1}
    MaxOps = 2
    MaxReads = 1
    MaxMishaps = 1
INVARIANTS
    BalancesSound
    CacheFollowsBalance
PROPERTY
    CollectedEventuallyWritten
CHECK_DEADLOCK FALSE
