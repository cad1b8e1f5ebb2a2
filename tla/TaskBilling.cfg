SPECIFICATION FairSpec
CONSTANTS
    t1 = t1
    t2 = t2
    n1 = n1
    n2 = n2
    f1 = f1
    Tasks = {t1}
    NoTask = NoTask
    Nodes = {n1, n2}
    Fetchers = {f1}
    MaxBills = 2
    MaxFaults = 1
    MaxCrashes = 1
    MaxFetches = 2
INVARIANTS
    BillsSound
    SunoRefundedOnceAlone
PROPERTY
    LifecycleSpec
    TaskEventuallyEnds
    FailedEventuallyRefunded
CHECK_DEADLOCK FALSE
