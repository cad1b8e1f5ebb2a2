SPECIFICATION Spec
CONSTANTS
    t1 = t1
    t2 = t2
    n1 = n1
    n2 = n2
    f1 = f1
    Tasks = {t1}
    NoTask = NoTask
    Nodes = {n1}
    Fetchers = {f1}
    MaxBills = 2
    MaxFaults = 0
    MaxCrashes = 0
    MaxFetches = 1
INVARIANT
    NoDoubleRefund
CHECK_DEADLOCK FALSE
