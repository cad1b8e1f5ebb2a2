SPECIFICATION FairSpec
CONSTANTS
    c1 = c1
    c2 = c2
    c3 = c3
    Requests = {1}
    Calls = {c1, c2}
    RequestOf <- MCRequestOf
    NoCall = NoCall
    Worker = Worker
    BatchLimit = 2
    StaleAfter = 1
    BaseDelay = 2
    MaxDelay = 3
    RetryCap = 2
    MaxFaults = 1
    MaxCrashes = 1
INVARIANTS
    OutboxInv
PROPERTY
    MeteringSpec
    EnqueuedEventuallyRecorded
