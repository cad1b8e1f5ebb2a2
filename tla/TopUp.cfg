SPECIFICATION FairSpec
CONSTANTS
    h1 = h1
    h2 = h2
    h3 = h3
    n1 = n1
    n2 = n2
    Handlers = {h1, h2, h3}
    Nodes = {n1, n2}
    Placements <- OneOrTwoNodes
    None = None
    MaxFaults = 1
    MaxCrashes = 1
INVARIANTS
    LocksSound
    CreditedOnce
PROPERTY
    OutcomeIsFinal
    HandlersFinish
CHECK_DEADLOCK FALSE
