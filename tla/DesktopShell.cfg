SPECIFICATION FairSpec
CONSTANTS
    w1 = w1
    w2 = w2
    Windows = {w1, w2}
    NoWindow = NoWindow
    MaxRetries = 3
    MaxQuits = 2
INVARIANTS
    NoOrphanedServer
    ProbesBounded
    WindowsSound
PROPERTY
    QuitEventuallyExits
    StartEventuallySettles
CHECK_DEADLOCK FALSE
