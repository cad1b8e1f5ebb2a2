SPECIFICATION FairChatSpec
CONSTANTS
    MaxRequests = 2
INVARIANTS
    ConversationSound
PROPERTY
    SettledStaysSettled
    LoadSettles
    GeneratingEnds
CHECK_DEADLOCK FALSE
