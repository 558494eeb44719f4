SPECIFICATION FairSpec
CONSTANTS
    s1 = s1
    s2 = s2
    g1 = g1
    g2 = g2
    m1 = m1
    Sessions <- OneSession
    Gens <- MCGens
    Models <- MCModels
    ModelOf <- OneModelOf
    MaxTokens = 2
    ChannelCap = 1
    Interrupted <- OneSession
    MaxCancels = 1
INVARIANTS
    TypeOK
    CancelStopsSoon
    OneCancelOneVictim
    AloneSeesOwnContext
    StreamEndsOnce
PROPERTIES
    EveryStreamEnds
CHECK_DEADLOCK FALSE
