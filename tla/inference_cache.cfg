SPECIFICATION Spec
CONSTANTS
    s1 = s1
    s2 = s2
    g1 = g1
    g2 = g2
    m1 = m1
    Sessions <- MCSessions
    Gens <- MCGens
    Models <- MCModels
    ModelOf <- MCModelOf
    MaxTokens = 2
    ChannelCap = 1
    Interrupted <- MCInterrupted
    MaxCancels = 1
INVARIANTS
    DecodeUsesOwnPages
CHECK_DEADLOCK FALSE
