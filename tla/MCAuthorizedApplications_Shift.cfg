CONSTANTS
    t1 = t1
    t2 = t2
    t3 = t3
    Unloaded = Unloaded
    NoToken = NoToken
    MaxCalls = 3
    AllTokens <- MCAllTokens
SPECIFICATION Spec
CHECK_DEADLOCK FALSE
INVARIANT RevokesTokenOpened
