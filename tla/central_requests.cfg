SPECIFICATION Spec
CONSTANTS
    None = None
    Calls = {c1, c2}
    Words = {w1, w2}
    MaxTokens = 4
    MaxRequests = 4
    Owners = {o1, o2}
    Keys = {k1, k2}
    KeyNeeded = FALSE
SYMMETRY Symmetry
INVARIANT OneTokenPerSession
INVARIANT ChangeEndsSessions
INVARIANT OwnersProved
CHECK_DEADLOCK FALSE
