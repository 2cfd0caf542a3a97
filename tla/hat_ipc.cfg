SPECIFICATION FairSpec
CONSTANTS
    Callers = {w1, w2}
    None = None
    MaxSends = 4
    MaxConns = 3
INVARIANT AnswerIsOwn
PROPERTY LockReleased
