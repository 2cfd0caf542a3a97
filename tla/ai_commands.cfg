SPECIFICATION AiFairSpec
CONSTANTS
    None = None
    Calls = {c1, c2}
    MaxAdmitted = 2
    Window = 2
    MaxTime = 2
    MaxHistory = 4
    MaxKept = 1
    IdleTtl = 1
    MaxRounds = 2
    MaxCommands = 3
    MaxBlocks = 2
INVARIANT AiTypeOK
INVARIANT TurnsKept
INVARIANT RateHeld
PROPERTY CommandsEnd
CHECK_DEADLOCK FALSE
