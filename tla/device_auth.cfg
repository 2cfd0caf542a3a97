SPECIFICATION Spec
CONSTANTS
    None = None
    MaxSecrets = 5
    MaxAsked = 4
    Calls = {c1, c2}
    Plugins = {p1, p2}
    Keys = {k1, k2}
    MaxPending = 1
    MaxNonces = 2
SYMMETRY Symmetry
INVARIANT SessionsEnd
INVARIANT ShownCodePairs
INVARIANT NonceEarnsOne
INVARIANT KeyStands
CHECK_DEADLOCK FALSE
