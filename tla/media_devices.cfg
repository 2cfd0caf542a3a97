SPECIFICATION Spec
CONSTANTS
    None = None
    Calls = {c1, c2, c3}
    MaxLoops = 3
    MaxServers = 2
    MaxRequests = 5
SYMMETRY Symmetry
INVARIANT OneThread
INVARIANT MicHeld
INVARIANT CameraHeld
INVARIANT StreamServed
CHECK_DEADLOCK FALSE
