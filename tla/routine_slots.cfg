SPECIFICATION Spec
CONSTANTS
    c1 = c1
    c2 = c2
    Routines = {explore, follow}
    Calls <- HttpCalls
    VoiceCalls <- NoVoice
    None = None
    Windows <- DefaultOnly
    Caps <- DefaultOnly
    DefaultTimeout = 1
    TimeoutCeiling = 2
    MinTimeout = 1
    DefaultCap = None
    MaxRuns = 2
    MaxTime = 0
SYMMETRY Symmetry
INVARIANT OneLiveProcess
INVARIANT NoneOrphaned
PROPERTY StopReplyIsFinal
PROPERTY SlotsSpec
