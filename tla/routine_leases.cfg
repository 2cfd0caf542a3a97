SPECIFICATION FairSpec
CONSTANTS
    c1 = c1
    c2 = c2
    Routines = {explore}
    Calls <- HttpCalls
    VoiceCalls <- VoiceCommand
    None = None
    Windows <- AnyWindow
    Caps <- AnyCap
    DefaultTimeout = 1
    TimeoutCeiling = 1
    MinTimeout = 1
    DefaultCap = None
    MaxRuns = 1
    MaxTime = 1
PROPERTY FirstReasonKept
PROPERTY LapseIsJustified
PROPERTY CallsReturn
PROPERTY LapsedLeaseEnds
PROPERTY CancelledRunsEnd
