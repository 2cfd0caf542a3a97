SPECIFICATION FairSpec
CONSTANTS
    p1 = p1
    p2 = p2
    q1 = q1
    Puts <- OnePut
    Recs <- OneRec
    None = None
    MaxThreads = 2
    MaxStreams = 2
PROPERTY PausedMicReleased
PROPERTY StopEndsThreads
