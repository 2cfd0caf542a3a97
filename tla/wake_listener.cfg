SPECIFICATION Spec
CONSTANTS
    p1 = p1
    p2 = p2
    q1 = q1
    Puts <- TwoPuts
    Recs <- OneRec
    None = None
    MaxThreads = 2
    MaxStreams = 2
SYMMETRY Symmetry
INVARIANT OneListener
INVARIANT NoStreamLeaked
INVARIANT HalfDuplex
