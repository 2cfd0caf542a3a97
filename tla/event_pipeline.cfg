SPECIFICATION Spec
CONSTANTS
    None = None
    Types = {"running", "stopping", "note"}
    LogSize = 2
    Runs = {r1, r2}
    Times = {1, 2}
    MaxRecorded = 3
    MaxCopies = 1
    Ingests = {i1, i2}
    Backends = {"sql", "memory"}
    RunsKept = 1
    EventsKept = 2
    MaxUpsets = 1
SYMMETRY Symmetry
CONSTRAINT VariedByBackend
INVARIANT TypeOK
INVARIANT NewestKept
INVARIANT HistoryAgrees
CHECK_DEADLOCK FALSE
