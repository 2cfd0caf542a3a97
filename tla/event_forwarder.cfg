SPECIFICATION ForwarderFairSpec
CONSTANTS
    None = None
    Types = {"stopping"}
    LogSize = 2
    MaxRecorded = 3
    Runs = {r1}
    Times = {1}
    QueueSize = 1
    MaxFaults = 2
INVARIANT LastWord
PROPERTY IsChannel
PROPERTY Delivered
CHECK_DEADLOCK FALSE
