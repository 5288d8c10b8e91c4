SPECIFICATION FairSpec
CONSTANTS
    Alert = {x, y}
    Symbol = {s}
    None = None
    Horizon = 2
    Offsets = {1, 2}
    BatchSize = 1
    PollCount = 2
    MaxBackfills = 0
    MaxMinute = 4
PROPERTIES
    EveryEntryEvaluated
\* The clock stops at MaxMinute, and every alert may have been created.
CHECK_DEADLOCK FALSE
