SPECIFICATION FairSpec
CONSTANTS
    Alert = {x, y}
    Symbol = {s, t}
    None = None
    Horizon = 2
    Offsets = {1, 2}
    BatchSize = 2
    PollCount = 3
    MaxBackfills = 1
    MaxMinute = 4
INVARIANTS
    EvaluatedForGood
PROPERTIES
    EveryEntryEvaluated
\* The clock stops at MaxMinute, and every alert may have been created.
CHECK_DEADLOCK FALSE
