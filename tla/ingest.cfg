SPECIFICATION FairSpec
CONSTANTS
    Symbol = {x, y}
    None = None
    Failed = Failed
    PollCount = 3
    BackfillCount = 4
    BufferSize = 3
    Retention = 2
    PruneInterval = 2
    MaxMinute = 4
    MaxRestarts = 1
INVARIANTS
    OnlyFinalCandles
    GapNeedsMisses
    OneScanAtATime
    QuietAfterClose
PROPERTIES
    ServesEveryTick
\* The clock stops at MaxMinute and the service may be asleep or closed.
CHECK_DEADLOCK FALSE
