SPECIFICATION Spec
CONSTANTS
    Alert = {x, y}
    None = None
    MaxAttempts = 4
    MaxAge = 6
    BatchSize = 2
    Delay <- CodeDelay
    FailuresBeforePause = 3
    Pause = 3
    Interval = 1
    Calls <- SlackCalls
    MaxFaults = 1
    LastCreation = 2
    MaxTime = 12
SYMMETRY Symmetry
INVARIANTS
    AttemptLimitButLost
    DuplicateNeedsFault
    StaleByOneBatch
    TriedBeforeStale
PROPERTIES
    DelaysKeptButForBatch
    PauseJustified
\* The clock stops at MaxTime, and the service may be asleep then.
CHECK_DEADLOCK FALSE
