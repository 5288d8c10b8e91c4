SPECIFICATION FairSpec
CONSTANTS
    a = a
    b = b
    c = c
    btc = btc
    Symbol <- Sym
    None = None
    Universe <- Universes
    Feature <- Features
    Offsets <- FewOffsets
    DvWindow = 3
    HighWindow = 1
    BucketLength = 2
    SlowBuckets = 1
    BufferSize = 4
    PollCount = 2
    BackfillCount = 5
    DvzMin = 1
    TopN = 2
    EntryPercent = 80
    Slots = 1
    MaxTries = 2
    Start = 6
    MaxMinute = 9
    MaxUpsets = 1
INVARIANTS
    RowsNeedFetches
    OnlyMissesSilence
    OldOnlyIfMissed
    RanksAreMidranks
    BetterNotBehind
    BestAreChecked
    CallsEndInOrder
PROPERTIES
    SnapshotsComplete
    KeepsPromise
CHECK_DEADLOCK FALSE
