SPECIFICATION Spec
CONSTANTS
    a = a
    b = b
    btc = btc
    None = None
    Symbol <- Sym
    Signal <- PeakSignals
    Settings <- PeakSettings
    Universe <- PeakUniverses
    ClockStep <- Minutes
    MaxTime = 3
INVARIANTS
    InMeansUpWasLast
    PeakBelongsToEntry
    SlowingClosesUp
PROPERTIES
    FailedSnapshotChangesNothing
