SPECIFICATION Spec
CONSTANTS
    a = a
    b = b
    btc = btc
    None = None
    Symbol <- Sym
    Signal <- AlertSignals
    Settings <- AlertSettings
    Universe <- FixedUniverse
    ClockStep <- SetBack
    MaxTime = 2
INVARIANTS
    TypeOK
    RollingBudgets
    CooldownsKept
    CountsExact
PROPERTIES
    NoFlapping
    MissingIsClosed
