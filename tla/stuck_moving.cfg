SPECIFICATION FairSpec
CONSTANTS
    a = a
    b = b
    btc = btc
    None = None
    Symbol <- Sym
    Signal <- AlertSignals
    Settings <- MovingSettings
    Universe <- MovingUniverses
    ClockStep <- Minutes
    MaxTime = 2
PROPERTIES
    NotStuckIn
