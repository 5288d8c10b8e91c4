SPECIFICATION Spec
CONSTANTS
    a = a
    b = b
    btc = btc
    None = None
    Symbol <- Sym
    Signal <- AlertSignals
    Settings <- CrossedSettings
    Universe <- FixedUniverse
    ClockStep <- Minutes
    MaxTime = 3
PROPERTIES
    NoFlapping
