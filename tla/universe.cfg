SPECIFICATION Spec
CONSTANTS
    Refresh = {p, q}
    Instrument = {btc, x, y, swap}
    None = None
    Pair = {btc, x, y}
    Btc = {btc}
    Anchor = swap
    MaxSize = 2
    Volume = {1, 2}
INVARIANTS
    TypeOK
    ActiveIsOneSelection
    SelectionIsTop
