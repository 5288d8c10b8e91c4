SPECIFICATION Spec
CONSTANTS
    Times = {0, 1, 2, 3, 4, 5}
    Values = {old, new}
    MaxLen = 4
INVARIANTS
    StrictlySorted
PROPERTIES
    KeepsNewest
