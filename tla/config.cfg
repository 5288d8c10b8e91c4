SPECIFICATION Spec
CONSTANTS
    Request = {q, r, s}
    Key = {j, k}
    Value = {v, w}
    None = None
    MaxFaults = 2
INVARIANTS
    TypeOK
    AnsweredStays
    OnlyCommittedInEffect
\* Every request may have been answered.
CHECK_DEADLOCK FALSE
