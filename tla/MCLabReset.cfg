SPECIFICATION Spec
CONSTANTS
    Resets = {r1, r2}
    Scripts = {sh}
    Kills = {k}
    MaxExits = 1
    NoOne = NoOne
SYMMETRY ResetSymmetry
INVARIANTS
    TypeOK
    OkAloneIsFresh
    LabDownIsReported
CHECK_DEADLOCK FALSE
