SPECIFICATION Spec
CONSTANTS
    Nodes = {node0, node1, node2}
    Commands = {c}
    Views = {v}
    NoPod = NoPod
    MaxSwitches = 1
SYMMETRY NodeSymmetry
INVARIANTS
    TypeOK
    RefusedOnlyIfMoved
    SettledViewIsWhole
CHECK_DEADLOCK FALSE
