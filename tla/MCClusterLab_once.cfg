SPECIFICATION Spec
CONSTANTS
    n0 = n0
    n1 = n1
    n2 = n2
    a0 = a0
    a1 = a1
    a2 = a2
    Nodes = {n0, n1, n2}
    Slots = {0, 1}
    Addrs = {a0, a1, a2}
    NoNode = NoNode
    NoAddr = NoAddr
    MaxChanges = 0
    Pod0 = n0
    Commands = {c1}
    NoKey = NoKey
    Views = {}
SYMMETRY LabSymmetry
INVARIANT ExecutedOnce
CHECK_DEADLOCK FALSE
