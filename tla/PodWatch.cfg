SPECIFICATION FairSpec
CONSTANTS
    Pods = {node0, node1}
    MaxUid = 2
    MaxBreaks = 1
    MaxQueue = 2
INVARIANTS
    TypeOK
    CurrentWhileConnected
    DeletionIsReal
PROPERTIES
    NeverBackwards
    ReadyIsShown
    KillIsReported
    CancelStops
CHECK_DEADLOCK FALSE
