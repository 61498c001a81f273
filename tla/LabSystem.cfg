SPECIFICATION FairSpec
CONSTANTS
    Pods = {node0}
    MaxUid = 2
    MaxBreaks = 1
    MaxQueue = 1
    MaxBackoff = 2
    Cap = 2
    MaxSwitches = 1
INVARIANTS
    TypeOK
    AtMostOneStream
    WholeStreamIsCurrent
PROPERTIES
    NewsNeverGoesBack
    Reopens
    DoneIsCleared
CHECK_DEADLOCK FALSE
