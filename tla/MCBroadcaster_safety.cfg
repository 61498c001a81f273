SPECIFICATION Spec
CONSTANTS
    pods = pods
    sentinel = sentinel
    s1 = s1
    s2 = s2
    NoOwner = NoOwner
    Labs = {"sentinel", "standalone"}
    Publishers = {pods, sentinel}
    PubLab <- TwoPublishers
    Sessions = {s1, s2}
    Cap = 1
    MaxEvents = 2
SYMMETRY SessionSymmetry
INVARIANTS
    TypeOK
    MapIsStable
    NoSendOnClosed
    NothingLostSilently
    InOrder
    LossNeedsBacklog
PROPERTY FeedSpec
CHECK_DEADLOCK FALSE
