SPECIFICATION FairSpec
CONSTANTS
    pods = pods
    sentinel = sentinel
    s1 = s1
    s2 = s2
    NoOwner = NoOwner
    Labs = {"sentinel"}
    Publishers = {pods, sentinel}
    PubLab <- TwoPublishers
    Sessions = {s1, s2}
    Cap = 1
    MaxEvents = 1
PROPERTIES
    PublishReturns
    GoneIsReleased
CHECK_DEADLOCK FALSE
