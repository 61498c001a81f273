SPECIFICATION FairSpec
CONSTANTS
    Master = master
    Replicas = {replica}
    NoPod = NoPod
    MaxChanges = 2
    Requests = {q1, q2}
    Null = Null
INVARIANTS
    TypeOK
    SettledViewIsTrue
PROPERTY EventuallyCurrent
CHECK_DEADLOCK FALSE
