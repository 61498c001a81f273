SPECIFICATION FairSpec
CONSTANTS
    Nodes = {node0, node1}
    MaxMessages = 3
    MaxCloses = 2
INVARIANTS
    TypeOK
    RoleFollowsSwitch
PROPERTIES
    SwitchIsCompleted
    Resubscribes
CHECK_DEADLOCK FALSE
