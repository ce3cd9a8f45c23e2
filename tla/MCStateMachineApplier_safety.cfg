CONSTANTS
    Nodes = {n1, n2}
    Experiments = {e1}
    Workers = {w1}
    Nobody = Nobody
    MaxCommands = 4
    MaxOpen = 2
    MaxStep = 1
    MaxCrash = 1
SPECIFICATION FairSpec
CHECK_DEADLOCK FALSE
INVARIANTS
    ReplicasAgree
PROPERTIES
    AppliedUnlessRejected
