CONSTANTS
    n1 = n1
    n2 = n2
    n3 = n3
    None = None
    Node = {n1, n2, n3}
    MaxTerm = 2
    MaxNet = 1
    MaxCrash = 1
SPECIFICATION FairSpec
CHECK_DEADLOCK FALSE
INVARIANTS
    OneVotePerTerm
    ElectionSafety
    LeaderHintTrue
PROPERTIES
    StaleLeaderStepsDown
