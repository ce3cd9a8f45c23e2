CONSTANTS
    n1 = n1
    n2 = n2
    c1 = c1
    c2 = c2
    Node = {n1, n2}
    Command = {c1, c2}
    MaxTerm = 2
    MaxLog = 2
    MaxNet = 1
    MaxCrash = 1
    Preempt = {"append", "replicate", "entries"}
SPECIFICATION OrderedSpec
CHECK_DEADLOCK FALSE
PROPERTIES
    CommittedPrefixStable
    ReplicationProgress
