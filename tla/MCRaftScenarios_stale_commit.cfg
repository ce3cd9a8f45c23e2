CONSTANTS
    n1 = n1
    n2 = n2
    n3 = n3
    c1 = c1
    c2 = c2
    c3 = c3
    Node = {n1, n2, n3}
    Command = {c1, c2, c3}
    MaxTerm = 4
    MaxLog = 2
    MaxNet = 2
    MaxCrash = 2
    Preempt = {"replicate"}
    Scenarios <- WindowScenarios
SPECIFICATION ScenarioSpec
SYMMETRY NodeSymmetry
VIEW ScenarioView
CHECK_DEADLOCK FALSE
INVARIANTS
    StateMachineSafety
