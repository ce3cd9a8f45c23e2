CONSTANTS
    e1 = e1
    e2 = e2
    w1 = w1
    w2 = w2
    Nobody = Nobody
    NoExperiment = NoExperiment
    Experiments <- TwoExperiments
    Workers <- TwoWorkers
    Rank <- RankOf
    ClientAssigns = FALSE
    MaxStep = 2
    MaxCalls = 2
    MaxCrash = 1
    MaxDown = 0
    MaxLate = 1
    MaxLost = 1
SPECIFICATION ScenarioSpec
INVARIANTS
    OneWorkerPerAttempt
    OneRunningPerWorker
PROPERTIES
    LifecycleKept
    CancellationKept
