CONSTANTS
    e1 = e1
    e2 = e2
    w1 = w1
    w2 = w2
    Nobody = Nobody
    NoExperiment = NoExperiment
    Experiments <- OneExperiment
    Workers <- OneWorker
    Rank <- RankOf
    ClientAssigns = TRUE
    MaxStep = 0
    MaxCalls = 1
    MaxCrash = 1
    MaxDown = 1
    MaxLate = 1
    MaxLost = 1
SPECIFICATION FairSpec
PROPERTIES EveryExperimentEnds
