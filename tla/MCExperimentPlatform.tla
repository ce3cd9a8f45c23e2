----------------------- MODULE MCExperimentPlatform -----------------------
(* Instances of ExperimentPlatform for TLC. *)
EXTENDS ExperimentPlatform, TLC

CONSTANTS e1, e2, w1, w2

OneExperiment == {e1}
TwoExperiments == {e1, e2}
OneWorker == {w1}
TwoWorkers == {w1, w2}

\* e1 comes before e2 in the order of GetNextPending.
RankOf == [e \in Experiments |-> IF e = e1 THEN 2 ELSE 1]

=============================================================================
