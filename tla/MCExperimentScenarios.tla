----------------------- MODULE MCExperimentScenarios -----------------------
(* Model checking of ExperimentPlatform: one run over several instances.   *)
EXTENDS MCExperimentPlatform

\* The scenarios.  Each is small in some dimensions so that it can be large in
\* others: the experiments created, the workers started, whether clients
\* cancel, the progress reported, HTTP calls at a time, and the faults.
Scenario(exps, workers, cancels, steps, requests, crash, late, lost) ==
    [exps |-> exps, workers |-> workers, cancels |-> cancels, steps |-> steps,
     requests |-> requests,
     faults |-> [crash |-> crash, down |-> 0, late |-> late, lost |-> lost]]

Scenarios ==
    {Scenario({e1}, {w1, w2}, FALSE, 0, 1, 0, 1, 1),
     Scenario({e1}, {w1, w2}, FALSE, 0, 1, 1, 0, 0),
     Scenario({e1}, {w1}, TRUE, 2, 2, 0, 1, 0),
     Scenario({e1, e2}, {w1}, FALSE, 0, 1, 1, 1, 0),
     Scenario({e1, e2}, {w1}, TRUE, 0, 1, 0, 0, 0)}

VARIABLE scenario

Within(s) ==
    /\ \A e \in Experiments \ s.exps : row[e] = NoRow
    /\ \A w \in Workers \ s.workers : job[w].phase = "starting"
    /\ s.cancels \/ \A d \in calls : d.command.type # "Cancel"
    /\ \A w \in Workers : job[w].step <= s.steps
    /\ Cardinality(CallsBy("http")) <= s.requests
    /\ \A kind \in DOMAIN faults : faults[kind] <= s.faults[kind]

\* Workers differ in name only and do not crash here: w1 starts first.
InOrder == job[w2].phase # "starting" => job[w1].phase # "starting"

ScenarioInit == Init /\ scenario \in Scenarios

ScenarioNext == Next /\ UNCHANGED scenario /\ Within(scenario)' /\ InOrder'

ScenarioSpec == ScenarioInit /\ [][ScenarioNext]_<<vars, scenario>>
=============================================================================
