--------------------------- MODULE MCRaftScenarios ---------------------------
(* Model checking of RaftReplication: one run over several small instances.*)
EXTENDS MCRaftReplication

CONSTANTS c3,          \* the third command
          Scenarios    \* the scenarios to explore

\* The scenarios.  Each is small in some dimensions so that it can be large in
\* others: terms, commands, length of the logs, rounds at a time, requests in
\* transit, whether these may arrive after their call has timed out, whether
\* submissions poll for their entry, crashes.
Scenario(terms, used, length, rounds, requests, late, polls, crashed) ==
    [terms |-> terms, used |-> used, length |-> length, rounds |-> rounds,
     requests |-> requests, late |-> late, polls |-> polls,
     crashed |-> crashed]

SafetyScenarios ==
    {Scenario(4, {c1, c2}, 1, 1, 1, FALSE, FALSE, 0),
     Scenario(3, {c1, c2, c3}, 2, 1, 1, FALSE, FALSE, 0),
     Scenario(1, {c1, c2}, 2, 1, 2, TRUE, FALSE, 0),
     Scenario(2, {c1}, 1, 1, 2, TRUE, FALSE, 0),
     Scenario(2, {c1, c2}, 2, 2, 1, TRUE, FALSE, 1),
     Scenario(2, {c1, c2}, 1, 2, 1, TRUE, TRUE, 0)}

\* Two rounds at a time, for the window of a round.
WindowScenarios == {Scenario(3, {c1, c2}, 1, 2, 1, FALSE, FALSE, 0)}

VARIABLE scenario

Within(s) ==
    /\ \A n \in Node : currentTerm[n] <= s.terms /\ Len(log[n]) <= s.length
    /\ issued \subseteq s.used
    /\ Cardinality({n \in Node : round[n].term # 0}) <= s.rounds
    /\ Cardinality(net) <= s.requests
    /\ s.late \/ \A m \in net : m.waited
    /\ s.polls \/ \A n \in Node : submit[n] = NoSubmit
    /\ crashes <= s.crashed

AllInOrder == InOrder /\ (c3 \in issued => c2 \in issued)

ScenarioInit == Init /\ scenario \in Scenarios

ScenarioNext == Next /\ UNCHANGED scenario /\ Within(scenario)' /\ AllInOrder'

ScenarioSpec == ScenarioInit /\ [][ScenarioNext]_<<vars, scenario>>

ScenarioView == <<View, scenario>>

\* Only for runs with safety properties.
NodeSymmetry == Permutations(Node)
=============================================================================
