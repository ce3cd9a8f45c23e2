------------------------------ MODULE MCPBFT ------------------------------
(***************************************************************************)
(* PBFTReplica for TLC: four replicas, one of them possibly faulty, in a   *)
(* choice of scenarios.  A scenario fixes the parameters of the replicas,  *)
(* the requests the clients ask for, the (topic, recipient) pairs whose    *)
(* messages may be delayed for any time, and whether timers are longer     *)
(* than any delay.  All other messages are prompt: they are handled, in    *)
(* one fixed order, before anything else happens.  Every behaviour of a    *)
(* scenario is a behaviour of PBFTReplica!Spec; the scenarios bound which  *)
(* asynchrony is explored.                                                 *)
(***************************************************************************)
EXTENDS PBFTReplica

CONSTANTS r1, r2,      \* the requests
          Scenarios    \* the scenarios to explore

VARIABLE scenario

mcvars == <<vars, scenario>>

\* All replicas correct but possibly b, with progress timeouts
Config(b, behaviour) ==
  [r \in Replicas |-> [behaviour |-> IF r = b THEN behaviour ELSE "none",
                       timeout |-> TRUE, manual |-> -1]]

\* The test hook: every replica asks for view 1 at a time of its own, and
\* replica 3 is started without a progress timeout
Manual == [r \in Replicas |-> [behaviour |-> "none", timeout |-> r # 3, manual |-> 1]]

MCConfigurations ==
  {Config(b, p) : b \in Replicas, p \in Behaviours} \cup {Manual}

\* `last` bounds the views: no progress timeout fires in that view
Scenario(config, asks, late, timely) ==
  [config |-> config, asks |-> asks, late |-> late, timely |-> timely,
   last |-> IF timely THEN 2 ELSE 1]

Votes == {"PREPARE", "COMMIT"}

\* Every fault of replica 0 (the first primary) and 3, votes to 2 delayed
FaultScenarios ==
  {Scenario(Config(b, p), {r1}, Votes \X {2}, FALSE) : b \in {0, 3}, p \in Behaviours}

\* Two requests in flight
PairScenarios ==
  {Scenario(Config(3, "none"), {r1, r2}, {"REQUEST", "COMMIT"} \X {1}, FALSE),
   Scenario(Config(3, "silent"), {r1, r2}, Votes \X {2}, FALSE)}

\* Everything to one replica delayed, and the manual trigger
SlowScenarios ==
  {Scenario(Config(3, "silent"), {r1},
            {"REQUEST", "PRE-PREPARE", "PREPARE", "COMMIT", "VIEW-CHANGE", "NEW-VIEW"} \X {2},
            FALSE),
   Scenario(Manual, {r1}, Votes \X {2}, FALSE)}

\* Timers longer than any delay, faults of both first primaries and of a backup
TimelyScenarios ==
  {Scenario(Config(b, p), {r1}, Votes \X {1, 2}, TRUE) : b \in {0, 1, 3}, p \in Behaviours}

MCScenarios == FaultScenarios \cup PairScenarios \cup SlowScenarios \cup TimelyScenarios

Prompt(r) == {m \in inbox[r] : <<m.type, r>> \notin scenario.late}
Busy == {r \in Replicas : Prompt(r) # {}}

MCInit == /\ Init
          /\ scenario \in Scenarios
          /\ param = scenario.config

PromptDelivery ==
  /\ Busy # {}
  /\ LET r == CHOOSE x \in Busy : TRUE
     IN  Deliver(r, CHOOSE m \in Prompt(r) : TRUE)

MCNext ==
  /\ \/ PromptDelivery
     \/ /\ Busy = {}
        /\ \/ \E q \in scenario.asks : ClientRequest(q)
           \/ \E r \in Replicas : \E m \in inbox[r] : Deliver(r, m) \/ Redeliver(r, m)
           \/ /\ scenario.timely => Quiet
              /\ \E r \in Replicas :
                   \/ rep[r].current_view < scenario.last /\ ProgressTimeout(r)
                   \/ DelayStep(r)
  /\ UNCHANGED scenario

MCSpec == MCInit /\ [][MCNext]_mcvars

\* When timers are longer than any message delay, the protocol never comes to
\* rest before every correct replica has executed the request, whichever one
\* replica is faulty in whichever of the supported ways: every fault either
\* leaves a quorum or ends in a view change that completes.
TimelyProgress ==
  (scenario.timely /\ Quiescent) =>
     \A r \in Correct : \A q \in asked : Executed(r, q)
=============================================================================
