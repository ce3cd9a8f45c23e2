---------------------------- MODULE MCTendermint ----------------------------
(***************************************************************************)
(* Tendermint for TLC: the scenarios of config.py, with a choice of nodes  *)
(* to which messages may be slow.  A rule that the messages sent so far    *)
(* enable fires at once, in the order of the ids, unless its node is slow; *)
(* timers of all nodes may expire at any moment, or, in a timely scenario, *)
(* only when all that was sent has been taken account of and those of an   *)
(* earlier height, round or step, armed before, have.  Arming a timer is   *)
(* never put off: it commutes with every other step.  Every behaviour is   *)
(* one of Tendermint!Spec.                                                 *)
(***************************************************************************)
EXTENDS Tendermint

CONSTANT Scenarios
VARIABLE scenario
mcvars == <<vars, scenario>>

SimConfig(power, f, heights, crashed, byzantine, mode) ==
  [n |-> Cardinality(DOMAIN power), f |-> f, power |-> power, heights |-> heights,
   crashed |-> crashed, byzantine |-> byzantine, mode |-> mode]

Equal == [i \in 0 .. 3 |-> 1]
Weighted == [i \in 0 .. 3 |-> IF i = 0 THEN 3 ELSE IF i = 1 THEN 2 ELSE 1]

Happy == SimConfig(Equal, 1, 1, {}, {}, "random")
MultiHeight == SimConfig(Equal, 1, 2, {}, {}, "random")
CrashProposer == SimConfig(Equal, 1, 1, {0}, {}, "random")
Byzantine(mode) == SimConfig(Equal, 1, 1, {}, {0}, mode)
WeightedByz == SimConfig(Weighted, 2, 1, {}, {2}, "equivocate")
WeightedCrash == SimConfig(Weighted, 1, 1, {0}, {}, "random")

MCConfigs == {Happy, MultiHeight, CrashProposer, WeightedByz, WeightedCrash}
             \cup {Byzantine(m) : m \in {"equivocate", "vote_nil", "random"}}

Scenario(c, slow, last, timely) == [cfg |-> c, slow |-> slow, last |-> last, timely |-> timely]

MCScenarios ==
  {Scenario(Byzantine("equivocate"), {1}, 2, FALSE), Scenario(Happy, {1, 2}, 1, FALSE),
   Scenario(Byzantine("vote_nil"), {1}, 1, FALSE), Scenario(WeightedByz, {0, 1}, 1, FALSE),
   Scenario(WeightedCrash, {1}, 2, FALSE), Scenario(MultiHeight, {1}, 0, FALSE)}
  \cup {Scenario(c, {1, 2}, 2, TRUE) : c \in MCConfigs}

ArmTimer(n) ==
  IF Running(n) THEN RulePrevoteTimer(n, node[n]) \cup RulePrecommitTimer(n, node[n]) ELSE {}

Arming == {n \in Live : ArmTimer(n) # {}}
Prompt == {n \in Live \ scenario.slow : CanAct(n) # {}}

\* The nodes of which the timers are due when timers outlast the messages
Stage(n) == 3 * ((MaxRound + 1) * node[n].h + node[n].round) + node[n].step
Due == {n \in Live : CanTimeOut(n) # {}
                     /\ \A k \in Live : CanTimeOut(k) = {} \/ Stage(n) <= Stage(k)}

MCInit == Init /\ scenario \in Scenarios /\ cfg = scenario.cfg

MCNext ==
  /\ IF Arming # {} THEN LET n == Min(Arming) IN \E a \in ArmTimer(n) : Take(n, a)
     ELSE IF Prompt # {} THEN try_rules(Min(Prompt))
     ELSE \/ \E n \in Live : try_rules(n)
          \/ /\ ~ scenario.timely
             /\ \E n \in Live : check_timeouts(n)
          \/ /\ scenario.timely /\ \A n \in Live : CanAct(n) = {}
             /\ \E n \in Due : check_timeouts(n)
  /\ UNCHANGED scenario
  /\ \A n \in Live : node'[n].round <= scenario.last

MCSpec == MCInit /\ [][MCNext]_mcvars
-----------------------------------------------------------------------------
\* When timers outlast the messages and nothing more can happen, every
\* correct node has decided every height: no rule is missing, no timer is
\* left unarmed and no lock blocks the height, with a silent or lying
\* proposer too (try_rules and _check_timeouts of node.py, run).
TimelyDecision ==
  (scenario.timely /\ \A n \in Live : CanAct(n) = {} /\ CanTimeOut(n) = {})
     => \A n \in Correct : node[n].h = cfg.heights
=============================================================================
