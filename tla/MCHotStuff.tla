----------------------------- MODULE MCHotStuff -----------------------------
(***************************************************************************)
(* HotStuff for TLC: four replicas in a choice of scenarios.  A scenario   *)
(* fixes the cluster, the commands, the (kind, receiver) pairs of which    *)
(* messages may be slow, the replicas that may crash, the last view,       *)
(* whether timers outlast the messages (timely), and the kinds of messages *)
(* that still arrive after their receiver has left the view of the message *)
(* (late; others are lost then).  Messages that are not slow are handled,  *)
(* in one fixed order, before anything else happens.                       *)
(* Every behaviour is one of HotStuff!Spec.                                *)
(***************************************************************************)
EXTENDS HotStuff

CONSTANTS c1, c2, Scenarios
VARIABLE scenario
mcvars == <<vars, scenario>>

MCCommands == {c1, c2}

Cluster(fixed, byzantine, attack, censored) ==
  [fixed |-> fixed, timeouts |-> fixed = -1, byzantine |-> byzantine, attack |-> attack,
   censored |-> censored]

Fixed == Cluster(0, {}, "censor", {})
Rotating == Cluster(-1, {}, "censor", {})
Equivocating(r) == Cluster(-1, {r}, "equivocate", {})
Censoring == Cluster(-1, {1}, "censor", {c1})

MCConfigs == {Fixed, Rotating, Censoring} \cup {Equivocating(r) : r \in {1, 2}}

Scenario(c, asks, slow, crash, last, timely, late) ==
  [cfg |-> c, asks |-> asks, slow |-> slow, crash |-> crash, last |-> last,
   timely |-> timely, late |-> late]

\* Phases cut short by timeouts at any moment
SlowScenarios ==
  {Scenario(Fixed, {c1, c2}, {"PRE_COMMIT", "COMMIT", "DECIDE"} \X {0, 2}, {}, 3, FALSE, {}),
   Scenario(Rotating, {c1}, {"PRE_COMMIT", "COMMIT"} \X {2, 3}, {}, 2, FALSE, {}),
   Scenario(Rotating, {c1}, {"COMMIT"} \X {0, 2, 3}, {}, 3, FALSE, {}),
   Scenario(Rotating, {c1}, {"PREPARE", "DECIDE"} \X {0}, {}, 3, FALSE, {}),
   Scenario(Equivocating(1), {c1}, {"PREPARE", "COMMIT"} \X {2}, {}, 3, FALSE, {}),
   Scenario(Equivocating(2), {c1}, {"PRE_COMMIT", "COMMIT"} \X {0, 3}, {}, 3, FALSE, {})}

\* A replica that crashes and comes back without its lock and its log
CrashScenarios ==
  {Scenario(Rotating, {c1, c2}, {"DECIDE"} \X {0, 2}, {0}, 3, FALSE, {}),
   Scenario(Rotating, {c1}, {"COMMIT"} \X {0, 2, 3}, {3}, 2, FALSE, {})}

TimelyScenarios ==
  {Scenario(Rotating, {c1, c2}, {"DECIDE"} \X {0, 2}, {2}, 5, TRUE, {}),
   Scenario(Rotating, {c1, c2}, {"PREPARE"} \X {3}, {1}, 5, TRUE, {}),
   Scenario(Censoring, {c1, c2}, {"PREPARE"} \X {3}, {}, 5, TRUE, {}),
   Scenario(Equivocating(1), {c1, c2}, {"NEW_VIEW"} \X {2, 3}, {}, 5, TRUE, {})}

\* Messages that arrive after the view has changed
Kinds == Phases \cup {"VOTE", "NEW_VIEW"}
LateVotes(late) ==
  Scenario(Rotating, {c1}, {"PRE_COMMIT"} \X {0, 2, 3} \cup {<<"DECIDE", 3>>}, {}, 2, FALSE, late)

\* ... all but COMMIT messages
TardyScenarios ==
  {LateVotes(Kinds \ {"COMMIT"}),
   Scenario(Rotating, {c1}, {"PREPARE", "PRE_COMMIT"} \X {2, 3}, {}, 2, FALSE, Kinds \ {"COMMIT"})}

MCScenarios == SlowScenarios \cup CrashScenarios \cup TimelyScenarios \cup TardyScenarios

LateScenarios == {LateVotes(Kinds)}

Kind(m) == IF m.vote THEN "VOTE" ELSE m.type
Stale(p) == p.msg.view + (IF p.msg.type = "NEW_VIEW" THEN 1 ELSE 0) < rep[p.dst].view
            /\ p.msg.type \notin {"SYNC_REQ", "SYNC_RESP"}
Gone == {p \in net : \/ p.dst \in down
                     \/ Kind(p.msg) \notin scenario.late /\ Stale(p)
                     \/ p.msg.type = "NEW_VIEW" /\ p.msg.view >= scenario.last}
Prompt == {p \in net : <<Kind(p.msg), p.dst>> \notin scenario.slow}

Behind(r) == \A k \in Replicas \ down : rep[r].view <= rep[k].view

MCInit == Init /\ scenario \in Scenarios /\ cfg = scenario.cfg

MCNext ==
  /\ IF Gone # {} THEN Lose(CHOOSE p \in Gone : TRUE)
     ELSE IF Prompt # {} THEN Deliver(CHOOSE p \in Prompt : TRUE)
     ELSE \/ \E p \in net : Deliver(p)
          \/ \E c \in scenario.asks :
                (scenario.timely => \A r \in Replicas : rep[r].view <= 2) /\ Submit(c)
          \/ \E r \in scenario.crash : Crash(r) \/ Restart(r)
          \/ \E r \in Replicas :
                /\ rep[r].view < scenario.last
                /\ scenario.timely => net = {} /\ asked = scenario.asks /\ Behind(r)
                /\ OnTimeout(r)
  /\ UNCHANGED scenario

MCSpec == MCInit /\ [][MCNext]_mcvars

\* When timers outlast the messages and the views have gone round once, every
\* command is in the log of every replica that did not crash, and one that
\* came back has executed every decision it heard of: a silent, equivocating
\* or censoring leader costs its own views only, no pending command is lost
\* with the leader that took it, and the catch-up ends (_on_timeout,
\* _next_command, _request_sync).
TimelyCommit ==
  (/\ scenario.timely /\ net = {} /\ asked = scenario.asks
   /\ \A r \in Replicas \ down : rep[r].view >= scenario.last)
     => \A r \in Correct \ down : /\ r \notin failed => asked \subseteq CommittedCmds(rep[r])
                                 /\ rep[r].deferred = <<>>
=============================================================================
