----------------------------- MODULE Tendermint -----------------------------
(***************************************************************************)
(* The Tendermint nodes of tendermint-tamara (node.py, network.py,         *)
(* config.py).  Every node is a thread that alone changes its own state:   *)
(* it takes messages from its inbox into message_log and fires the "upon"  *)
(* rules and timeouts; each of them is one action here.                    *)
(*                                                                         *)
(* The network delays messages for any time and may drop them, so          *)
(* message_log of a node is some subset of what was sent to it, and a rule *)
(* can fire as soon as the messages it counts have been sent.  Messages    *)
(* are kept in one set `msgs`.  id(v) = id(v') implies v = v', so a vote   *)
(* carries the value itself, Nil for nil.                                  *)
(***************************************************************************)
EXTENDS Integers, Sequences, FiniteSets, FiniteSetsExt

CONSTANTS Configs,    \* the configurations (SimConfig) to run
          MaxRound    \* bound: no round beyond this one is started

Nil == <<"nil">>

\* Configurations that SimConfig.validate accepts
MaxNode(c) == c.n - 1
Nodes(c) == 0 .. MaxNode(c)

\* The sum of the powers of the nodes in s
PowerOf(c, s) == Cardinality(UNION {{i} \X (1 .. c.power[i]) : i \in s})

ValidConfig(c) ==
  /\ c.n \in Nat \ {0} /\ c.f \in Nat /\ c.heights \in Nat \ {0}
  /\ c.power \in [Nodes(c) -> Nat]
  /\ PowerOf(c, Nodes(c)) > 3 * c.f
  /\ c.crashed \subseteq Nodes(c) /\ c.byzantine \subseteq Nodes(c) \ c.crashed
  /\ PowerOf(c, c.byzantine) <= c.f
  /\ c.mode \in {"equivocate", "vote_nil", "random"}

ASSUME TendermintAssumption ==
  /\ MaxRound \in Nat
  /\ \A c \in Configs : ValidConfig(c)

VARIABLES cfg,     \* the configuration of this run
          turns,   \* turns[h + r + 1]: proposer(h, r), computed once
          node,    \* node[n]: the state of node n
          msgs     \* everything sent so far

vars == <<cfg, turns, node, msgs>>

Live == Nodes(cfg) \ cfg.crashed
Correct == Live \ cfg.byzantine

QuorumTooLow == 2 * cfg.f
Quorum == 2 * cfg.f + 1
FPlus1 == cfg.f + 1

Propose == 0
Prevote == 1
Precommit == 2
-----------------------------------------------------------------------------
(* proposer(h, r): weighted round-robin.  Every turn adds its power to the  *)
(* priority of each node; the first of the highest leads and pays the total *)
(* power, so the priority follows from the leaders so far.                  *)
Priority(leaders, i) ==
  (Len(leaders) + 1) * cfg.power[i]
    - PowerOf(cfg, Nodes(cfg)) * Cardinality({k \in DOMAIN leaders : leaders[k] = i})

NextLeader(leaders) ==
  CHOOSE i \in Nodes(cfg) : \A j \in Nodes(cfg) :
     \/ Priority(leaders, i) > Priority(leaders, j)
     \/ Priority(leaders, i) = Priority(leaders, j) /\ i <= j

Schedule ==
  FoldSet(LAMBDA k, leaders : Append(leaders, NextLeader(leaders)), <<>>,
          0 .. cfg.heights + MaxRound)

Proposer(h, r) == turns[h + r + 1]

\* get_value: fresh for every height, round and node
FreshValue(n, h, r) == <<"V", h, r, n>>
Valid(v) == v # Nil
-----------------------------------------------------------------------------
(* Messages *)
Proposal(n, s, v, vr) ==
  [type |-> "PROPOSAL", h |-> s.h, r |-> s.round, from |-> n, value |-> v,
   vr |-> vr, to |-> Nodes(cfg)]
Vote(type, n, s, v) ==
  [type |-> type, h |-> s.h, r |-> s.round, from |-> n, value |-> v,
   vr |-> -1, to |-> Nodes(cfg)]

\* _equivocate_proposal: two values, one for each half of the others
EquivocateProposal(m) ==
  LET others  == Nodes(cfg) \ {m.from}
      half    == Max({1, Cardinality(others) \div 2})
      group_a == {i \in others : Cardinality({j \in others : j < i}) < half}
      group_b == IF others \ group_a = {} THEN group_a ELSE others \ group_a
  IN  {[m EXCEPT !.value = <<"BYZ-A", m.h, m.r>>, !.to = group_a],
       [m EXCEPT !.value = <<"BYZ-B", m.h, m.r>>, !.to = group_b]}

\* broadcast: the sets of messages that may leave node n for m
Broadcast(n, m) ==
  IF n \notin cfg.byzantine THEN {{m}}
  ELSE IF m.type = "PROPOSAL"
       THEN CASE cfg.mode = "equivocate" -> {EquivocateProposal(m)}
              [] cfg.mode = "random"     -> {{m}, EquivocateProposal(m)}
              [] OTHER                   -> {{m}}
       ELSE {{IF cfg.mode = "vote_nil" THEN [m EXCEPT !.value = Nil] ELSE m}}

\* _voters: the senders of votes of a type for (h, r), for one value or for any
VotersFor(type, h, r, v) ==
  {m.from : m \in {x \in msgs : x.type = type /\ x.h = h /\ x.r = r /\ x.value = v}}
Voters(type, h, r) ==
  {m.from : m \in {x \in msgs : x.type = type /\ x.h = h /\ x.r = r}}

HasQuorumFor(type, h, r, v) == PowerOf(cfg, VotersFor(type, h, r, v)) >= Quorum
HasQuorum(type, h, r) == PowerOf(cfg, Voters(type, h, r)) >= Quorum

\* _find_proposal and _find_proposal_for_id: what n may have received
Proposals(n, h, r) ==
  {m \in msgs : m.type = "PROPOSAL" /\ m.h = h /\ m.r = r /\ n \in m.to
                /\ m.from = Proposer(h, r)}
-----------------------------------------------------------------------------
(* A rule or timeout that can fire is a step: the state the node takes, and *)
(* the sets of messages of which one leaves it.  A rule is the set of the   *)
(* steps it allows, empty when its conditions fail.                         *)
Send(n, s, m) == {[state |-> s, out |-> o] : o \in Broadcast(n, m)}
Quietly(s) == {[state |-> s, out |-> {}]}

\* The state in which start_round leaves a node, and its proposal
InRound(n, s, r) ==
  [s EXCEPT !.round = r, !.step = Propose, !.fired_lock = FALSE,
            !.timers = IF Proposer(s.h, r) = n THEN {} ELSE {"propose"}]

OwnProposal(n, s) ==
  Proposal(n, s, IF s.valid_value # Nil THEN s.valid_value ELSE FreshValue(n, s.h, s.round),
           s.valid_round)

StartRound(n, s, r) ==
  LET t == InRound(n, s, r)
  IN  IF Proposer(s.h, r) = n THEN Send(n, t, OwnProposal(n, t)) ELSE Quietly(t)

InitialNode ==
  [h |-> 0, round |-> 0, step |-> Propose, decisions |-> <<>>,
   locked_value |-> Nil, locked_round |-> -1, valid_value |-> Nil, valid_round |-> -1,
   timers |-> {}, fired_lock |-> FALSE]

SendPrevote(n, s, v) == Send(n, [s EXCEPT !.step = Prevote], Vote("PREVOTE", n, s, v))
SendPrecommit(n, s, v) == Send(n, [s EXCEPT !.step = Precommit], Vote("PRECOMMIT", n, s, v))
-----------------------------------------------------------------------------
(* The "upon" rules, by the line of the paper's Algorithm 1. *)

\* A node that does not look at its lock
RuleProposalInitialUnlocked(n, s) ==
  UNION {SendPrevote(n, s, m.value) : m \in {x \in Proposals(n, s.h, s.round) :
                                               s.step = Propose /\ x.vr = -1}}

RuleProposalInitial(n, s) ==                                      \* line 22
  LET vote(v) == IF Valid(v) /\ (s.locked_round = -1 \/ s.locked_value = v) THEN v ELSE Nil
  IN  UNION {SendPrevote(n, s, vote(m.value)) :
               m \in {x \in Proposals(n, s.h, s.round) : s.step = Propose /\ x.vr = -1}}

RuleProposalWithVr(n, s) ==                                       \* line 28
  LET vote(m) == IF Valid(m.value) /\ (s.locked_round <= m.vr \/ s.locked_value = m.value)
                 THEN m.value ELSE Nil
  IN  UNION {SendPrevote(n, s, vote(m)) :
               m \in {x \in Proposals(n, s.h, s.round) :
                         /\ s.step = Propose
                         /\ 0 <= x.vr /\ x.vr < s.round
                         /\ HasQuorumFor("PREVOTE", s.h, x.vr, x.value)}}

\* Waits for a quorum that agrees
RulePrevoteTimerAgreed(n, s) ==
  IF /\ s.step = Prevote /\ "prevote" \notin s.timers
     /\ \E m \in msgs : HasQuorumFor("PREVOTE", s.h, s.round, m.value)
  THEN Quietly([s EXCEPT !.timers = @ \cup {"prevote"}]) ELSE {}

RulePrevoteTimer(n, s) ==                                         \* line 34
  IF /\ s.step = Prevote /\ "prevote" \notin s.timers
     /\ HasQuorum("PREVOTE", s.h, s.round)
  THEN Quietly([s EXCEPT !.timers = @ \cup {"prevote"}]) ELSE {}

\* The proposals that a quorum of PREVOTEs makes valid in the round of s
Polkas(n, s) ==
  {m \in Proposals(n, s.h, s.round) :
     /\ s.step >= Prevote /\ ~ s.fired_lock
     /\ Valid(m.value) /\ HasQuorumFor("PREVOTE", s.h, s.round, m.value)}

ValidNow(s, v) == [s EXCEPT !.fired_lock = TRUE, !.valid_value = v, !.valid_round = s.round]
Locked(s, v) == [ValidNow(s, v) EXCEPT !.locked_value = v, !.locked_round = s.round]

\* Precommits without taking the lock
RuleLockPrecommitUnlocked(n, s) ==
  UNION {IF s.step = Prevote THEN SendPrecommit(n, ValidNow(s, m.value), m.value)
         ELSE Quietly(ValidNow(s, m.value)) : m \in Polkas(n, s)}

RuleLockPrecommit(n, s) ==                                        \* line 36
  UNION {IF s.step = Prevote THEN SendPrecommit(n, Locked(s, m.value), m.value)
         ELSE Quietly(ValidNow(s, m.value)) : m \in Polkas(n, s)}

RulePrevoteNil(n, s) ==                                           \* line 44
  IF s.step = Prevote /\ HasQuorumFor("PREVOTE", s.h, s.round, Nil)
  THEN SendPrecommit(n, s, Nil) ELSE {}

RulePrecommitTimer(n, s) ==                                       \* line 47
  IF "precommit" \notin s.timers /\ HasQuorum("PRECOMMIT", s.h, s.round)
  THEN Quietly([s EXCEPT !.timers = @ \cup {"precommit"}]) ELSE {}

\* _reset_for_new_height
NewHeight(s) == [InitialNode EXCEPT !.h = s.h, !.decisions = s.decisions]

RuleDecide(n, s) ==                                               \* line 49
  LET decided(v) == [s EXCEPT !.h = @ + 1, !.decisions = Append(@, v)]
      next(t)    == IF t.h < cfg.heights THEN StartRound(n, NewHeight(t), 0) ELSE Quietly(t)
  IN  UNION {next(decided(m.value)) :
               m \in {x \in UNION {Proposals(n, s.h, r) : r \in 0 .. MaxRound} :
                         Valid(x.value) /\ HasQuorumFor("PRECOMMIT", s.h, x.r, x.value)}}

RuleRoundSkip(n, s) ==                                            \* line 55
  LET senders(r) == {m.from : m \in {x \in msgs : x.h = s.h /\ x.r = r /\ n \in x.to}}
  IN  UNION {StartRound(n, s, r) :
               r \in {q \in s.round + 1 .. MaxRound : PowerOf(cfg, senders(q)) >= FPlus1}}

(* Timeouts; one that finds the node past its round or step does nothing. *)
OnTimeoutProposeAnyStep(n, s) ==
  IF "propose" \in s.timers /\ s.step # Precommit THEN SendPrevote(n, s, Nil) ELSE {}

OnTimeoutPropose(n, s) ==
  IF "propose" \in s.timers /\ s.step = Propose THEN SendPrevote(n, s, Nil) ELSE {}

OnTimeoutPrevote(n, s) ==
  IF "prevote" \in s.timers /\ s.step = Prevote THEN SendPrecommit(n, s, Nil) ELSE {}

OnTimeoutPrecommit(n, s) ==
  IF "precommit" \in s.timers /\ s.round < MaxRound THEN StartRound(n, s, s.round + 1) ELSE {}
-----------------------------------------------------------------------------
\* Every thread begins with start_round(0); crashed nodes are not started
Init ==
  /\ cfg \in Configs
  /\ turns = Schedule
  /\ node = [n \in Live |-> InRound(n, InitialNode, 0)]
  /\ LET n == Proposer(0, 0)
     IN  IF n \in Live THEN msgs \in Broadcast(n, OwnProposal(n, node[n])) ELSE msgs = {}

Rules(n, s) ==
  RuleProposalInitial(n, s) \cup RuleProposalWithVr(n, s) \cup RulePrevoteTimer(n, s)
  \cup RuleLockPrecommit(n, s) \cup RulePrevoteNil(n, s) \cup RulePrecommitTimer(n, s)
  \cup RuleDecide(n, s) \cup RuleRoundSkip(n, s)

Timeouts(n, s) ==
  OnTimeoutPropose(n, s) \cup OnTimeoutPrevote(n, s) \cup OnTimeoutPrecommit(n, s)

\* A node that has decided all heights only empties its inbox
Running(n) == node[n].h < cfg.heights
CanAct(n) == IF Running(n) THEN Rules(n, node[n]) ELSE {}
CanTimeOut(n) == IF Running(n) THEN Timeouts(n, node[n]) ELSE {}

Take(n, a) ==
  /\ node' = [node EXCEPT ![n] = a.state]
  /\ msgs' = msgs \cup a.out
  /\ UNCHANGED <<cfg, turns>>

try_rules(n) == \E a \in CanAct(n) : Take(n, a)
check_timeouts(n) == \E a \in CanTimeOut(n) : Take(n, a)

Next == \E n \in Live : try_rules(n) \/ check_timeouts(n)

Spec == Init /\ [][Next]_vars
-----------------------------------------------------------------------------
\* Correct nodes that decide a height decide the same value
\* (_rule_decide of node.py).
Agreement ==
  \A a, b \in Correct : \A k \in DOMAIN node[a].decisions \cap DOMAIN node[b].decisions :
     node[a].decisions[k] = node[b].decisions[k]

\* A correct node sends one PREVOTE and one PRECOMMIT in a round, whatever
\* rules, timeouts and round skips race for it (the rules and the
\* _on_timeout methods of node.py).
OneVotePerRound ==
  LET votes == {m \in msgs : m.type # "PROPOSAL" /\ m.from \in Correct}
  IN  Cardinality(votes) = Cardinality({<<m.type, m.from, m.h, m.r>> : m \in votes})

\* Once a value has a quorum of PRECOMMITs, no other value gets a quorum of
\* PREVOTEs in that round or a later one of the height, so nobody can lock
\* or decide another (locks in _rule_proposal_initial and
\* _rule_proposal_with_vr).
DecisionIsStable ==
  LET chosen(type) == {x \in {<<m.h, m.r, m.value>> : m \in {y \in msgs : y.type = type}} :
                         x[3] # Nil /\ HasQuorumFor(type, x[1], x[2], x[3])}
  IN  \A d \in chosen("PRECOMMIT"), p \in chosen("PREVOTE") :
         p[1] = d[1] /\ p[2] >= d[2] => p[3] = d[3]

\* A correct node is locked, and proposes again, only what a quorum of
\* PREVOTEs stands behind, its valid value is never older than its lock, and
\* its PRECOMMIT in the locked round was for the locked value
\* (_rule_lock_precommit of node.py).
LockIsBacked ==
  \A n \in Correct :
     LET s == node[n]
     IN  s.h < cfg.heights =>
           /\ s.locked_round >= 0 => HasQuorumFor("PREVOTE", s.h, s.locked_round, s.locked_value)
           /\ s.valid_round >= 0 => HasQuorumFor("PREVOTE", s.h, s.valid_round, s.valid_value)
           /\ s.valid_round >= s.locked_round
           /\ \A m \in msgs : (m.type = "PRECOMMIT" /\ m.from = n /\ m.h = s.h /\ m.value # Nil)
                 => m.r <= s.locked_round /\ (m.r = s.locked_round => m.value = s.locked_value)
=============================================================================
