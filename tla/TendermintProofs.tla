-------------------------- MODULE TendermintProofs --------------------------
(***************************************************************************)
(* Theorems about Tendermint for every set of configurations that          *)
(* SimConfig.validate accepts, and every bound on the rounds.              *)
(*                                                                         *)
(* A quorum is a power of 2f + 1, and validate asks for a total power      *)
(* above 3f only.  Two quorums meet in a correct node when the nodes that  *)
(* were started have a power of 3f + 1 at most (Tight); what rests on that *)
(* is stated with this condition, the rest without.                        *)
(***************************************************************************)
EXTENDS Tendermint, FiniteSetTheorems, NaturalsInduction, TLAPS

\* The power of the nodes started leaves no room for two quorums that meet
\* in faulty nodes only.
Tight == PowerOf(cfg, Live) <= 3 * cfg.f + 1
-----------------------------------------------------------------------------
(* Powers *)

Votes(c, s) == UNION {{i} \X (1 .. c.power[i]) : i \in s}

LEMMA VotesFinite ==
  ASSUME NEW c, ValidConfig(c), NEW s \in SUBSET Nodes(c)
  PROVE  IsFiniteSet(Votes(c, s)) /\ PowerOf(c, s) = Cardinality(Votes(c, s))
<1> DEFINE Share(i) == {i} \X (1 .. c.power[i])
           Shares == {Share(i) : i \in s}
<1>1. IsFiniteSet(s)
  <2>1. IsFiniteSet(Nodes(c))
    <3>1. 0 \in Int /\ c.n - 1 \in Int
      BY DEF ValidConfig
    <3> QED BY <3>1, FS_Interval DEF Nodes, MaxNode
  <2> QED BY <2>1, FS_Subset
<1>2. IsFiniteSet(Shares)
  <2> DEFINE g == [i \in s |-> Share(i)]
  <2>1. g \in Surjection(s, Shares)
    BY DEF Surjection
  <2> QED BY <1>1, <2>1, FS_Surjection
<1>3. ASSUME NEW i \in s PROVE IsFiniteSet(Share(i))
  <2>1. c.power[i] \in Nat
    BY DEF ValidConfig
  <2>2. IsFiniteSet(1 .. c.power[i])
    BY <2>1, FS_Interval
  <2> QED BY <2>2, FS_Singleton, FS_Product
<1>4. IsFiniteSet(UNION Shares)
  BY <1>2, <1>3, FS_UNION
<1> QED BY <1>4 DEF Votes, PowerOf

LEMMA PowerMonotone ==
  ASSUME NEW c, ValidConfig(c), NEW t \in SUBSET Nodes(c), NEW s \in SUBSET t
  PROVE  /\ PowerOf(c, s) \in Nat /\ PowerOf(c, t) \in Nat
         /\ PowerOf(c, s) <= PowerOf(c, t)
<1>1. Votes(c, s) \subseteq Votes(c, t)
  BY DEF Votes
<1>2. s \subseteq Nodes(c)
  OBVIOUS
<1> QED BY <1>1, <1>2, VotesFinite, FS_Subset, FS_CardinalityType

LEMMA PowerAdds ==
  ASSUME NEW c, ValidConfig(c), NEW s \in SUBSET Nodes(c), NEW t \in SUBSET Nodes(c)
  PROVE  PowerOf(c, s \cup t) = PowerOf(c, s) + PowerOf(c, t) - PowerOf(c, s \cap t)
<1>1. Votes(c, s \cup t) = Votes(c, s) \cup Votes(c, t)
  BY DEF Votes
<1>2. Votes(c, s \cap t) = Votes(c, s) \cap Votes(c, t)
  BY DEF Votes
<1>3. s \cup t \subseteq Nodes(c) /\ s \cap t \subseteq Nodes(c)
  OBVIOUS
<1>4. /\ IsFiniteSet(Votes(c, s)) /\ PowerOf(c, s) = Cardinality(Votes(c, s))
      /\ IsFiniteSet(Votes(c, t)) /\ PowerOf(c, t) = Cardinality(Votes(c, t))
      /\ PowerOf(c, s \cup t) = Cardinality(Votes(c, s) \cup Votes(c, t))
      /\ PowerOf(c, s \cap t) = Cardinality(Votes(c, s) \cap Votes(c, t))
  BY <1>1, <1>2, <1>3, VotesFinite
<1> QED BY <1>4, FS_Union

LEMMA PowersAreNaturals ==
  ASSUME NEW c, ValidConfig(c), NEW s \in SUBSET Nodes(c)
  PROVE  PowerOf(c, s) \in Nat
BY PowerMonotone

\* More than f of the power is not all Byzantine.
LEMMA SomeCorrect ==
  ASSUME cfg \in Configs, NEW s \in SUBSET Live, PowerOf(cfg, s) > cfg.f
  PROVE  \E n \in s : n \in Correct
<1>0. ValidConfig(cfg)
  BY TendermintAssumption
<1>1. SUFFICES ASSUME s \subseteq cfg.byzantine PROVE FALSE
  BY DEF Correct
<1>2. cfg.byzantine \subseteq Nodes(cfg) /\ PowerOf(cfg, cfg.byzantine) <= cfg.f /\ cfg.f \in Nat
  BY <1>0 DEF ValidConfig
<1>3. PowerOf(cfg, s) <= PowerOf(cfg, cfg.byzantine) /\ PowerOf(cfg, s) \in Nat
      /\ PowerOf(cfg, cfg.byzantine) \in Nat
  BY <1>0, <1>1, <1>2, PowerMonotone
<1> QED BY <1>2, <1>3

\* Two quorums of started nodes share a correct one.
LEMMA QuorumsMeet ==
  ASSUME cfg \in Configs, Tight, NEW s \in SUBSET Live, NEW t \in SUBSET Live,
         PowerOf(cfg, s) >= Quorum, PowerOf(cfg, t) >= Quorum
  PROVE  \E n \in s \cap t : n \in Correct
<1>0. ValidConfig(cfg) /\ cfg.f \in Nat
  BY TendermintAssumption DEF ValidConfig
<1>1. Live \subseteq Nodes(cfg)
  BY DEF Live
<1>2. PowerOf(cfg, s \cup t) = PowerOf(cfg, s) + PowerOf(cfg, t) - PowerOf(cfg, s \cap t)
  BY <1>0, <1>1, PowerAdds
<1>3. PowerOf(cfg, s \cup t) <= PowerOf(cfg, Live)
  BY <1>0, <1>1, PowerMonotone
<1>4. /\ PowerOf(cfg, s) \in Nat /\ PowerOf(cfg, t) \in Nat /\ PowerOf(cfg, Live) \in Nat
      /\ PowerOf(cfg, s \cup t) \in Nat /\ PowerOf(cfg, s \cap t) \in Nat
  <2>1. s \cup t \subseteq Nodes(cfg) /\ s \cap t \subseteq Nodes(cfg)
    BY <1>1
  <2> QED BY <1>0, <1>1, <2>1, PowersAreNaturals
<1>5. PowerOf(cfg, s \cap t) > cfg.f
  BY <1>0, <1>2, <1>3, <1>4 DEF Tight, Quorum
<1>6. s \cap t \subseteq Live
  OBVIOUS
<1> QED BY <1>5, <1>6, SomeCorrect
-----------------------------------------------------------------------------
(* Types *)

Values == {Nil} \cup ({"V"} \X Nat \X Nat \X Nat) \cup ({"BYZ-A", "BYZ-B"} \X Nat \X Nat)
Rounds == Nat \cup {-1}
Timers == {"propose", "prevote", "precommit"}

States ==
  [h : Nat, round : Nat, step : {Propose, Prevote, Precommit}, decisions : Seq(Values),
   locked_value : Values, locked_round : Rounds, valid_value : Values, valid_round : Rounds,
   timers : SUBSET Timers, fired_lock : BOOLEAN]

Messages ==
  [type : {"PROPOSAL", "PREVOTE", "PRECOMMIT"}, h : Nat, r : Nat, from : Nat,
   value : Values, vr : Rounds, to : SUBSET Nat]

\* Nodes have a state of the right type, and messages come from started nodes.
TypeInv ==
  /\ cfg \in Configs
  /\ node \in [Live -> States]
  /\ msgs \subseteq Messages /\ IsFiniteSet(msgs)
  /\ \A m \in msgs : m.from \in Live

LEMMA ConfigFacts ==
  ASSUME cfg \in Configs
  PROVE  /\ ValidConfig(cfg) /\ cfg.f \in Nat /\ cfg.heights \in Nat \ {0}
         /\ Nodes(cfg) \subseteq Nat /\ Live \subseteq Nodes(cfg) /\ Correct \subseteq Live
<1>1. ValidConfig(cfg)
  BY TendermintAssumption
<1>2. Nodes(cfg) \subseteq Nat
  BY <1>1 DEF ValidConfig, Nodes, MaxNode
<1> QED BY <1>1, <1>2 DEF ValidConfig, Live, Correct

\* What leaves node n when it broadcasts m: the message itself if n is not
\* Byzantine, messages of its own type and place otherwise.
LEMMA BroadcastFacts ==
  ASSUME cfg \in Configs, NEW n \in Live, NEW m \in Messages, m.from = n,
         NEW o \in Broadcast(n, m)
  PROVE  /\ o \subseteq Messages /\ IsFiniteSet(o) /\ \A x \in o : x.from = n
         /\ n \in Correct => o = {m}
<1>1. Nodes(cfg) \subseteq Nat
  BY ConfigFacts
<1>2. ASSUME NEW x \in Messages, x.from = n
      PROVE  {x} \subseteq Messages /\ IsFiniteSet({x}) /\ \A y \in {x} : y.from = n
  BY <1>2, FS_Singleton
<1>3. CASE n \notin cfg.byzantine
  BY <1>2, <1>3 DEF Broadcast
<1>4. CASE n \in cfg.byzantine
  <2>1. n \notin Correct
    BY <1>4 DEF Correct
  <2>2. EquivocateProposal(m) \subseteq Messages /\ IsFiniteSet(EquivocateProposal(m))
        /\ \A x \in EquivocateProposal(m) : x.from = n
    <3> DEFINE others  == Nodes(cfg) \ {m.from}
               half    == Max({1, Cardinality(others) \div 2})
               group_a == {i \in others : Cardinality({j \in others : j < i}) < half}
               group_b == IF others \ group_a = {} THEN group_a ELSE others \ group_a
               a == [m EXCEPT !.value = <<"BYZ-A", m.h, m.r>>, !.to = group_a]
               b == [m EXCEPT !.value = <<"BYZ-B", m.h, m.r>>, !.to = group_b]
    <3>1. group_a \subseteq Nat /\ group_b \subseteq Nat
      BY <1>1
    <3>2. <<"BYZ-A", m.h, m.r>> \in Values /\ <<"BYZ-B", m.h, m.r>> \in Values
      BY DEF Messages, Values
    <3>3. EquivocateProposal(m) = {a, b}
      BY DEF EquivocateProposal
    <3> HIDE DEF group_a, group_b
    <3>4. a \in Messages /\ b \in Messages /\ a.from = n /\ b.from = n
      BY <3>1, <3>2 DEF Messages
    <3>5. IsFiniteSet({a, b})
      <4> HIDE DEF a, b
      <4>1. {a, b} = {a} \cup {b} /\ IsFiniteSet({a})
        BY FS_Singleton
      <4> QED BY <4>1, FS_AddElement
    <3> QED BY <3>3, <3>4, <3>5
  <2>3. CASE m.type = "PROPOSAL"
    <3>1. o = {m} \/ o = EquivocateProposal(m)
      BY <1>4, <2>3 DEF Broadcast
    <3> QED BY <3>1, <1>2, <2>1, <2>2
  <2>4. CASE m.type # "PROPOSAL"
    <3>1. PICK x : o = {x} /\ (x = m \/ x = [m EXCEPT !.value = Nil])
      BY <1>4, <2>4 DEF Broadcast
    <3>2. x \in Messages /\ x.from = n
      BY <3>1 DEF Messages, Values
    <3> QED BY <3>1, <3>2, <1>2, <2>1
  <2> QED BY <2>3, <2>4
<1> QED BY <1>3, <1>4
-----------------------------------------------------------------------------
(* The steps of a node, by what they do to its votes and its lock *)

\* Why a node may send a PREVOTE for v: no lock forbids it, or a quorum of
\* PREVOTEs that is not older than the lock stands behind v.
Justified(s, v) ==
  \/ v = Nil \/ s.locked_round = -1 \/ s.locked_value = v
  \/ \E vr \in Nat : /\ s.locked_round <= vr /\ vr < s.round
                     /\ HasQuorumFor("PREVOTE", s.h, vr, v)

Prevotes(n, s, a) ==
  \E v \in Values : s.step = Propose /\ Justified(s, v) /\ a \in SendPrevote(n, s, v)

Locks(n, s, a) ==
  \E v \in Values \ {Nil} : /\ s.step = Prevote /\ HasQuorumFor("PREVOTE", s.h, s.round, v)
                            /\ a \in SendPrecommit(n, Locked(s, v), v)

Abstains(n, s, a) == s.step = Prevote /\ a \in SendPrecommit(n, s, Nil)

Notes(n, s, a) ==
  \E v \in Values : HasQuorumFor("PREVOTE", s.h, s.round, v) /\ a \in Quietly(ValidNow(s, v))

Arms(n, s, a) == \E t \in SUBSET Timers : a \in Quietly([s EXCEPT !.timers = t])

Moves(n, s, a) == \E r \in Nat : r > s.round /\ a \in StartRound(n, s, r)

Deciding(s, v) == [s EXCEPT !.h = @ + 1, !.decisions = Append(@, v)]
NextHeight(n, t) == IF t.h < cfg.heights THEN StartRound(n, NewHeight(t), 0) ELSE Quietly(t)

Decides(n, s, a) ==
  \E v \in Values \ {Nil}, r \in Nat :
     HasQuorumFor("PRECOMMIT", s.h, r, v) /\ a \in NextHeight(n, Deciding(s, v))

AStep(n, s, a) ==
  \/ Prevotes(n, s, a) \/ Locks(n, s, a) \/ Abstains(n, s, a) \/ Notes(n, s, a)
  \/ Arms(n, s, a) \/ Moves(n, s, a) \/ Decides(n, s, a)

LEMMA Steps ==
  ASSUME TypeInv, NEW n \in Live, NEW a \in CanAct(n) \cup CanTimeOut(n)
  PROVE  node[n].h < cfg.heights /\ AStep(n, node[n], a)
<1> DEFINE s == node[n]
<1>1. s \in States
  BY DEF TypeInv
<1>2. \A h, r : \A m \in Proposals(n, h, r) : m \in Messages /\ m.h = h /\ m.r = r
  BY DEF TypeInv, Proposals
<1>3. Nil \in Values
  BY DEF Values
<1>4. s.h < cfg.heights /\ (a \in Rules(n, s) \/ a \in Timeouts(n, s))
  BY DEF CanAct, CanTimeOut, Running
<1> SUFFICES AStep(n, s, a)
  BY <1>4
<1> HIDE DEF s
<1> USE DEF AStep
<1>5. CASE a \in RuleProposalInitial(n, s)
  <2>1. PICK m \in Proposals(n, s.h, s.round), v \in Values :
           /\ s.step = Propose /\ a \in SendPrevote(n, s, v)
           /\ v = Nil \/ (v = m.value /\ (s.locked_round = -1 \/ s.locked_value = v))
    BY <1>2, <1>3, <1>5 DEF RuleProposalInitial, Messages
  <2> QED BY <2>1 DEF Prevotes, Justified
<1>6. CASE a \in RuleProposalWithVr(n, s)
  <2>1. PICK m \in Proposals(n, s.h, s.round), v \in Values :
           /\ s.step = Propose /\ a \in SendPrevote(n, s, v)
           /\ 0 <= m.vr /\ m.vr < s.round /\ HasQuorumFor("PREVOTE", s.h, m.vr, m.value)
           /\ v = Nil \/ (v = m.value /\ (s.locked_round <= m.vr \/ s.locked_value = v))
    BY <1>2, <1>3, <1>6 DEF RuleProposalWithVr, Messages
  <2>2. m.vr \in Nat
    BY <2>1, <1>2 DEF Messages, Rounds
  <2> QED BY <2>1, <2>2 DEF Prevotes, Justified
<1>7. CASE a \in RulePrevoteTimer(n, s) \cup RulePrecommitTimer(n, s)
  <2>1. a \in Quietly([s EXCEPT !.timers = @ \cup {"prevote"}])
        \/ a \in Quietly([s EXCEPT !.timers = @ \cup {"precommit"}])
    BY <1>7 DEF RulePrevoteTimer, RulePrecommitTimer
  <2>2. s.timers \cup {"prevote"} \in SUBSET Timers /\ s.timers \cup {"precommit"} \in SUBSET Timers
    BY <1>1 DEF States, Timers
  <2> QED BY <2>1, <2>2 DEF Arms
<1>8. CASE a \in RuleLockPrecommit(n, s)
  <2>1. PICK m \in Polkas(n, s) :
           \/ s.step = Prevote /\ a \in SendPrecommit(n, Locked(s, m.value), m.value)
           \/ a \in Quietly(ValidNow(s, m.value))
    BY <1>8 DEF RuleLockPrecommit
  <2>2. m.value \in Values \ {Nil} /\ HasQuorumFor("PREVOTE", s.h, s.round, m.value)
    BY <1>2 DEF Polkas, Valid, Messages
  <2> QED BY <2>1, <2>2 DEF Locks, Notes
<1>9. CASE a \in RulePrevoteNil(n, s)
  BY <1>9 DEF RulePrevoteNil, Abstains
<1>10. CASE a \in RuleDecide(n, s)
  <2>1. PICK r \in 0 .. MaxRound : \E m \in Proposals(n, s.h, r) :
           /\ Valid(m.value) /\ HasQuorumFor("PRECOMMIT", s.h, m.r, m.value)
           /\ a \in NextHeight(n, Deciding(s, m.value))
    BY <1>10 DEF RuleDecide, NextHeight, Deciding
  <2>2. PICK m \in Proposals(n, s.h, r) :
           /\ Valid(m.value) /\ HasQuorumFor("PRECOMMIT", s.h, m.r, m.value)
           /\ a \in NextHeight(n, Deciding(s, m.value))
    BY <2>1
  <2>3. m.value \in Values \ {Nil} /\ m.r \in Nat
    BY <2>2, <1>2 DEF Valid, Messages
  <2> QED BY <2>2, <2>3 DEF Decides
<1>11. CASE a \in RuleRoundSkip(n, s)
  <2>1. PICK r \in s.round + 1 .. MaxRound : a \in StartRound(n, s, r)
    BY <1>11 DEF RuleRoundSkip
  <2>2. r \in Nat /\ r > s.round
    BY <1>1 DEF States
  <2> QED BY <2>1, <2>2 DEF Moves
<1>12. CASE a \in OnTimeoutPropose(n, s)
  BY <1>12, <1>3 DEF OnTimeoutPropose, Prevotes, Justified
<1>13. CASE a \in OnTimeoutPrevote(n, s)
  BY <1>13 DEF OnTimeoutPrevote, Abstains
<1>14. CASE a \in OnTimeoutPrecommit(n, s)
  <2>1. a \in StartRound(n, s, s.round + 1)
    BY <1>14 DEF OnTimeoutPrecommit
  <2>2. s.round + 1 \in Nat /\ s.round + 1 > s.round
    BY <1>1 DEF States
  <2> QED BY <2>1, <2>2 DEF Moves
<1> QED
  BY <1>4, <1>5, <1>6, <1>7, <1>8, <1>9, <1>10, <1>11, <1>12, <1>13, <1>14
  DEF Rules, Timeouts
-----------------------------------------------------------------------------
(* What a step leaves of the types *)

LEMMA VoteFacts ==
  ASSUME cfg \in Configs, NEW n \in Live, NEW s \in States, NEW v \in Values,
         NEW type \in {"PREVOTE", "PRECOMMIT"}
  PROVE  LET m == Vote(type, n, s, v)
         IN  /\ m \in Messages /\ m.type = type /\ m.from = n /\ m.h = s.h /\ m.r = s.round
             /\ m.value = v /\ m.vr = -1 /\ m.to = Nodes(cfg)
BY ConfigFacts DEF Vote, Messages, States, Rounds

LEMMA SendFacts ==
  ASSUME cfg \in Configs, NEW n \in Live, NEW s, NEW m \in Messages, m.from = n,
         NEW a \in Send(n, s, m)
  PROVE  /\ a.state = s
         /\ a.out \subseteq Messages /\ IsFiniteSet(a.out) /\ \A x \in a.out : x.from = n
         /\ n \in Correct => a.out = {m}
BY BroadcastFacts DEF Send

LEMMA QuietFacts ==
  ASSUME NEW s, NEW a \in Quietly(s)
  PROVE  a.state = s /\ a.out = {} /\ IsFiniteSet(a.out)
BY FS_EmptySet DEF Quietly

\* start_round leaves the lock, the valid value and the decisions alone.
LEMMA InRoundFacts ==
  ASSUME NEW n \in Live, NEW s \in States, NEW r \in Nat
  PROVE  LET t == InRound(n, s, r)
         IN  /\ t \in States /\ t.h = s.h /\ t.round = r /\ t.step = Propose
             /\ t.decisions = s.decisions
             /\ t.locked_value = s.locked_value /\ t.locked_round = s.locked_round
             /\ t.valid_value = s.valid_value /\ t.valid_round = s.valid_round
BY DEF InRound, States, Timers

LEMMA StartRoundFacts ==
  ASSUME cfg \in Configs, NEW n \in Live, NEW s \in States, NEW r \in Nat,
         NEW a \in StartRound(n, s, r)
  PROVE  /\ a.state = InRound(n, s, r) /\ a.state \in States
         /\ a.out \subseteq Messages /\ IsFiniteSet(a.out) /\ \A x \in a.out : x.from = n
         /\ n \in Correct => \A x \in a.out : x.type = "PROPOSAL"
<1> DEFINE t == InRound(n, s, r)
           m == OwnProposal(n, t)
<1>1. t \in States
  BY InRoundFacts
<1>2. m \in Messages /\ m.from = n /\ m.type = "PROPOSAL"
  <2> HIDE DEF t
  <2>1. n \in Nat /\ Nodes(cfg) \subseteq Nat
    BY ConfigFacts
  <2>2. t.valid_value \in Values /\ t.valid_round \in Rounds /\ t.h \in Nat /\ t.round \in Nat
    BY <1>1 DEF States
  <2>3. FreshValue(n, t.h, t.round) \in Values
    BY <2>1, <2>2 DEF FreshValue, Values
  <2> QED BY <2>1, <2>2, <2>3 DEF OwnProposal, Proposal, Messages
<1> HIDE DEF m
<1>3. a \in Send(n, t, m) \/ a \in Quietly(t)
  BY DEF StartRound, m
<1> HIDE DEF t
<1> QED BY <1>1, <1>2, <1>3, SendFacts, QuietFacts DEF t

LEMMA DecidingFacts ==
  ASSUME NEW s \in States, NEW v \in Values
  PROVE  LET t == Deciding(s, v)
             u == NewHeight(t)
         IN  /\ t \in States /\ t.h = s.h + 1 /\ t.decisions = Append(s.decisions, v)
             /\ u \in States /\ u.h = s.h + 1 /\ u.decisions = Append(s.decisions, v)
             /\ u.locked_round = -1 /\ u.valid_round = -1
<1>1. Deciding(s, v) \in States /\ Deciding(s, v).h = s.h + 1
      /\ Deciding(s, v).decisions = Append(s.decisions, v)
  <2>1. s.h + 1 \in Nat /\ Append(s.decisions, v) \in Seq(Values)
    BY DEF States
  <2> QED BY <2>1 DEF Deciding, States
<1> DEFINE t == Deciding(s, v)
<1>2. InitialNode \in States /\ InitialNode.locked_round = -1 /\ InitialNode.valid_round = -1
  <2>1. <<>> \in Seq(Values) /\ Nil \in Values
    BY DEF Values
  <2> QED BY <2>1 DEF InitialNode, States, Rounds, Propose
<1> HIDE DEF t
<1>3. t \in States => NewHeight(t) \in States /\ NewHeight(t).h = t.h
      /\ NewHeight(t).decisions = t.decisions
      /\ NewHeight(t).locked_round = -1 /\ NewHeight(t).valid_round = -1
  BY <1>2 DEF NewHeight, States
<1> QED BY <1>1, <1>3 DEF t

\* Whatever a node does, its state keeps its type, and it sends finitely
\* many messages under its own name.
LEMMA StepTypes ==
  ASSUME cfg \in Configs, NEW n \in Live, NEW s \in States, NEW a, AStep(n, s, a)
  PROVE  /\ a.state \in States
         /\ a.out \subseteq Messages /\ IsFiniteSet(a.out) /\ \A x \in a.out : x.from = n
<1>0. Nil \in Values
  BY DEF Values
<1>1. CASE Prevotes(n, s, a)
  <2>1. PICK v \in Values : a \in Send(n, [s EXCEPT !.step = Prevote], Vote("PREVOTE", n, s, v))
    BY <1>1 DEF Prevotes, SendPrevote
  <2>2. [s EXCEPT !.step = Prevote] \in States
    BY DEF States
  <2> QED BY <2>1, <2>2, VoteFacts, SendFacts
<1>2. CASE Locks(n, s, a)
  <2>1. PICK v \in Values : a \in SendPrecommit(n, Locked(s, v), v)
    BY <1>2 DEF Locks
  <2>2. Locked(s, v) \in States
    BY DEF States, Locked, ValidNow, Rounds
  <2>3. [Locked(s, v) EXCEPT !.step = Precommit] \in States
    BY <2>2 DEF States
  <2> QED BY <2>1, <2>2, <2>3, VoteFacts, SendFacts DEF SendPrecommit
<1>3. CASE Abstains(n, s, a)
  <2>1. [s EXCEPT !.step = Precommit] \in States
    BY DEF States
  <2> QED BY <1>0, <1>3, <2>1, VoteFacts, SendFacts DEF Abstains, SendPrecommit
<1>4. CASE Notes(n, s, a)
  <2>1. PICK v \in Values : a \in Quietly(ValidNow(s, v))
    BY <1>4 DEF Notes
  <2>2. ValidNow(s, v) \in States
    BY DEF States, ValidNow, Rounds
  <2> QED BY <2>1, <2>2, QuietFacts
<1>5. CASE Arms(n, s, a)
  <2>1. PICK t \in SUBSET Timers : a \in Quietly([s EXCEPT !.timers = t])
    BY <1>5 DEF Arms
  <2>2. [s EXCEPT !.timers = t] \in States
    BY DEF States
  <2> QED BY <2>1, <2>2, QuietFacts
<1>6. CASE Moves(n, s, a)
  BY <1>6, StartRoundFacts DEF Moves
<1>7. CASE Decides(n, s, a)
  <2>1. PICK v \in Values : a \in NextHeight(n, Deciding(s, v))
    BY <1>7 DEF Decides
  <2>2. a \in StartRound(n, NewHeight(Deciding(s, v)), 0) \/ a \in Quietly(Deciding(s, v))
    BY <2>1 DEF NextHeight
  <2> QED BY <2>2, DecidingFacts, StartRoundFacts, QuietFacts
<1> QED BY <1>1, <1>2, <1>3, <1>4, <1>5, <1>6, <1>7 DEF AStep

LEMMA TypeInit == Init => TypeInv
<1> SUFFICES ASSUME Init PROVE TypeInv
  OBVIOUS
<1>1. cfg \in Configs
  BY DEF Init
<1>2. InitialNode \in States
  <2>1. <<>> \in Seq(Values) /\ Nil \in Values
    BY DEF Values
  <2> QED BY <2>1 DEF InitialNode, States, Rounds, Propose
<1>3. \A n \in Live : InRound(n, InitialNode, 0) \in States
  BY <1>2, InRoundFacts
<1>4. node \in [Live -> States] /\ \A n \in Live : node[n] = InRound(n, InitialNode, 0)
  BY <1>3 DEF Init
<1> DEFINE n == Proposer(0, 0)
<1>5. CASE n \notin Live
  BY <1>1, <1>4, <1>5, FS_EmptySet DEF Init, TypeInv
<1>6. CASE n \in Live
  <2> DEFINE a == [state |-> node[n], out |-> msgs]
  <2>1. msgs \in Broadcast(n, OwnProposal(n, node[n]))
    BY <1>6 DEF Init
  <2>2. a \in StartRound(n, InitialNode, 0)
    <3>1. InitialNode.h = 0
      BY DEF InitialNode
    <3> QED BY <1>4, <1>6, <2>1, <3>1 DEF StartRound, Send
  <2>3. msgs \subseteq Messages /\ IsFiniteSet(msgs) /\ \A x \in msgs : x.from = n
    BY <1>1, <1>2, <1>6, <2>2, StartRoundFacts
  <2> QED BY <1>1, <1>4, <1>6, <2>3 DEF TypeInv
<1> QED BY <1>5, <1>6

\* A step of the system is a step of one live node, described by AStep.
LEMMA StepIs ==
  ASSUME TypeInv, Next
  PROVE  \E n \in Live : \E a : /\ AStep(n, node[n], a) /\ node[n].h < cfg.heights
                               /\ Take(n, a)
BY Steps DEF Next, try_rules, check_timeouts

LEMMA TypeStep == TypeInv /\ [Next]_vars => TypeInv'
<1> SUFFICES ASSUME TypeInv, [Next]_vars PROVE TypeInv'
  OBVIOUS
<1>1. CASE UNCHANGED vars
  BY <1>1 DEF TypeInv, vars, Live
<1>2. CASE Next
  <2>0. PICK n \in Live : \E a : AStep(n, node[n], a) /\ Take(n, a)
    BY <1>2, StepIs
  <2>1. PICK a : AStep(n, node[n], a) /\ Take(n, a)
    BY <2>0
  <2>2. /\ a.state \in States
        /\ a.out \subseteq Messages /\ IsFiniteSet(a.out) /\ \A x \in a.out : x.from = n
    BY <2>1, StepTypes DEF TypeInv
  <2>3. IsFiniteSet(msgs')
    BY <2>1, <2>2, FS_Union DEF Take, TypeInv
  <2>4. cfg' = cfg /\ Live' = Live
    BY <2>1 DEF Take, Live
  <2>5. node' \in [Live -> States] /\ msgs' \subseteq Messages /\ \A m \in msgs' : m.from \in Live
    BY <2>1, <2>2 DEF Take, TypeInv
  <2> QED BY <2>3, <2>4, <2>5 DEF TypeInv
<1> QED BY <1>1, <1>2
-----------------------------------------------------------------------------
(* The invariant: what a correct node has voted for, and why *)

VotesOf(n) == {m \in msgs : m.type # "PROPOSAL" /\ m.from = n}
StepOf(type) == IF type = "PREVOTE" THEN Prevote ELSE Precommit

\* A node has left the step in which it sent m.
Past(m, s) ==
  \/ m.h < s.h
  \/ m.h = s.h /\ m.r < s.round
  \/ m.h = s.h /\ m.r = s.round /\ s.step >= StepOf(m.type)

VotesPast(n) ==
  \A m \in VotesOf(n) : m.vr = -1 /\ m.to = Nodes(cfg) /\ Past(m, node[n])

VotesUnique(n) ==
  \A m, k \in VotesOf(n) : m.type = k.type /\ m.h = k.h /\ m.r = k.r => m.value = k.value

\* A PRECOMMIT for a value has a quorum of PREVOTEs of its round behind it.
PrecommitsBacked(n) ==
  \A m \in VotesOf(n) : m.type = "PRECOMMIT" /\ m.value # Nil
                           => HasQuorumFor("PREVOTE", m.h, m.r, m.value)

\* A node that has sent a PRECOMMIT sends a PREVOTE for another value only
\* when a quorum of PREVOTEs of that or a later round stands behind it.
PrevotesLoyal(n) ==
  \A m, p \in VotesOf(n) :
     (/\ m.type = "PREVOTE" /\ m.value # Nil
      /\ p.type = "PRECOMMIT" /\ p.value # Nil /\ p.h = m.h /\ p.r < m.r)
     => \/ m.value = p.value
        \/ \E vr \in Nat : p.r <= vr /\ vr < m.r /\ HasQuorumFor("PREVOTE", m.h, vr, m.value)

LockOf(n, s) ==
  /\ s.locked_round <= s.round /\ (s.locked_round = s.round => s.step = Precommit)
  /\ s.locked_round >= 0 => HasQuorumFor("PREVOTE", s.h, s.locked_round, s.locked_value)
  /\ s.valid_round >= 0 => HasQuorumFor("PREVOTE", s.h, s.valid_round, s.valid_value)
  /\ s.valid_round >= s.locked_round
  /\ \A m \in VotesOf(n) : (m.type = "PRECOMMIT" /\ m.h = s.h /\ m.value # Nil)
        => m.r <= s.locked_round /\ (m.r = s.locked_round => m.value = s.locked_value)

LockHeld(n) == node[n].h < cfg.heights => LockOf(n, node[n])

DecisionsBacked(n) ==
  /\ Len(node[n].decisions) = node[n].h
  /\ \A k \in 1 .. Len(node[n].decisions) :
        /\ node[n].decisions[k] # Nil
        /\ \E r \in Nat : HasQuorumFor("PRECOMMIT", k - 1, r, node[n].decisions[k])

NodeInv(n) ==
  /\ VotesPast(n) /\ VotesUnique(n) /\ PrecommitsBacked(n) /\ PrevotesLoyal(n)
  /\ LockHeld(n) /\ DecisionsBacked(n)

IInv == TypeInv /\ \A n \in Correct : NodeInv(n)
-----------------------------------------------------------------------------
(* Quorums stay, and with them what they back *)

LEMMA QuorumStays ==
  ASSUME TypeInv, TypeInv', cfg' = cfg, msgs \subseteq msgs',
         NEW type, NEW h, NEW r, NEW v, HasQuorumFor(type, h, r, v)
  PROVE  HasQuorumFor(type, h, r, v)'
<1>1. VotersFor(type, h, r, v) \subseteq VotersFor(type, h, r, v)'
  BY DEF VotersFor
<1>2. VotersFor(type, h, r, v)' \subseteq Nodes(cfg)
  <2>1. VotersFor(type, h, r, v)' \subseteq Live'
    BY DEF VotersFor, TypeInv
  <2> QED BY <2>1 DEF Live
<1>3. ValidConfig(cfg) /\ cfg.f \in Nat
  BY ConfigFacts DEF TypeInv
<1>4. /\ PowerOf(cfg, VotersFor(type, h, r, v)) <= PowerOf(cfg, VotersFor(type, h, r, v)')
      /\ PowerOf(cfg, VotersFor(type, h, r, v)) \in Nat
      /\ PowerOf(cfg, VotersFor(type, h, r, v)') \in Nat
  BY <1>1, <1>2, <1>3, PowerMonotone
<1> QED BY <1>3, <1>4 DEF HasQuorumFor, Quorum

\* What a node's votes rest on is not disturbed by a step that adds no vote
\* of this node.
LEMMA VotesKept ==
  ASSUME TypeInv, TypeInv', cfg' = cfg, msgs \subseteq msgs',
         NEW n \in Correct, NodeInv(n), VotesOf(n)' = VotesOf(n)
  PROVE  VotesUnique(n)' /\ PrecommitsBacked(n)' /\ PrevotesLoyal(n)'
<1>1. VotesUnique(n)'
  BY DEF NodeInv, VotesUnique
<1>2. PrecommitsBacked(n)'
  BY QuorumStays DEF NodeInv, PrecommitsBacked
<1>3. PrevotesLoyal(n)'
  BY QuorumStays DEF NodeInv, PrevotesLoyal
<1> QED BY <1>1, <1>2, <1>3

\* A node that takes no step.
LEMMA Bystander ==
  ASSUME TypeInv, TypeInv', cfg' = cfg, msgs \subseteq msgs',
         NEW n \in Correct, NodeInv(n), VotesOf(n)' = VotesOf(n), node'[n] = node[n]
  PROVE  NodeInv(n)'
<1>1. VotesUnique(n)' /\ PrecommitsBacked(n)' /\ PrevotesLoyal(n)'
  BY VotesKept
<1>2. VotesPast(n)'
  BY DEF NodeInv, VotesPast, Past
<1>3. LockHeld(n)'
  <2>1. SUFFICES ASSUME node[n].h < cfg.heights PROVE LockOf(n, node[n])'
    BY DEF LockHeld
  <2>2. LockOf(n, node[n])
    BY <2>1 DEF NodeInv, LockHeld
  <2> QED BY <2>2, QuorumStays DEF LockOf
<1>4. DecisionsBacked(n)'
  BY QuorumStays DEF NodeInv, DecisionsBacked
<1> QED BY <1>1, <1>2, <1>3, <1>4 DEF NodeInv

LEMMA PastStays ==
  ASSUME NEW m \in Messages, NEW s \in States, NEW t \in States, Past(m, s),
         \/ s.h < t.h
         \/ s.h = t.h /\ s.round < t.round
         \/ s.h = t.h /\ s.round = t.round /\ s.step <= t.step
  PROVE  Past(m, t)
BY DEF Past, States, Messages, StepOf, Propose, Prevote, Precommit
-----------------------------------------------------------------------------
(* The node that takes the step *)

\* A step without a vote that keeps the height, the round, the step and the
\* lock: arming a timer or noting a valid value.
LEMMA QuietStep ==
  ASSUME TypeInv, TypeInv', cfg' = cfg, msgs \subseteq msgs', NEW n \in Correct, NodeInv(n),
         node[n].h < cfg.heights, VotesOf(n)' = VotesOf(n), Notes(n, node[n], [state |-> node'[n], out |-> {}])
         \/ Arms(n, node[n], [state |-> node'[n], out |-> {}])
  PROVE  NodeInv(n)'
<1> DEFINE s == node[n]
           t == node'[n]
<1>0. s \in States /\ t \in States
  BY ConfigFacts DEF TypeInv, Live, Correct
<1>1. /\ t.h = s.h /\ t.round = s.round /\ t.step = s.step /\ t.decisions = s.decisions
      /\ t.locked_round = s.locked_round /\ t.locked_value = s.locked_value
      /\ \/ t.valid_round = s.valid_round /\ t.valid_value = s.valid_value
         \/ t.valid_round = s.round /\ HasQuorumFor("PREVOTE", s.h, s.round, t.valid_value)
  <2>1. CASE Notes(n, s, [state |-> t, out |-> {}])
    <3>1. PICK v \in Values : t = ValidNow(s, v) /\ HasQuorumFor("PREVOTE", s.h, s.round, v)
      BY <2>1 DEF Notes, Quietly
    <3> QED BY <1>0, <3>1 DEF ValidNow, States
  <2>2. CASE Arms(n, s, [state |-> t, out |-> {}])
    <3>1. PICK x \in SUBSET Timers : t = [s EXCEPT !.timers = x]
      BY <2>2 DEF Arms, Quietly
    <3> QED BY <1>0, <3>1 DEF States
  <2> QED BY <2>1, <2>2
<1>2. VotesUnique(n)' /\ PrecommitsBacked(n)' /\ PrevotesLoyal(n)'
  BY VotesKept
<1>3. VotesPast(n)'
  BY <1>1 DEF NodeInv, VotesPast, Past
<1>4. LockHeld(n)'
  <2>1. LockOf(n, s)
    BY DEF NodeInv, LockHeld
  <2> HIDE DEF s, t
  <2>2. t.valid_round >= t.locked_round
    BY <1>0, <1>1, <2>1 DEF LockOf, States, Rounds
  <2>3. LockOf(n, node[n])'
    BY <1>1, <2>1, <2>2, QuorumStays DEF LockOf, s, t
  <2> QED BY <2>3 DEF LockHeld
<1>5. DecisionsBacked(n)'
  BY <1>1, QuorumStays DEF NodeInv, DecisionsBacked
<1> QED BY <1>2, <1>3, <1>4, <1>5 DEF NodeInv

\* start_round with a later round
LEMMA MoveStep ==
  ASSUME TypeInv, TypeInv', cfg' = cfg, msgs \subseteq msgs', NEW n \in Correct, NodeInv(n),
         node[n].h < cfg.heights, VotesOf(n)' = VotesOf(n),
         NEW r \in Nat, r > node[n].round, node'[n] = InRound(n, node[n], r)
  PROVE  NodeInv(n)'
<1> DEFINE s == node[n]
           t == node'[n]
<1>0. n \in Live /\ s \in States /\ t \in States
  BY ConfigFacts DEF TypeInv, Live, Correct
<1>1. /\ t.h = s.h /\ t.round = r /\ t.decisions = s.decisions
      /\ t.locked_round = s.locked_round /\ t.locked_value = s.locked_value
      /\ t.valid_round = s.valid_round /\ t.valid_value = s.valid_value
  BY <1>0, InRoundFacts
<1>2. VotesUnique(n)' /\ PrecommitsBacked(n)' /\ PrevotesLoyal(n)'
  BY VotesKept
<1>3. VotesPast(n)'
  <2>1. ASSUME NEW m \in VotesOf(n) PROVE Past(m, t)
    <3>1. m \in Messages /\ Past(m, s)
      BY DEF NodeInv, VotesPast, VotesOf, TypeInv
    <3> QED BY <1>0, <1>1, <3>1, PastStays
  <2> QED BY <2>1 DEF NodeInv, VotesPast
<1>4. LockHeld(n)'
  <2>1. LockOf(n, s)
    BY DEF NodeInv, LockHeld
  <2> HIDE DEF s, t
  <2>2. t.locked_round < t.round
    BY <1>0, <1>1, <2>1 DEF LockOf, States, Rounds, s
  <2>3. t.locked_round <= t.round /\ t.locked_round # t.round
    BY <1>0, <2>2 DEF States, Rounds
  <2>4. LockOf(n, node[n])'
    BY <1>1, <2>1, <2>3, QuorumStays DEF LockOf, s, t
  <2> QED BY <2>4 DEF LockHeld
<1>5. DecisionsBacked(n)'
  BY <1>1, QuorumStays DEF NodeInv, DecisionsBacked
<1> QED BY <1>2, <1>3, <1>4, <1>5 DEF NodeInv

\* A decision: the votes of the height stay behind, the next height has none.
LEMMA DecideStep ==
  ASSUME TypeInv, TypeInv', cfg' = cfg, msgs \subseteq msgs', NEW n \in Correct, NodeInv(n),
         node[n].h < cfg.heights, VotesOf(n)' = VotesOf(n),
         NEW v \in Values \ {Nil}, NEW r \in Nat, HasQuorumFor("PRECOMMIT", node[n].h, r, v),
         \/ node'[n] = Deciding(node[n], v) /\ ~ (node[n].h + 1 < cfg.heights)
         \/ node'[n] = InRound(n, NewHeight(Deciding(node[n], v)), 0)
  PROVE  NodeInv(n)'
<1> DEFINE s == node[n]
           t == node'[n]
<1>0. n \in Live /\ s \in States /\ t \in States
  BY ConfigFacts DEF TypeInv, Live, Correct
<1>1. /\ t.h = s.h + 1 /\ t.decisions = Append(s.decisions, v)
      /\ t.h < cfg.heights => t.locked_round = -1 /\ t.valid_round = -1
  <2> DEFINE u == NewHeight(Deciding(s, v))
  <2>1. /\ Deciding(s, v).h = s.h + 1 /\ Deciding(s, v).decisions = Append(s.decisions, v)
        /\ u \in States /\ u.h = s.h + 1 /\ u.decisions = Append(s.decisions, v)
        /\ u.locked_round = -1 /\ u.valid_round = -1
    BY <1>0, DecidingFacts
  <2> HIDE DEF u
  <2>2. (t = Deciding(s, v) /\ ~ (s.h + 1 < cfg.heights)) \/ t = InRound(n, u, 0)
    BY DEF u
  <2>3. CASE t = Deciding(s, v) /\ ~ (s.h + 1 < cfg.heights)
    <3> HIDE DEF s, t
    <3> QED BY <2>1, <2>3
  <2>4. CASE t = InRound(n, u, 0)
    <3>1. /\ InRound(n, u, 0).h = u.h /\ InRound(n, u, 0).decisions = u.decisions
          /\ InRound(n, u, 0).locked_round = u.locked_round
          /\ InRound(n, u, 0).valid_round = u.valid_round
      BY ONLY <1>0, <2>1, InRoundFacts, 0 \in Nat
    <3> HIDE DEF s, t
    <3> QED BY ONLY <2>1, <2>4, <3>1
  <2> QED BY <2>2, <2>3, <2>4
<1>2. VotesUnique(n)' /\ PrecommitsBacked(n)' /\ PrevotesLoyal(n)'
  BY VotesKept
<1>3. \A m \in VotesOf(n) : m.h < t.h
  <2> SUFFICES ASSUME NEW m \in VotesOf(n) PROVE m.h < t.h
    OBVIOUS
  <2>1. m \in Messages /\ Past(m, s)
    BY DEF NodeInv, VotesPast, VotesOf, TypeInv
  <2> QED BY <1>0, <1>1, <2>1 DEF Past, Messages, States
<1>4. VotesPast(n)'
  BY <1>3 DEF NodeInv, VotesPast, Past
<1>5. LockHeld(n)'
  <2> SUFFICES ASSUME t.h < cfg.heights PROVE LockOf(n, node[n])'
    BY DEF LockHeld
  <2>1. \A m \in VotesOf(n) : m.h # t.h
    BY <1>0, <1>3 DEF States, VotesOf, TypeInv, Messages
  <2> HIDE DEF s, t
  <2>2. t.round \in Nat /\ t.locked_round = -1 /\ t.valid_round = -1
    BY <1>0, <1>1 DEF States
  <2>3. /\ t.locked_round <= t.round /\ t.locked_round # t.round
        /\ ~ (t.locked_round >= 0) /\ ~ (t.valid_round >= 0) /\ t.valid_round >= t.locked_round
    BY <2>2
  <2> QED BY <2>1, <2>3 DEF LockOf, t
<1>6. DecisionsBacked(n)'
  <2>1. /\ s.decisions \in Seq(Values) /\ Len(s.decisions) = s.h /\ s.h \in Nat
        /\ \A k \in 1 .. Len(s.decisions) :
             /\ s.decisions[k] # Nil
             /\ \E q \in Nat : HasQuorumFor("PRECOMMIT", k - 1, q, s.decisions[k])
    BY <1>0 DEF NodeInv, DecisionsBacked, States
  <2>2. Len(t.decisions) = s.h + 1
    BY <1>1, <2>1
  <2>3. ASSUME NEW k \in 1 .. Len(t.decisions)
        PROVE  /\ t.decisions[k] # Nil
               /\ \E q \in Nat : HasQuorumFor("PRECOMMIT", k - 1, q, t.decisions[k])
    <3>1. CASE k \in 1 .. Len(s.decisions)
      <4>1. t.decisions[k] = s.decisions[k]
        BY <1>1, <2>1, <3>1
      <4> QED BY <2>1, <3>1, <4>1
    <3>2. CASE k \notin 1 .. Len(s.decisions)
      <4>1. k = s.h + 1 /\ k - 1 = s.h
        BY <2>1, <2>2, <3>2
      <4>2. t.decisions[k] = v
        BY <1>1, <2>1, <4>1
      <4> QED BY <4>1, <4>2
    <3> QED BY <3>1, <3>2
  <2> QED BY <1>1, <2>2, <2>3, QuorumStays DEF DecisionsBacked
<1> QED BY <1>2, <1>4, <1>5, <1>6 DEF NodeInv

\* A PREVOTE: the lock lets it pass, so it is loyal to the PRECOMMITs before.
LEMMA PrevoteStep ==
  ASSUME TypeInv, TypeInv', cfg' = cfg, msgs \subseteq msgs', NEW n \in Correct, NodeInv(n),
         node[n].h < cfg.heights, NEW m \in Messages, VotesOf(n)' = VotesOf(n) \cup {m},
         m.type = "PREVOTE", m.h = node[n].h, m.r = node[n].round,
         m.vr = -1, m.to = Nodes(cfg), Justified(node[n], m.value),
         node[n].step = Propose, node'[n] = [node[n] EXCEPT !.step = Prevote]
  PROVE  NodeInv(n)'
<1> DEFINE s == node[n]
           t == node'[n]
<1>0. s \in States /\ t \in States
  BY ConfigFacts DEF TypeInv, Live, Correct
<1>1. /\ t.h = s.h /\ t.round = s.round /\ t.step = Prevote /\ t.decisions = s.decisions
      /\ t.locked_round = s.locked_round /\ t.locked_value = s.locked_value
      /\ t.valid_round = s.valid_round /\ t.valid_value = s.valid_value
  BY <1>0 DEF States
<1>2. \A k \in VotesOf(n) : /\ k \in Messages /\ Past(k, s) /\ k.vr = -1 /\ k.to = Nodes(cfg)
                            /\ k.type \in {"PREVOTE", "PRECOMMIT"}
  BY DEF NodeInv, VotesPast, VotesOf, TypeInv, Messages
<1>3. LockOf(n, s) /\ s.locked_round < s.round
  <2>1. LockOf(n, s)
    BY DEF NodeInv, LockHeld
  <2> QED BY <1>0, <2>1 DEF LockOf, States, Rounds, Propose, Precommit
<1> HIDE DEF s
<1>4. VotesPast(n)'
  <2>1. Past(m, t)
    BY <1>1 DEF Past, StepOf, s, Prevote
  <2>2. \A k \in VotesOf(n) : Past(k, t)
    <3>1. s.step <= t.step
      BY <1>1 DEF s, Propose, Prevote
    <3> QED BY <1>0, <1>1, <1>2, <3>1, PastStays
  <2> QED BY <1>2, <2>1, <2>2 DEF VotesPast
<1>5. VotesUnique(n)'
  <2>1. \A k \in VotesOf(n) : ~ (k.type = m.type /\ k.h = m.h /\ k.r = m.r)
    BY <1>0, <1>2 DEF Past, StepOf, Messages, States, Propose, Prevote, s
  <2> QED BY <2>1 DEF NodeInv, VotesUnique
<1>6. PrecommitsBacked(n)'
  BY QuorumStays DEF NodeInv, PrecommitsBacked
<1>7. PrevotesLoyal(n)'
  <2>1. ASSUME NEW p \in VotesOf(n), m.value # Nil, p.type = "PRECOMMIT", p.value # Nil,
               p.h = m.h, p.r < m.r
        PROVE  \/ m.value = p.value
               \/ \E vr \in Nat : p.r <= vr /\ vr < m.r /\ HasQuorumFor("PREVOTE", m.h, vr, m.value)
    <3>1. p.r \in Nat /\ p.r <= s.locked_round /\ (p.r = s.locked_round => p.value = s.locked_value)
      BY <1>2, <1>3, <2>1 DEF LockOf, Messages, s
    <3>2. s.locked_round \in Nat
      BY <1>0, <3>1 DEF States, Rounds
    <3>3. CASE s.locked_value = m.value
      <4>1. HasQuorumFor("PREVOTE", m.h, s.locked_round, m.value)
        BY <1>3, <3>2, <3>3 DEF LockOf, s
      <4> QED BY <1>3, <3>1, <3>2, <3>3, <4>1 DEF s
    <3>4. ASSUME NEW vr \in Nat, s.locked_round <= vr, vr < s.round,
                 HasQuorumFor("PREVOTE", s.h, vr, m.value)
          PROVE  p.r <= vr /\ vr < m.r /\ HasQuorumFor("PREVOTE", m.h, vr, m.value)
      BY <3>1, <3>2, <3>4 DEF s
    <3> QED BY <2>1, <3>2, <3>3, <3>4 DEF Justified, s
  <2>2. ASSUME NEW p \in VotesOf(n), m.value # Nil, p.type = "PRECOMMIT", p.value # Nil,
               p.h = m.h, p.r < m.r
        PROVE  \/ m.value = p.value
               \/ \E vr \in Nat : p.r <= vr /\ vr < m.r /\ HasQuorumFor("PREVOTE", m.h, vr, m.value)'
    BY <2>1, <2>2, QuorumStays
  <2>3. ASSUME NEW k \in VotesOf(n), NEW p \in VotesOf(n), k.type = "PREVOTE", k.value # Nil,
               p.type = "PRECOMMIT", p.value # Nil, p.h = k.h, p.r < k.r
        PROVE  \/ k.value = p.value
               \/ \E vr \in Nat : p.r <= vr /\ vr < k.r /\ HasQuorumFor("PREVOTE", k.h, vr, k.value)'
    BY <2>3, QuorumStays DEF NodeInv, PrevotesLoyal
  <2> QED BY <2>2, <2>3 DEF PrevotesLoyal
<1>8. LockHeld(n)'
  <2>1. LockOf(n, node[n])'
    BY <1>0, <1>1, <1>3, QuorumStays DEF LockOf, s, States, Rounds
  <2> QED BY <2>1 DEF LockHeld
<1>9. DecisionsBacked(n)'
  BY <1>1, QuorumStays DEF NodeInv, DecisionsBacked, s
<1> QED BY <1>4, <1>5, <1>6, <1>7, <1>8, <1>9 DEF NodeInv

\* A PRECOMMIT, for nil or for the value that the node locks with it.
LEMMA PrecommitStep ==
  ASSUME TypeInv, TypeInv', cfg' = cfg, msgs \subseteq msgs', NEW n \in Correct, NodeInv(n),
         node[n].h < cfg.heights, NEW m \in Messages, VotesOf(n)' = VotesOf(n) \cup {m},
         m.type = "PRECOMMIT", m.h = node[n].h, m.r = node[n].round,
         m.vr = -1, m.to = Nodes(cfg), node[n].step = Prevote,
         \/ m.value = Nil /\ node'[n] = [node[n] EXCEPT !.step = Precommit]
         \/ /\ m.value # Nil /\ HasQuorumFor("PREVOTE", m.h, m.r, m.value)
            /\ node'[n] = [Locked(node[n], m.value) EXCEPT !.step = Precommit]
  PROVE  NodeInv(n)'
<1> DEFINE s == node[n]
           t == node'[n]
<1>0. s \in States /\ t \in States
  BY ConfigFacts DEF TypeInv, Live, Correct
<1>1. /\ t.h = s.h /\ t.round = s.round /\ t.step = Precommit /\ t.decisions = s.decisions
      /\ m.value = Nil =>
           /\ t.locked_round = s.locked_round /\ t.locked_value = s.locked_value
           /\ t.valid_round = s.valid_round /\ t.valid_value = s.valid_value
      /\ m.value # Nil =>
           /\ t.locked_round = m.r /\ t.locked_value = m.value
           /\ t.valid_round = m.r /\ t.valid_value = m.value
  BY <1>0 DEF States, Locked, ValidNow
<1>2. \A k \in VotesOf(n) : /\ k \in Messages /\ Past(k, s) /\ k.vr = -1 /\ k.to = Nodes(cfg)
                            /\ k.type \in {"PREVOTE", "PRECOMMIT"}
  BY DEF NodeInv, VotesPast, VotesOf, TypeInv, Messages
<1>3. LockOf(n, s)
  BY DEF NodeInv, LockHeld
<1>4. m.r \in Nat /\ m.h \in Nat /\ m.h = s.h /\ m.r = s.round
  BY DEF Messages
<1>5. \A k \in VotesOf(n) : k.type = "PRECOMMIT" /\ k.h = s.h => k.r < s.round
  BY <1>0, <1>2 DEF Past, StepOf, Messages, States, Propose, Prevote, Precommit
<1>6. m.value # Nil => HasQuorumFor("PREVOTE", m.h, m.r, m.value)
  OBVIOUS
<1> HIDE DEF s
<1>7. VotesPast(n)'
  <2>1. Past(m, t)
    BY <1>1, <1>4 DEF Past, StepOf, Precommit
  <2>2. \A k \in VotesOf(n) : Past(k, t)
    <3>1. s.step <= t.step
      BY <1>1 DEF s, Precommit, Prevote
    <3> QED BY <1>0, <1>1, <1>2, <3>1, PastStays
  <2> QED BY <1>2, <2>1, <2>2 DEF VotesPast
<1>8. VotesUnique(n)'
  <2>1. \A k \in VotesOf(n) : ~ (k.type = m.type /\ k.h = m.h /\ k.r = m.r)
    BY <1>2, <1>4, <1>5 DEF Messages
  <2> QED BY <2>1 DEF NodeInv, VotesUnique
<1>9. PrecommitsBacked(n)'
  BY <1>6, QuorumStays DEF NodeInv, PrecommitsBacked
<1>10. PrevotesLoyal(n)'
  <2>1. \A k \in VotesOf(n) : k.h = m.h => ~ (m.r < k.r)
    BY <1>0, <1>2, <1>4 DEF Past, Messages, States
  <2>2. ASSUME NEW k \in VotesOf(n), NEW p \in VotesOf(n), k.type = "PREVOTE", k.value # Nil,
               p.type = "PRECOMMIT", p.value # Nil, p.h = k.h, p.r < k.r
        PROVE  \/ k.value = p.value
               \/ \E vr \in Nat : p.r <= vr /\ vr < k.r /\ HasQuorumFor("PREVOTE", k.h, vr, k.value)'
    BY <2>2, QuorumStays DEF NodeInv, PrevotesLoyal
  <2> QED BY <2>1, <2>2 DEF PrevotesLoyal
<1>11. LockHeld(n)'
  <2>1. CASE m.value = Nil
    <3>1. LockOf(n, node[n])'
      BY <1>1, <1>3, <2>1, QuorumStays DEF LockOf, s
    <3> QED BY <3>1 DEF LockHeld
  <2>2. CASE m.value # Nil
    <3>1. \A k \in VotesOf(n) : (k.type = "PRECOMMIT" /\ k.h = s.h) => k.r <= m.r /\ k.r # m.r
      BY <1>2, <1>4, <1>5 DEF Messages
    <3>2. m.r <= m.r /\ m.r >= m.r
      BY <1>4
    <3>3. LockOf(n, node[n])'
      BY <1>1, <1>4, <1>6, <2>2, <3>1, <3>2, QuorumStays DEF LockOf
    <3> QED BY <3>3 DEF LockHeld
  <2> QED BY <2>1, <2>2
<1>12. DecisionsBacked(n)'
  BY <1>1, QuorumStays DEF NodeInv, DecisionsBacked, s
<1> QED BY <1>7, <1>8, <1>9, <1>10, <1>11, <1>12 DEF NodeInv

LEMMA OwnStep ==
  ASSUME TypeInv, TypeInv', NEW n \in Correct, NodeInv(n), NEW a,
         AStep(n, node[n], a), node[n].h < cfg.heights, Take(n, a)
  PROVE  NodeInv(n)'
<1> DEFINE s == node[n]
<1>0. /\ n \in Live /\ cfg \in Configs /\ s \in States /\ cfg' = cfg
      /\ node'[n] = a.state /\ msgs' = msgs \cup a.out /\ msgs \subseteq msgs'
  BY ConfigFacts DEF TypeInv, Take
<1> HIDE DEF s
<1>1. ASSUME NEW m \in Messages, m.from = n, m.type # "PROPOSAL", a.out = {m}
      PROVE  VotesOf(n)' = VotesOf(n) \cup {m}
  BY <1>0, <1>1 DEF VotesOf
<1>2. ASSUME \A x \in a.out : x.type = "PROPOSAL"
      PROVE  VotesOf(n)' = VotesOf(n)
  BY <1>0, <1>2 DEF VotesOf
<1>3. CASE Prevotes(n, s, a)
  <2>1. PICK v \in Values : /\ s.step = Propose /\ Justified(s, v)
                            /\ a \in Send(n, [s EXCEPT !.step = Prevote], Vote("PREVOTE", n, s, v))
    BY <1>3 DEF Prevotes, SendPrevote
  <2> DEFINE m == Vote("PREVOTE", n, s, v)
  <2>2. /\ m \in Messages /\ m.type = "PREVOTE" /\ m.from = n /\ m.h = s.h /\ m.r = s.round
        /\ m.value = v /\ m.vr = -1 /\ m.to = Nodes(cfg)
    BY <1>0, VoteFacts
  <2> HIDE DEF m
  <2>3. a.state = [s EXCEPT !.step = Prevote] /\ a.out = {m}
    BY <1>0, <2>1, <2>2, SendFacts DEF m
  <2>4. VotesOf(n)' = VotesOf(n) \cup {m}
    BY <1>1, <2>2, <2>3
  <2>5. PICK k \in Messages : k = m
    BY <2>2
  <2> QED BY <1>0, <2>1, <2>2, <2>3, <2>4, <2>5, PrevoteStep DEF s
<1>4. CASE Locks(n, s, a)
  <2>1. PICK v \in Values \ {Nil} :
           /\ s.step = Prevote /\ HasQuorumFor("PREVOTE", s.h, s.round, v)
           /\ a \in Send(n, [Locked(s, v) EXCEPT !.step = Precommit],
                         Vote("PRECOMMIT", n, Locked(s, v), v))
    BY <1>4 DEF Locks, SendPrecommit
  <2>2. Locked(s, v) \in States /\ Locked(s, v).h = s.h /\ Locked(s, v).round = s.round
    BY <1>0 DEF States, Locked, ValidNow, Rounds
  <2> DEFINE m == Vote("PRECOMMIT", n, Locked(s, v), v)
  <2>3. /\ m \in Messages /\ m.type = "PRECOMMIT" /\ m.from = n /\ m.h = s.h /\ m.r = s.round
        /\ m.value = v /\ m.vr = -1 /\ m.to = Nodes(cfg)
    BY <1>0, <2>2, VoteFacts
  <2> HIDE DEF m
  <2>4. a.state = [Locked(s, v) EXCEPT !.step = Precommit] /\ a.out = {m}
    BY <1>0, <2>1, <2>3, SendFacts DEF m
  <2>5. VotesOf(n)' = VotesOf(n) \cup {m}
    BY <1>1, <2>3, <2>4
  <2>6. PICK k \in Messages : k = m
    BY <2>3
  <2> QED BY <1>0, <2>1, <2>3, <2>4, <2>5, <2>6, PrecommitStep DEF s
<1>5. CASE Abstains(n, s, a)
  <2> DEFINE m == Vote("PRECOMMIT", n, s, Nil)
  <2>1. s.step = Prevote /\ a \in Send(n, [s EXCEPT !.step = Precommit], m)
    BY <1>5 DEF Abstains, SendPrecommit
  <2>2. /\ m \in Messages /\ m.type = "PRECOMMIT" /\ m.from = n /\ m.h = s.h /\ m.r = s.round
        /\ m.value = Nil /\ m.vr = -1 /\ m.to = Nodes(cfg)
    <3>1. Nil \in Values
      BY DEF Values
    <3> QED BY <1>0, <3>1, VoteFacts
  <2> HIDE DEF m
  <2>3. a.state = [s EXCEPT !.step = Precommit] /\ a.out = {m}
    BY <1>0, <2>1, <2>2, SendFacts
  <2>4. VotesOf(n)' = VotesOf(n) \cup {m}
    BY <1>1, <2>2, <2>3
  <2>5. PICK k \in Messages : k = m
    BY <2>2
  <2> QED BY <1>0, <2>1, <2>2, <2>3, <2>4, <2>5, PrecommitStep DEF s
<1>6. CASE Notes(n, s, a) \/ Arms(n, s, a)
  <2>1. a = [state |-> node'[n], out |-> {}]
    BY <1>0, <1>6 DEF Notes, Arms, Quietly
  <2>2. VotesOf(n)' = VotesOf(n)
    BY <1>2, <2>1
  <2> QED BY <1>0, <1>6, <2>1, <2>2, QuietStep DEF s
<1>7. CASE Moves(n, s, a)
  <2>1. PICK r \in Nat : r > s.round /\ a \in StartRound(n, s, r)
    BY <1>7 DEF Moves
  <2>2. a.state = InRound(n, s, r) /\ \A x \in a.out : x.type = "PROPOSAL"
    BY <1>0, <2>1, StartRoundFacts
  <2> QED BY <1>0, <1>2, <2>1, <2>2, MoveStep DEF s
<1>8. CASE Decides(n, s, a)
  <2>1. PICK v \in Values \ {Nil}, r \in Nat :
           HasQuorumFor("PRECOMMIT", s.h, r, v) /\ a \in NextHeight(n, Deciding(s, v))
    BY <1>8 DEF Decides
  <2>2. /\ Deciding(s, v).h = s.h + 1 /\ NewHeight(Deciding(s, v)) \in States
    BY <1>0, <2>1, DecidingFacts
  <2>3. \/ a \in Quietly(Deciding(s, v)) /\ ~ (s.h + 1 < cfg.heights)
        \/ a \in StartRound(n, NewHeight(Deciding(s, v)), 0)
    BY <2>1, <2>2 DEF NextHeight
  <2>4. /\ \/ a.state = Deciding(s, v) /\ ~ (s.h + 1 < cfg.heights)
           \/ a.state = InRound(n, NewHeight(Deciding(s, v)), 0)
        /\ \A x \in a.out : x.type = "PROPOSAL"
    BY <1>0, <2>2, <2>3, StartRoundFacts, QuietFacts
  <2>5. VotesOf(n)' = VotesOf(n)
    BY <1>2, <2>4
  <2> QED BY <1>0, <2>1, <2>4, <2>5, DecideStep DEF s
<1> QED BY <1>3, <1>4, <1>5, <1>6, <1>7, <1>8 DEF AStep, s
-----------------------------------------------------------------------------
(* The invariant is inductive *)

LEMMA InvInit == Init => IInv
<1> SUFFICES ASSUME Init, NEW n \in Correct PROVE NodeInv(n)
  BY TypeInit DEF IInv
<1>1. TypeInv
  BY TypeInit
<1>2. n \in Live /\ cfg \in Configs
  BY <1>1, ConfigFacts DEF TypeInv
<1>3. InitialNode \in States /\ InitialNode.h = 0 /\ InitialNode.decisions = <<>>
      /\ InitialNode.locked_round = -1 /\ InitialNode.valid_round = -1
  <2>1. <<>> \in Seq(Values) /\ Nil \in Values
    BY DEF Values
  <2> QED BY <2>1 DEF InitialNode, States, Rounds, Propose
<1>4. /\ node[n] \in States /\ node[n].h = 0 /\ node[n].round = 0 /\ node[n].decisions = <<>>
      /\ node[n].locked_round = -1 /\ node[n].valid_round = -1
  <2>1. node[n] = InRound(n, InitialNode, 0)
    BY <1>2 DEF Init
  <2> QED BY <1>2, <1>3, <2>1, InRoundFacts
<1>5. VotesOf(n) = {}
  <2> DEFINE p == Proposer(0, 0)
  <2>1. CASE p \notin Live
    BY <2>1 DEF Init, VotesOf
  <2>2. CASE p \in Live
    <3> DEFINE a == [state |-> node[p], out |-> msgs]
    <3>1. a \in StartRound(p, InitialNode, 0)
      BY <1>3, <2>2 DEF Init, StartRound, Send
    <3>2. (\A x \in msgs : x.from = p) /\ (p \in Correct => \A x \in msgs : x.type = "PROPOSAL")
      BY <1>2, <1>3, <2>2, <3>1, StartRoundFacts
    <3> QED BY <3>2 DEF VotesOf
  <2> QED BY <2>1, <2>2
<1>6. LockOf(n, node[n])
  BY <1>4, <1>5 DEF LockOf, Precommit
<1> QED BY <1>4, <1>5, <1>6
    DEF NodeInv, VotesPast, VotesUnique, PrecommitsBacked, PrevotesLoyal, LockHeld, DecisionsBacked

LEMMA InvStep == IInv /\ [Next]_vars => IInv'
<1> SUFFICES ASSUME IInv, [Next]_vars PROVE IInv'
  OBVIOUS
<1>1. TypeInv /\ TypeInv'
  BY TypeStep DEF IInv
<1>2. CASE UNCHANGED vars
  <2>1. Correct' = Correct
    BY <1>2 DEF vars, Correct, Live
  <2>2. ASSUME NEW n \in Correct PROVE NodeInv(n)'
    <3>1. /\ NodeInv(n) /\ cfg' = cfg /\ msgs \subseteq msgs' /\ node'[n] = node[n]
          /\ VotesOf(n)' = VotesOf(n)
      BY <1>2 DEF IInv, vars, VotesOf
    <3> QED BY <1>1, <3>1, Bystander
  <2> QED BY <1>1, <2>1, <2>2 DEF IInv
<1>3. CASE Next
  <2>1. PICK k \in Live : \E a : AStep(k, node[k], a) /\ node[k].h < cfg.heights /\ Take(k, a)
    BY <1>1, <1>3, StepIs
  <2>2. PICK a : AStep(k, node[k], a) /\ node[k].h < cfg.heights /\ Take(k, a)
    BY <2>1
  <2>3. \A x \in a.out : x.from = k
    BY <1>1, <2>2, StepTypes DEF TypeInv
  <2>4. Correct' = Correct
    BY <2>2 DEF Take, Correct, Live
  <2>5. ASSUME NEW n \in Correct PROVE NodeInv(n)'
    <3>1. CASE n = k
      BY <1>1, <2>2, <3>1, OwnStep DEF IInv
    <3>2. CASE n # k
      <4>1. cfg' = cfg /\ msgs \subseteq msgs' /\ node'[n] = node[n]
        BY <1>1, <2>2, <3>2, ConfigFacts DEF Take, TypeInv
      <4>2. VotesOf(n)' = VotesOf(n)
        BY <2>2, <2>3, <3>2 DEF Take, VotesOf
      <4> QED BY <1>1, <4>1, <4>2, Bystander DEF IInv
    <3> QED BY <3>1, <3>2
  <2> QED BY <1>1, <2>4, <2>5 DEF IInv
<1> QED BY <1>2, <1>3

\* The inductive invariant: what a correct node voted, locked and decided is
\* in its messages, once a round and backed by quorums.
THEOREM InvHolds == Spec => []IInv
BY InvInit, InvStep, PTL DEF Spec
-----------------------------------------------------------------------------
(* What follows from it *)

\* Whatever rules, timeouts and round skips race for it, a correct node
\* sends one PREVOTE and one PRECOMMIT in a round, for any number of nodes
\* and any powers.
THEOREM OneVote == Spec => []OneVotePerRound
<1>1. ASSUME IInv PROVE OneVotePerRound
  <2> DEFINE votes == {m \in msgs : m.type # "PROPOSAL" /\ m.from \in Correct}
             key == [m \in votes |-> <<m.type, m.from, m.h, m.r>>]
             keys == {<<m.type, m.from, m.h, m.r>> : m \in votes}
  <2>1. IsFiniteSet(votes)
    BY <1>1, FS_Subset DEF IInv, TypeInv
  <2>2. key \in Surjection(votes, keys)
    BY DEF Surjection
  <2>3. ASSUME NEW m \in votes, NEW k \in votes, key[m] = key[k] PROVE m = k
    <3>1. m.type = k.type /\ m.from = k.from /\ m.h = k.h /\ m.r = k.r
      BY <2>3
    <3>2. m \in VotesOf(m.from) /\ k \in VotesOf(m.from) /\ m.from \in Correct /\ NodeInv(m.from)
      BY <1>1, <3>1 DEF IInv, VotesOf
    <3>3. m.value = k.value /\ m.vr = k.vr /\ m.to = k.to
      BY <3>1, <3>2 DEF NodeInv, VotesUnique, VotesPast
    <3>4. m \in Messages /\ k \in Messages
      BY <1>1 DEF IInv, TypeInv
    <3> QED BY <3>1, <3>3, <3>4 DEF Messages
  <2>4. key \in Injection(votes, keys)
    <3> HIDE DEF votes, key, keys
    <3>1. key \in [votes -> keys]
      BY <2>2 DEF Surjection
    <3> QED BY <2>3, <3>1 DEF Injection, IsInjective
  <2>5. Cardinality(keys) = Cardinality(votes)
    BY <2>1, <2>2, <2>4, FS_Surjection
  <2> QED BY <2>5 DEF OneVotePerRound
<1> QED BY <1>1, InvHolds, PTL

\* What a correct node is locked on or proposes again has a quorum of
\* PREVOTEs, in every configuration.
THEOREM LocksAreBacked == Spec => []LockIsBacked
<1>1. ASSUME IInv PROVE LockIsBacked
  <2> SUFFICES ASSUME NEW n \in Correct, node[n].h < cfg.heights
               PROVE  LET s == node[n]
                      IN  /\ s.locked_round >= 0
                               => HasQuorumFor("PREVOTE", s.h, s.locked_round, s.locked_value)
                          /\ s.valid_round >= 0
                               => HasQuorumFor("PREVOTE", s.h, s.valid_round, s.valid_value)
                          /\ s.valid_round >= s.locked_round
                          /\ \A m \in msgs :
                               (m.type = "PRECOMMIT" /\ m.from = n /\ m.h = s.h /\ m.value # Nil)
                               => /\ m.r <= s.locked_round
                                  /\ (m.r = s.locked_round => m.value = s.locked_value)
    BY DEF LockIsBacked
  <2>1. LockOf(n, node[n])
    BY <1>1 DEF IInv, NodeInv, LockHeld
  <2> QED BY <2>1 DEF LockOf, VotesOf
<1> QED BY <1>1, InvHolds, PTL

LEMMA VotersAreLive ==
  ASSUME IInv, NEW type \in {"PREVOTE", "PRECOMMIT"}, NEW h, NEW r, NEW v
  PROVE  /\ VotersFor(type, h, r, v) \subseteq Live
         /\ \A n \in VotersFor(type, h, r, v) : n \in Correct =>
              /\ NodeInv(n)
              /\ \E m \in VotesOf(n) : /\ m \in Messages /\ m.type = type /\ m.h = h
                                       /\ m.r = r /\ m.value = v
BY DEF IInv, TypeInv, VotersFor, VotesOf

\* Every non-empty set of naturals has a least element.
LEMMA LeastNat ==
  ASSUME NEW S \in SUBSET Nat, S # {}
  PROVE  \E x \in S : \A y \in S : x <= y
<1> DEFINE R == {p \in Nat \X Nat : p[1] < p[2]}
<1>1. IsWellFoundedOn(R, Nat)
  BY NatLessThanWellFounded DEF OpToRel
<1> HIDE DEF R
<1>2. PICK x \in S : \A y \in S : ~ (<<y, x>> \in R)
  BY <1>1, WFMin
<1>3. ASSUME NEW y \in S PROVE x <= y
  <2>1. ASSUME y < x PROVE <<y, x>> \in R
    BY <2>1 DEF R
  <2>2. x \in Nat /\ y \in Nat
    OBVIOUS
  <2> QED BY <1>2, <2>1, <2>2
<1> QED BY <1>3

\* A quorum of PRECOMMITs for a value has a quorum of PREVOTEs behind it.
LEMMA ChosenIsBacked ==
  ASSUME IInv, NEW h, NEW r, NEW v, v # Nil, HasQuorumFor("PRECOMMIT", h, r, v)
  PROVE  HasQuorumFor("PREVOTE", h, r, v) /\ h \in Nat /\ r \in Nat
<1>1. cfg \in Configs /\ ValidConfig(cfg) /\ cfg.f \in Nat /\ Live \subseteq Nodes(cfg)
  BY ConfigFacts DEF IInv, TypeInv
<1>2. VotersFor("PRECOMMIT", h, r, v) \subseteq Live
  BY VotersAreLive
<1>3. PowerOf(cfg, VotersFor("PRECOMMIT", h, r, v)) \in Nat
  BY <1>1, <1>2, PowersAreNaturals
<1>4. PowerOf(cfg, VotersFor("PRECOMMIT", h, r, v)) > cfg.f
  BY <1>1, <1>3 DEF HasQuorumFor, Quorum
<1>5. PICK n \in VotersFor("PRECOMMIT", h, r, v) : n \in Correct
  BY <1>1, <1>2, <1>4, SomeCorrect
<1> QED BY <1>5, VotersAreLive DEF NodeInv, PrecommitsBacked, Messages

\* In one round no two values have a quorum of PREVOTEs.
LEMMA OnePolka ==
  ASSUME IInv, Tight, NEW h, NEW r, NEW v, NEW w,
         HasQuorumFor("PREVOTE", h, r, v), HasQuorumFor("PREVOTE", h, r, w)
  PROVE  v = w
<1>1. cfg \in Configs
  BY DEF IInv, TypeInv
<1>2. PICK n \in VotersFor("PREVOTE", h, r, v) \cap VotersFor("PREVOTE", h, r, w) : n \in Correct
  BY <1>1, VotersAreLive, QuorumsMeet DEF HasQuorumFor
<1> QED BY <1>2, VotersAreLive DEF NodeInv, VotesUnique

\* After a quorum of PRECOMMITs for v no other value gets a quorum of
\* PREVOTEs: the first that did would need a quorum of an earlier round.
LEMMA ChosenIsStable ==
  ASSUME IInv, Tight, NEW h, NEW r, NEW v, v # Nil, HasQuorumFor("PRECOMMIT", h, r, v),
         NEW q, NEW w, w # Nil, HasQuorumFor("PREVOTE", h, q, w), q \in Nat, q >= r
  PROVE  w = v
<1>1. cfg \in Configs
  BY DEF IInv, TypeInv
<1>2. HasQuorumFor("PREVOTE", h, r, v) /\ h \in Nat /\ r \in Nat
  BY ChosenIsBacked
<1> DEFINE S == {x \in Nat : x >= r /\ HasQuorumFor("PREVOTE", h, x, w)}
<1>3. SUFFICES ASSUME w # v PROVE FALSE
  OBVIOUS
<1>4. PICK x \in S : \A y \in S : x <= y
  <2>1. q \in S
    OBVIOUS
  <2> HIDE DEF S
  <2>2. S \subseteq Nat
    BY DEF S
  <2> QED BY <2>1, <2>2, LeastNat
<1>5. x # r
  BY <1>2, <1>3, OnePolka
<1>6. r < x
  BY <1>2, <1>5
<1>7. PICK n \in VotersFor("PRECOMMIT", h, r, v) \cap VotersFor("PREVOTE", h, x, w) : n \in Correct
  BY <1>1, VotersAreLive, QuorumsMeet DEF HasQuorumFor
<1>8. PICK m \in VotesOf(n) : m.type = "PREVOTE" /\ m.h = h /\ m.r = x /\ m.value = w
  BY <1>7, VotersAreLive
<1>9. PICK p \in VotesOf(n) : p.type = "PRECOMMIT" /\ p.h = h /\ p.r = r /\ p.value = v
  BY <1>7, VotersAreLive
<1>10. NodeInv(n)
  BY <1>7 DEF IInv
<1>11. PICK vr \in Nat : r <= vr /\ vr < x /\ HasQuorumFor("PREVOTE", h, vr, w)
  BY <1>3, <1>6, <1>8, <1>9, <1>10 DEF NodeInv, PrevotesLoyal
<1>12. vr \in S /\ x \in Nat
  BY <1>2, <1>11
<1> QED BY <1>4, <1>11, <1>12

\* Once a value has a quorum of PRECOMMITs, no other value gets a quorum of
\* PREVOTEs in that round or a later one of the height, if the power of the
\* nodes started is 3f + 1 at most.
THEOREM ChosenValueIsStable == Spec => [](Tight => DecisionIsStable)
<1>1. ASSUME IInv, Tight PROVE DecisionIsStable
  <2> DEFINE sent(type) == {<<m.h, m.r, m.value>> : m \in {y \in msgs : y.type = type}}
             chosen(type) == {x \in sent(type) :
                                x[3] # Nil /\ HasQuorumFor(type, x[1], x[2], x[3])}
  <2> SUFFICES ASSUME NEW d \in chosen("PRECOMMIT"), NEW p \in chosen("PREVOTE"),
                      p[1] = d[1], p[2] >= d[2]
               PROVE  p[3] = d[3]
    BY DEF DecisionIsStable
  <2>1. p[2] \in Nat
    BY <1>1 DEF IInv, TypeInv, Messages
  <2> QED BY <1>1, <2>1, ChosenIsStable
<1> QED BY <1>1, InvHolds, PTL

\* Correct nodes that decide a height decide the same value, whatever
\* messages are delayed or lost and whatever the Byzantine nodes of the
\* simulation send, if the power of the nodes started is 3f + 1 at most.
THEOREM NodesAgree == Spec => [](Tight => Agreement)
<1>1. ASSUME IInv, Tight PROVE Agreement
  <2> SUFFICES ASSUME NEW a \in Correct, NEW b \in Correct,
                      NEW k \in DOMAIN node[a].decisions \cap DOMAIN node[b].decisions
               PROVE  node[a].decisions[k] = node[b].decisions[k]
    BY DEF Agreement
  <2>1. /\ node[a].decisions \in Seq(Values) /\ DecisionsBacked(a)
        /\ node[b].decisions \in Seq(Values) /\ DecisionsBacked(b)
    BY <1>1, ConfigFacts DEF IInv, TypeInv, States, NodeInv
  <2> DEFINE v == node[a].decisions[k]
             w == node[b].decisions[k]
  <2>2. PICK r \in Nat : v # Nil /\ HasQuorumFor("PRECOMMIT", k - 1, r, v)
    <3>1. k \in 1 .. Len(node[a].decisions)
      BY <2>1
    <3> QED BY <2>1, <3>1, Zenon DEF DecisionsBacked
  <2>3. PICK q \in Nat : w # Nil /\ HasQuorumFor("PRECOMMIT", k - 1, q, w)
    <3>1. k \in 1 .. Len(node[b].decisions)
      BY <2>1
    <3> QED BY <2>1, <3>1, Zenon DEF DecisionsBacked
  <2> HIDE DEF v, w
  <2>4. HasQuorumFor("PREVOTE", k - 1, r, v) /\ HasQuorumFor("PREVOTE", k - 1, q, w)
    BY <1>1, <2>2, <2>3, ChosenIsBacked
  <2>5. CASE q >= r
    BY <1>1, <2>2, <2>3, <2>4, <2>5, ChosenIsStable DEF v, w
  <2>6. CASE r >= q
    BY <1>1, <2>2, <2>3, <2>4, <2>6, ChosenIsStable DEF v, w
  <2> QED BY <2>5, <2>6
<1> QED BY <1>1, InvHolds, PTL
=============================================================================
