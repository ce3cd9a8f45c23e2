--------------------------- MODULE HotStuffProofs ---------------------------
(***************************************************************************)
(* Theorems about HotStuff for every N >= 3F + 1, any number of views,     *)
(* commands and faults, and every order of deliveries.                     *)
(*                                                                         *)
(* The argument: a view is proposed once.  A leader needs the NEW-VIEW     *)
(* messages of a quorum, a replica that did not crash sends one for a      *)
(* view, and those that a leader has used are gone, also when the leader   *)
(* crashes and has forgotten its proposal.  So a replica is asked to vote  *)
(* for one node of a view, and two quorums of votes are for the same.      *)
(*                                                                         *)
(* Across views: a quorum that votes to commit a node is locked on it, and *)
(* a member that votes later for another does so only on the word of a     *)
(* certified node which is at least as recent as its lock.  By induction   *)
(* on the length of branches, all that is certified later extends the      *)
(* node.  It needs locks that never move back, and on_commit lets them     *)
(* when a COMMIT is late: CommitsOnTime is the check that it lacks.        *)
(***************************************************************************)
EXTENDS HotStuff, FiniteSetTheorems, NaturalsInduction, TLAPS

Fields == {"view", "tree", "locked_qc", "prepare_qc", "committed", "pending", "votes",
           "new_view", "qcs", "proposed", "high_qc", "decided", "left", "deferred"}

IsState(s) == s = [f \in Fields |-> s[f]]

LeaderOf(c, v) == IF c.fixed >= 0 THEN c.fixed ELSE v % N

\* The history, of which no state remembers all: P has a triple <<v, i, n>> when
\* the node n was proposed to replica i in view v; D are the views that were
\* proposed, and <<v, i>> is in U when the proposal of v used the NEW-VIEW of i.

\* A quorum was asked to vote for n in view v.
Certified(P, v, n) ==
  \E q \in SUBSET Replicas : Cardinality(q) >= Quorum /\ \A i \in q : <<v, i, n>> \in P

VoteOK(P, type, v, n, i) ==
  /\ type \in {"PREPARE", "PRE_COMMIT", "COMMIT"}
  /\ type = "PREPARE" => <<v, i, n>> \in P
  /\ type # "PREPARE" => Certified(P, v, n)

IsNewView(m) == ~ m.vote /\ m.type = "NEW_VIEW"
IsProposal(m) == ~ m.vote /\ m.type = "PREPARE"

\* A message to i
MessageOK(P, i, m) ==
  /\ m.view \in Nat /\ m.from \in Replicas /\ m.vote \in BOOLEAN
  /\ m.vote => VoteOK(P, m.type, m.view, m.node, m.from)
  /\ ~ m.vote => m.type \in {"NEW_VIEW", "SYNC_REQ", "SYNC_RESP"} \cup Phases
  /\ IsProposal(m) => <<m.view, i, m.node>> \in P
  /\ ~ m.vote /\ m.type \in {"PRE_COMMIT", "COMMIT", "DECIDE"}
       => Certified(P, m.qc.view, m.qc.node)

\* The replicas whose NEW-VIEW for v a replica in state s holds
Held(s, v) == {i \in Replicas : \E x \in s.new_view : x[1] = v /\ x[2] = i}

VotesInv(P, s) ==
  /\ \A x \in s.votes : /\ x = <<x[1], x[2]>> /\ x[2] \in Replicas
                        /\ VoteOK(P, x[1].type, x[1].view, x[1].node, x[2])
  /\ \A q \in s.qcs : /\ q = [type |-> q.type, view |-> q.view, node |-> q.node]
                      /\ Certified(P, q.view, q.node)

NewViewInv(c, r, s) ==
  /\ \A x \in s.new_view : /\ x = <<x[1], x[2], x[3]>>
                           /\ x[1] \in Nat \ {0} /\ x[2] \in Replicas
                           /\ LeaderOf(c, x[1]) = r
  /\ \A x, y \in s.new_view : x[1] = y[1] /\ x[2] = y[2] => x = y
  /\ \A h \in s.high_qc : /\ h[1] \in Nat \ {0} /\ LeaderOf(c, h[1]) = r
                          /\ Cardinality(Held(s, h[1])) >= Quorum
  /\ \A v \in s.proposed : v \in Nat \ {0} /\ LeaderOf(c, v) = r

DeferredInv(s) ==
  \E ms : s.deferred \in Seq(ms) /\ \A m \in ms : m.view \in Nat /\ m.from \in Replicas

\* What a state s of replica r is like
LocalInv(c, P, r, s) ==
  /\ IsState(s) /\ s.view \in Nat
  /\ VotesInv(P, s) /\ NewViewInv(c, r, s) /\ DeferredInv(s)

\* What r sends on the way from s to t: p, a NEW-VIEW once, a proposal to a
\* replica once
SendOK(P, r, s, t, p) ==
  /\ p.dst \in Replicas /\ p.msg.from = r
  /\ p.msg.view \in Nat /\ p.msg.vote \in BOOLEAN
  /\ IsProposal(p.msg) => p.msg.view \in t.proposed \ s.proposed
  /\ ~ IsProposal(p.msg) => MessageOK(P, p.dst, p.msg)
  /\ IsNewView(p.msg) => p.msg.view \in t.left \ s.left
SameNewView(p, q) == IsNewView(p.msg) /\ IsNewView(q.msg) /\ p.msg.view = q.msg.view
SameProposal(p, q) ==
  IsProposal(p.msg) /\ IsProposal(q.msg) /\ p.msg.view = q.msg.view /\ p.dst = q.dst

OutOK(P, r, s, t, out) ==
  /\ \A p \in out : SendOK(P, r, s, t, p)
  /\ \A p, q \in out : SameNewView(p, q) => p = q
  /\ \A p, q \in out : SameProposal(p, q) => p.msg.node = q.msg.node

Step(c, P, r, s, t, out) ==
  /\ LocalInv(c, P, r, t)
  /\ s.left \subseteq t.left /\ s.proposed \subseteq t.proposed
  /\ \A v \in t.proposed \ s.proposed : Cardinality(Held(t, v)) >= Quorum
  /\ OutOK(P, r, s, t, out)

\* Nothing is proposed and no NEW-VIEW is received.
Quiet(s, t) == t.new_view = s.new_view /\ t.proposed = s.proposed

QuietStep(c, P, r, s, x) == Step(c, P, r, s, x.state, x.out) /\ Quiet(s, x.state)
-----------------------------------------------------------------------------
(* Finite sets of replicas, quorums, naturals *)

LEMMA Replicated ==
  /\ N \in Nat /\ F \in Nat /\ N >= 3 * F + 1 /\ Quorum \in Nat /\ Quorum = N - F
  /\ IsFiniteSet(Replicas) /\ Cardinality(Replicas) = N
<1>1. N \in Nat /\ F \in Nat /\ N >= 3 * F + 1
  BY HotStuffAssumption
<1>2. IsFiniteSet(0 .. N - 1) /\ Cardinality(0 .. N - 1) = N
  BY <1>1, FS_Interval
<1> QED BY <1>1, <1>2 DEF Replicas, Quorum

LEMMA SubsetsCount ==
  ASSUME NEW q \in SUBSET Replicas
  PROVE  IsFiniteSet(q) /\ Cardinality(q) \in Nat /\ Cardinality(q) <= N
BY Replicated, FS_Subset, FS_CardinalityType

\* Two quorums have more than F replicas in common.
LEMMA QuorumsMeet ==
  ASSUME NEW q \in SUBSET Replicas, NEW k \in SUBSET Replicas,
         Cardinality(q) >= Quorum, Cardinality(k) >= Quorum
  PROVE  Cardinality(q \cap k) > F
<1>1. /\ Cardinality(q \cup k) = Cardinality(q) + Cardinality(k) - Cardinality(q \cap k)
  BY SubsetsCount, FS_Union
<1>2. /\ Cardinality(q \cup k) \in Nat /\ Cardinality(q \cup k) <= N
      /\ Cardinality(q) \in Nat /\ Cardinality(k) \in Nat /\ Cardinality(q \cap k) \in Nat
  BY SubsetsCount
<1> QED BY <1>1, <1>2, Replicated

LEMMA SomeoneIn ==
  ASSUME NEW q \in SUBSET Replicas, Cardinality(q) > F
  PROVE  \E i \in q : TRUE
<1>1. ASSUME q = {} PROVE FALSE
  BY <1>1, FS_EmptySet, Replicated
<1> QED BY <1>1

\* Every non-empty set of naturals has a least element.
LEMMA LeastNat ==
  ASSUME NEW S \in SUBSET Nat, S # {}
  PROVE  \E x \in S : \A y \in S : x <= y
<1> DEFINE R == {p \in Nat \X Nat : p[1] < p[2]}
<1>1. IsWellFoundedOn(R, Nat)
  BY NatLessThanWellFounded DEF OpToRel
<1> HIDE DEF R
<1>2. PICK x \in S : \A y \in S : ~ (<<y, x>> \in R)
  BY <1>1, WFMin
<1>3. ASSUME NEW y \in S PROVE x <= y
  <2>1. ASSUME y < x PROVE <<y, x>> \in R
    BY <2>1 DEF R
  <2>2. x \in Nat /\ y \in Nat
    OBVIOUS
  <2> QED BY <1>2, <2>1, <2>2
<1> QED BY <1>3

\* A node that got a quorum in a view is the only one.
LEMMA CertifiedOnce ==
  ASSUME NEW P, \A v, i, m, n : <<v, i, m>> \in P /\ <<v, i, n>> \in P => m = n,
         NEW v, NEW m, NEW n, Certified(P, v, m), Certified(P, v, n)
  PROVE  m = n
<1>1. PICK q \in SUBSET Replicas : Cardinality(q) >= Quorum /\ \A i \in q : <<v, i, m>> \in P
  BY DEF Certified
<1>2. PICK k \in SUBSET Replicas : Cardinality(k) >= Quorum /\ \A i \in k : <<v, i, n>> \in P
  BY DEF Certified
<1>3. PICK i \in q \cap k : TRUE
  BY <1>1, <1>2, QuorumsMeet, SomeoneIn
<1> QED BY <1>1, <1>2, <1>3

LEMMA LeaderIsReplica ==
  ASSUME NEW c \in Configs, NEW v \in Nat PROVE LeaderOf(c, v) \in Replicas
<1>1. c.fixed \in Replicas \cup {-1}
  BY HotStuffAssumption DEF ValidConfig
<1>2. v % N \in 0 .. N - 1
  BY Replicated
<1> QED BY <1>1, <1>2 DEF LeaderOf, Replicas

LEMMA LeaderIs == \A v : Leader(v) = LeaderOf(cfg, v)
BY DEF Leader, LeaderOf
-----------------------------------------------------------------------------
(* The history grows *)

LEMMA VotesStay ==
  ASSUME NEW P, NEW T, P \subseteq T
  PROVE  /\ \A v, n : Certified(P, v, n) => Certified(T, v, n)
         /\ \A type, v, n, i : VoteOK(P, type, v, n, i) => VoteOK(T, type, v, n, i)
         /\ \A i, m : MessageOK(P, i, m) => MessageOK(T, i, m)
         /\ \A s : VotesInv(P, s) => VotesInv(T, s)
<1>1. \A v, n : Certified(P, v, n) => Certified(T, v, n)
  BY DEF Certified
<1>2. \A type, v, n, i : VoteOK(P, type, v, n, i) => VoteOK(T, type, v, n, i)
  BY <1>1 DEF VoteOK
<1>3. \A i, m : MessageOK(P, i, m) => MessageOK(T, i, m)
  BY <1>1, <1>2 DEF MessageOK
<1>4. \A s : VotesInv(P, s) => VotesInv(T, s)
  BY <1>1, <1>2 DEF VotesInv
<1> QED BY <1>1, <1>2, <1>3, <1>4

LEMMA LocalStays ==
  ASSUME NEW P, NEW T, P \subseteq T, NEW c, NEW r, NEW s, LocalInv(c, P, r, s)
  PROVE  LocalInv(c, T, r, s)
BY VotesStay DEF LocalInv
-----------------------------------------------------------------------------
(* Steps of one replica *)

Tracked == {"votes", "new_view", "qcs", "proposed", "high_qc", "deferred"}

\* A change of other fields
LEMMA SameInv ==
  ASSUME NEW c, NEW P, NEW r, NEW s, NEW t, LocalInv(c, P, r, s), IsState(t), t.view \in Nat,
         \A f \in Tracked : t[f] = s[f]
  PROVE  LocalInv(c, P, r, t) /\ Quiet(s, t)
<1>1. /\ t.votes = s.votes /\ t.new_view = s.new_view /\ t.qcs = s.qcs
      /\ t.proposed = s.proposed /\ t.high_qc = s.high_qc /\ t.deferred = s.deferred
  BY DEF Tracked
<1>2. \A v : Held(t, v) = Held(s, v)
  BY <1>1 DEF Held
<1>3. VotesInv(P, t) /\ DeferredInv(t)
  BY <1>1 DEF LocalInv, VotesInv, DeferredInv
<1>4. NewViewInv(c, r, t)
  BY <1>1, <1>2 DEF LocalInv, NewViewInv
<1> QED BY <1>1, <1>3, <1>4 DEF LocalInv, Quiet

LEMMA SameStep ==
  ASSUME NEW c, NEW P, NEW r, NEW s, NEW t, LocalInv(c, P, r, t), Quiet(s, t),
         s.left \subseteq t.left
  PROVE  QuietStep(c, P, r, s, Nothing(t))
<1>1. OutOK(P, r, s, t, {})
  BY DEF OutOK
<1>2. Nothing(t).state = t /\ Nothing(t).out = {}
  BY DEF Nothing, Does
<1> QED BY <1>1, <1>2 DEF QuietStep, Step, Quiet

LEMMA NothingStep ==
  ASSUME NEW c, NEW P, NEW r, NEW s, LocalInv(c, P, r, s)
  PROVE  QuietStep(c, P, r, s, Nothing(s))
BY SameStep DEF Quiet

\* ... and messages that are neither proposals nor NEW-VIEWs
LEMMA SendStep ==
  ASSUME NEW c, NEW P, NEW r, NEW s, NEW t, QuietStep(c, P, r, s, Nothing(t)),
         NEW out,
         \A p \in out : /\ p.dst \in Replicas /\ p.msg.from = r /\ MessageOK(P, p.dst, p.msg)
                        /\ ~ IsProposal(p.msg) /\ ~ IsNewView(p.msg)
  PROVE  QuietStep(c, P, r, s, Does(t, out))
<1>1. LocalInv(c, P, r, t) /\ Quiet(s, t) /\ s.left \subseteq t.left
  BY DEF QuietStep, Step, Nothing, Does
<1>2. OutOK(P, r, s, t, out)
  BY DEF OutOK, SendOK, SameNewView, SameProposal, MessageOK
<1>3. Does(t, out).state = t /\ Does(t, out).out = out
  BY DEF Does
<1> QED BY <1>1, <1>2, <1>3 DEF QuietStep, Step, Quiet

\* A step without proposal and then another one
LEMMA Then ==
  ASSUME NEW c, NEW P, NEW r, NEW s, NEW t, NEW u, NEW a, NEW b,
         Step(c, P, r, s, t, a), t.proposed = s.proposed, Step(c, P, r, t, u, b)
  PROVE  Step(c, P, r, s, u, a \cup b)
<1>1. OutOK(P, r, s, u, a \cup b)
  <2>1. /\ s.proposed = t.proposed /\ s.left \subseteq t.left /\ t.left \subseteq u.left
        /\ OutOK(P, r, s, t, a) /\ OutOK(P, r, t, u, b)
    BY DEF Step
  <2>2. \A p \in a : /\ ~ IsProposal(p.msg)
                     /\ IsNewView(p.msg) => p.msg.view \in t.left
                     /\ SendOK(P, r, s, u, p)
    BY <2>1 DEF OutOK, SendOK
  <2>3. \A p \in b : /\ IsNewView(p.msg) => p.msg.view \notin t.left
                     /\ SendOK(P, r, s, u, p)
    BY <2>1 DEF OutOK, SendOK
  <2>5. ASSUME NEW p \in a \cup b, NEW q \in a \cup b, SameNewView(p, q) PROVE p = q
    BY <2>1, <2>2, <2>3, <2>5 DEF OutOK, SameNewView
  <2>6. ASSUME NEW p \in a \cup b, NEW q \in a \cup b, SameProposal(p, q)
        PROVE  p.msg.node = q.msg.node
    BY <2>1, <2>2, <2>6 DEF OutOK, SameProposal
  <2> QED BY <2>2, <2>3, <2>5, <2>6 DEF OutOK
<1> QED BY <1>1 DEF Step

LEMMA AdvanceStep ==
  ASSUME cfg \in Configs, NEW P, NEW r \in Replicas, NEW s, LocalInv(cfg, P, r, s), NEW v \in Nat
  PROVE  QuietStep(cfg, P, r, s, AdvanceFrom(r, s, v))
<1>1. CASE v \in s.left
  BY <1>1, NothingStep DEF AdvanceFrom
<1>2. CASE v \notin s.left
  <2> DEFINE t == [s EXCEPT !.left = @ \cup {v}, !.view = v + 1]
             m == Message("NEW_VIEW", v, r, Genesis, s.prepare_qc)
             out == Send(Leader(v + 1), m)
  <2>1. AdvanceFrom(r, s, v) = Does(t, out)
    BY <1>2 DEF AdvanceFrom
  <2>2. IsState(s) /\ s.view \in Nat
    BY DEF LocalInv
  <2>3. IsState(t) /\ t.view \in Nat /\ t.left = s.left \cup {v}
        /\ \A f \in Tracked : t[f] = s[f]
    <3>1. IsState(t)
      BY <2>2 DEF IsState, Fields
    <3>2. t.view = v + 1 /\ t.left = s.left \cup {v}
      BY <2>2 DEF IsState, Fields
    <3>3. \A f \in Tracked : t[f] = s[f]
      BY <2>2 DEF IsState, Fields, Tracked
    <3> QED BY <3>1, <3>2, <3>3
  <2>5. Leader(v + 1) \in Replicas
    BY LeaderIs, LeaderIsReplica
  <2>6. out = {[dst |-> Leader(v + 1), msg |-> m]}
    BY DEF Send
  <2>7. /\ m.type = "NEW_VIEW" /\ m.vote = FALSE /\ m.view = v /\ m.from = r
    BY DEF Message
  <2>8. MessageOK(P, Leader(v + 1), m) /\ ~ IsProposal(m)
    BY <2>7 DEF MessageOK, IsProposal, Phases
  <2> HIDE DEF t, m, out
  <2>4. LocalInv(cfg, P, r, t) /\ Quiet(s, t)
    BY <2>3, SameInv
  <2>9. OutOK(P, r, s, t, out)
    <3>1. ASSUME NEW p \in out PROVE p.dst = Leader(v + 1) /\ p.msg = m
      BY <2>6, <3>1
    <3>2. \A p \in out : SendOK(P, r, s, t, p)
      BY <1>2, <2>3, <2>5, <2>7, <2>8, <3>1 DEF SendOK
    <3>3. \A p, q \in out : p = q
      BY <2>6
    <3> QED BY <3>2, <3>3 DEF OutOK
  <2>10. Does(t, out).state = t /\ Does(t, out).out = out
    BY DEF Does
  <2> QED BY <2>1, <2>3, <2>4, <2>9, <2>10 DEF QuietStep, Step, Quiet
<1> QED BY <1>1, <1>2

LEMMA SyncViewStep ==
  ASSUME NEW c, NEW P, NEW r, NEW s, LocalInv(c, P, r, s), NEW v \in Nat
  PROVE  QuietStep(c, P, r, s, Nothing(SyncView(s, v)))
<1> DEFINE t == SyncView(s, v)
<1>1. IsState(s) /\ s.view \in Nat
  BY DEF LocalInv
<1>2. IsState(t) /\ t.view \in Nat /\ s.left \subseteq t.left /\ \A f \in Tracked : t[f] = s[f]
  BY <1>1 DEF IsState, Fields, Tracked, SyncView
<1> HIDE DEF t
<1>3. LocalInv(c, P, r, t) /\ Quiet(s, t)
  BY <1>2, SameInv
<1> QED BY <1>2, <1>3, SameStep DEF t

\* A vote, and the request for a branch
LEMMA SendVoteStep ==
  ASSUME cfg \in Configs, NEW P, NEW r \in Replicas, NEW s, NEW t,
         QuietStep(cfg, P, r, s, Nothing(t)),
         NEW m, m.view \in Nat, NEW n, VoteOK(P, m.type, m.view, n, r)
  PROVE  QuietStep(cfg, P, r, s, SendVote(r, t, m, n))
<1> DEFINE b == Vote(m.type, m.view, r, n)
           p == [dst |-> Leader(m.view), msg |-> b]
<1>1. SendVote(r, t, m, n) = Does(t, {p})
  BY DEF Send, SendVote
<1>2. b.type = m.type /\ b.vote = TRUE /\ b.view = m.view /\ b.from = r /\ b.node = n
  BY DEF Vote
<1>3. Leader(m.view) \in Replicas
  BY LeaderIs, LeaderIsReplica
<1>4. MessageOK(P, Leader(m.view), b) /\ ~ IsProposal(b) /\ ~ IsNewView(b)
  BY <1>2 DEF MessageOK, IsProposal, IsNewView
<1>5. p.dst = Leader(m.view) /\ p.msg = b
  OBVIOUS
<1> HIDE DEF b, p
<1> QED BY <1>1, <1>2, <1>3, <1>4, <1>5, SendStep

LEMMA RequestSyncStep ==
  ASSUME NEW c, NEW P, NEW r \in Replicas, NEW s, NEW t,
         QuietStep(c, P, r, s, Nothing(t)), NEW n, NEW k \in Replicas
  PROVE  QuietStep(c, P, r, s, RequestSync(r, t, n, k))
<1> DEFINE b == Message("SYNC_REQ", t.view, r, n, GenesisQC)
           p == [dst |-> k, msg |-> b]
<1>1. RequestSync(r, t, n, k) = Does(t, {p})
  BY DEF Send, RequestSync
<1>2. b.type = "SYNC_REQ" /\ b.vote = FALSE /\ b.view = t.view /\ b.from = r
  BY DEF Message
<1>3. t.view \in Nat
  BY DEF QuietStep, Step, LocalInv, Nothing, Does
<1>4. MessageOK(P, k, b) /\ ~ IsProposal(b) /\ ~ IsNewView(b)
  BY <1>2, <1>3 DEF MessageOK, IsProposal, IsNewView
<1>5. p.dst = k /\ p.msg = b
  OBVIOUS
<1> HIDE DEF b, p
<1> QED BY <1>1, <1>2, <1>4, <1>5, SendStep

LEMMA PrepareStep ==
  ASSUME cfg \in Configs, NEW P, NEW r \in Replicas, NEW s, LocalInv(cfg, P, r, s),
         NEW m, MessageOK(P, r, m), IsProposal(m)
  PROVE  QuietStep(cfg, P, r, s, OnPrepare(r, s, m))
<1> DEFINE t == [s EXCEPT !.tree = @ \cup {m.node}, !.view = Max({@, m.view})]
<1>1. IsState(s) /\ s.view \in Nat /\ m.view \in Nat /\ m.from \in Replicas
  BY DEF LocalInv, MessageOK
<1>2. Max({s.view, m.view}) \in Nat
  <2>1. \E x \in {s.view, m.view} : \A y \in {s.view, m.view} : x >= y
    BY <1>1
  <2> QED BY <1>1, <2>1 DEF Max
<1>3. IsState(t) /\ t.view \in Nat /\ t.left = s.left /\ \A f \in Tracked : t[f] = s[f]
  BY <1>1, <1>2 DEF IsState, Fields, Tracked
<1>4. VoteOK(P, m.type, m.view, m.node, r)
  BY DEF VoteOK, MessageOK, IsProposal
<1>5. /\ QuietStep(cfg, P, r, s, Nothing(s))
      /\ QuietStep(cfg, P, r, s, Nothing(t))
      /\ QuietStep(cfg, P, r, s, RequestSync(r, t, m.qc.node, m.from))
      /\ QuietStep(cfg, P, r, s, SendVote(r, t, m, m.node))
  <2>1. QuietStep(cfg, P, r, s, Nothing(s))
    BY NothingStep
  <2> HIDE DEF t
  <2>2. QuietStep(cfg, P, r, s, Nothing(t))
    BY <1>3, SameInv, SameStep
  <2>3. QuietStep(cfg, P, r, s, RequestSync(r, t, m.qc.node, m.from))
    BY <1>1, <2>2, RequestSyncStep
  <2>4. QuietStep(cfg, P, r, s, SendVote(r, t, m, m.node))
    BY <1>1, <1>4, <2>2, SendVoteStep
  <2> QED BY <2>1, <2>2, <2>3, <2>4
<1>6. OnPrepare(r, s, m) \in {Nothing(s), Nothing(t), RequestSync(r, t, m.qc.node, m.from),
                              SendVote(r, t, m, m.node)}
  BY DEF OnPrepare
<1> QED BY <1>5, <1>6

LEMMA PreCommitStep ==
  ASSUME cfg \in Configs, NEW P, NEW r \in Replicas, NEW s, LocalInv(cfg, P, r, s),
         NEW m, MessageOK(P, r, m), ~ m.vote, m.type = "PRE_COMMIT"
  PROVE  QuietStep(cfg, P, r, s, OnPreCommit(r, s, m))
<1> DEFINE t == [s EXCEPT !.prepare_qc = m.qc]
<1>1. IsState(s) /\ s.view \in Nat /\ m.view \in Nat
  BY DEF LocalInv, MessageOK
<1>2. IsState(t) /\ t.view \in Nat /\ t.left = s.left /\ \A f \in Tracked : t[f] = s[f]
  BY <1>1 DEF IsState, Fields, Tracked
<1>3. QuietStep(cfg, P, r, s, Nothing(s))
  BY NothingStep
<1>4. m.qc.view = m.view => VoteOK(P, m.type, m.view, m.qc.node, r)
  BY DEF VoteOK, MessageOK
<1>5. OnPreCommit(r, s, m) \in {Nothing(s), Nothing(t), SendVote(r, t, m, m.qc.node)}
      /\ (m.qc.view # m.view => OnPreCommit(r, s, m) = Nothing(s))
  BY DEF OnPreCommit, MatchingQC
<1> HIDE DEF t
<1>6. QuietStep(cfg, P, r, s, Nothing(t))
  BY <1>2, SameInv, SameStep
<1>7. m.qc.view = m.view => QuietStep(cfg, P, r, s, SendVote(r, t, m, m.qc.node))
  BY <1>1, <1>4, <1>6, SendVoteStep
<1> QED BY <1>3, <1>5, <1>6, <1>7

LEMMA CommitStep ==
  ASSUME cfg \in Configs, NEW P, NEW r \in Replicas, NEW s, LocalInv(cfg, P, r, s),
         NEW m, MessageOK(P, r, m), ~ m.vote, m.type = "COMMIT"
  PROVE  QuietStep(cfg, P, r, s, OnCommit(r, s, m))
<1> DEFINE t == [s EXCEPT !.locked_qc = m.qc]
<1>1. IsState(s) /\ s.view \in Nat /\ m.view \in Nat
  BY DEF LocalInv, MessageOK
<1>2. IsState(t) /\ t.view \in Nat /\ t.left = s.left /\ \A f \in Tracked : t[f] = s[f]
  BY <1>1 DEF IsState, Fields, Tracked
<1>3. QuietStep(cfg, P, r, s, Nothing(s))
  BY NothingStep
<1>4. m.qc.view = m.view => VoteOK(P, m.type, m.view, m.qc.node, r)
  BY DEF VoteOK, MessageOK
<1>5. OnCommit(r, s, m) \in {Nothing(s), SendVote(r, t, m, m.qc.node)}
      /\ (m.qc.view # m.view => OnCommit(r, s, m) = Nothing(s))
  BY DEF OnCommit, MatchingQC
<1> HIDE DEF t
<1>6. QuietStep(cfg, P, r, s, Nothing(t))
  BY <1>2, SameInv, SameStep
<1>7. m.qc.view = m.view => QuietStep(cfg, P, r, s, SendVote(r, t, m, m.qc.node))
  BY <1>1, <1>4, <1>6, SendVoteStep
<1> QED BY <1>3, <1>5, <1>7

LEMMA DecidedStep ==
  ASSUME cfg \in Configs, NEW P, NEW r \in Replicas, NEW s, LocalInv(cfg, P, r, s),
         NEW m, m.view \in Nat
  PROVE  QuietStep(cfg, P, r, s, Decided(r, s, m))
<1> DEFINE t == Execute(s, m.qc.node)
           u == [t EXCEPT !.decided = @ \cup {m.view}]
<1>1. IsState(s) /\ s.view \in Nat
  BY DEF LocalInv
<1>2. PICK log : t = [s EXCEPT !.committed = log]
  BY DEF Execute
<1>3. IsState(t) /\ t.view \in Nat /\ t.left = s.left /\ \A f \in Tracked : t[f] = s[f]
  BY <1>1, <1>2 DEF IsState, Fields, Tracked
<1>4. Decided(r, s, m) \in {Nothing(t), AdvanceFrom(r, u, m.view)}
  BY DEF Decided
<1> HIDE DEF t
<1>5. IsState(u) /\ u.view \in Nat /\ u.left = s.left /\ \A f \in Tracked : u[f] = s[f]
  BY <1>3 DEF IsState, Fields, Tracked
<1> HIDE DEF u
<1>6. QuietStep(cfg, P, r, s, Nothing(t))
  BY <1>3, SameInv, SameStep
<1>7. LocalInv(cfg, P, r, u) /\ QuietStep(cfg, P, r, s, Nothing(u))
  BY <1>5, SameInv, SameStep
<1>8. QuietStep(cfg, P, r, u, AdvanceFrom(r, u, m.view))
  BY <1>7, AdvanceStep
<1>9. QuietStep(cfg, P, r, s, AdvanceFrom(r, u, m.view))
  <2> DEFINE x == AdvanceFrom(r, u, m.view)
  <2>1. Step(cfg, P, r, s, u, {}) /\ Quiet(s, u)
    BY <1>7 DEF QuietStep, Nothing, Does
  <2> HIDE DEF x
  <2>2. Step(cfg, P, r, u, x.state, x.out) /\ Quiet(u, x.state)
    BY <1>8 DEF QuietStep, x
  <2>3. Step(cfg, P, r, s, x.state, {} \cup x.out) /\ Quiet(s, x.state)
    BY <2>1, <2>2, Then DEF Quiet
  <2>4. {} \cup x.out = x.out
    OBVIOUS
  <2> QED BY <2>3, <2>4 DEF QuietStep, x
<1> QED BY <1>4, <1>6, <1>9

LEMMA DecideStep ==
  ASSUME cfg \in Configs, NEW P, NEW r \in Replicas, NEW s, LocalInv(cfg, P, r, s),
         NEW m, m.view \in Nat, m.from \in Replicas
  PROVE  QuietStep(cfg, P, r, s, OnDecide(r, s, m))
<1> DEFINE t == [s EXCEPT !.deferred = Append(@, m)]
<1>1. IsState(s) /\ s.view \in Nat /\ VotesInv(P, s) /\ NewViewInv(cfg, r, s) /\ DeferredInv(s)
  BY DEF LocalInv
<1>2. IsState(t) /\ t.deferred = Append(s.deferred, m)
      /\ \A f \in Fields \ {"deferred"} : t[f] = s[f]
  BY <1>1 DEF IsState, Fields
<1>3. PICK n : OnDecide(r, s, m) \in {Nothing(s), Decided(r, s, m), RequestSync(r, t, n, m.from)}
  BY DEF OnDecide
<1> HIDE DEF t
<1>4. /\ t.view = s.view /\ t.votes = s.votes /\ t.new_view = s.new_view /\ t.qcs = s.qcs
      /\ t.proposed = s.proposed /\ t.high_qc = s.high_qc /\ t.left = s.left
  BY <1>2 DEF Fields
<1>5. DeferredInv(t)
  <2>1. PICK ms : s.deferred \in Seq(ms) /\ \A k \in ms : k.view \in Nat /\ k.from \in Replicas
    BY <1>1 DEF DeferredInv
  <2>2. s.deferred \in Seq(ms \cup {m})
    BY <2>1
  <2>3. t.deferred \in Seq(ms \cup {m})
    BY <1>2, <2>2
  <2> QED BY <2>1, <2>3 DEF DeferredInv
<1>6. VotesInv(P, t)
  BY <1>1, <1>4 DEF VotesInv
<1>7. \A v : Held(t, v) = Held(s, v)
  BY <1>4 DEF Held
<1>8. NewViewInv(cfg, r, t)
  BY <1>1, <1>4, <1>7 DEF NewViewInv
<1>9. LocalInv(cfg, P, r, t) /\ Quiet(s, t)
  BY <1>1, <1>2, <1>4, <1>5, <1>6, <1>8 DEF LocalInv, Quiet
<1>10. QuietStep(cfg, P, r, s, Nothing(t))
  BY <1>4, <1>9, SameStep
<1>11. QuietStep(cfg, P, r, s, RequestSync(r, t, n, m.from))
  BY <1>10, RequestSyncStep
<1> QED BY <1>3, <1>11, NothingStep, DecidedStep

LEMMA SyncReqStep ==
  ASSUME cfg \in Configs, NEW P, NEW r \in Replicas, NEW s, LocalInv(cfg, P, r, s),
         NEW m, m.from \in Replicas
  PROVE  QuietStep(cfg, P, r, s, OnSyncReq(r, s, m))
<1>1. QuietStep(cfg, P, r, s, Nothing(s)) /\ s.view \in Nat
  BY NothingStep DEF LocalInv
<1>2. PICK held : OnSyncReq(r, s, m) \in {Nothing(s), Does(s, Send(m.from, Branch(s.view, r, held)))}
  BY DEF OnSyncReq
<1> DEFINE b == Branch(s.view, r, held)
           p == [dst |-> m.from, msg |-> b]
<1>3. Send(m.from, Branch(s.view, r, held)) = {p} /\ p.dst = m.from /\ p.msg = b
  BY DEF Send
<1>4. b.type = "SYNC_RESP" /\ b.vote = FALSE /\ b.view = s.view /\ b.from = r
  BY DEF Branch
<1>5. MessageOK(P, m.from, b) /\ ~ IsProposal(b) /\ ~ IsNewView(b)
  BY <1>1, <1>4 DEF MessageOK, IsProposal, IsNewView
<1> HIDE DEF b, p
<1>6. QuietStep(cfg, P, r, s, Does(s, {p}))
  BY <1>1, <1>3, <1>4, <1>5, SendStep
<1> QED BY <1>1, <1>2, <1>3, <1>6

\* What a replica does after the kth of the decisions that waited
TakenUp(r, y, m) == Does(OnDecide(r, y.state, m).state, y.out \cup OnDecide(r, y.state, m).out)
WithBranch(s, nodes) == [s EXCEPT !.tree = @ \cup nodes, !.deferred = <<>>]

\* The decisions that waited are taken up one after the other.
LEMMA Replayed ==
  ASSUME NEW r, NEW s, NEW m, Len(s.deferred) \in Nat
  PROVE  \E g : /\ OnSyncResp(r, s, m) = g[Len(s.deferred)]
               /\ g[0] = Nothing(WithBranch(s, m.nodes))
               /\ \A k \in 1 .. Len(s.deferred) : g[k] = TakenUp(r, g[k - 1], s.deferred[k])
<1> DEFINE n == Len(s.deferred)
           t == WithBranch(s, m.nodes)
           After(y, k) == TakenUp(r, y, s.deferred[k])
           Body(g, k) == IF k = 0 THEN Nothing(t) ELSE After(g[k - 1], k)
           Run(g, j) == g = [k \in 0 .. j |-> Body(g, k)]
<1>1. n \in Nat
  OBVIOUS
<1>2. OnSyncResp(r, s, m) = (CHOOSE g : Run(g, n))[n]
  BY DEF OnSyncResp, TakenUp, WithBranch
<1> HIDE DEF t, After
<1>3. \A j \in Nat : \E g : Run(g, j)
  <2> DEFINE bad == {j \in Nat : ~ \E g : Run(g, j)}
  <2> SUFFICES ASSUME bad # {} PROVE FALSE
    OBVIOUS
  <2>1. PICK j \in bad : \A k \in bad : j <= k
    BY LeastNat
  <2>2. j # 0
    <3> DEFINE g == [k \in 0 .. 0 |-> Nothing(t)]
    <3>1. Run(g, 0)
      OBVIOUS
    <3> QED BY <3>1
  <2>3. PICK g : Run(g, j - 1)
    BY <2>1, <2>2
  <2> DEFINE h == [k \in 0 .. j |-> IF k = j THEN After(g[j - 1], j) ELSE g[k]]
  <2>4. /\ j \in Nat \ {0} /\ \A k \in 0 .. j - 1 : g[k] = Body(g, k) /\ h[k] = g[k]
        /\ h[j] = After(g[j - 1], j) /\ h = [k \in 0 .. j |-> h[k]]
    BY <2>2, <2>3
  <2> HIDE DEF h
  <2>5. \A k \in 0 .. j : h[k] = Body(h, k)
    <3>1. h[0] = Body(h, 0)
      <4>1. 0 \in 0 .. j - 1
        BY <2>4
      <4>2. h[0] = g[0] /\ g[0] = Nothing(t)
        BY <2>4, <4>1
      <4> QED BY <4>2
    <3>2. ASSUME NEW k \in 1 .. j - 1 PROVE h[k] = Body(h, k)
      <4>1. k \in 0 .. j - 1 /\ k - 1 \in 0 .. j - 1 /\ k # 0
        BY <2>4
      <4>2. h[k] = g[k] /\ h[k - 1] = g[k - 1] /\ g[k] = After(g[k - 1], k)
        BY <2>4, <4>1
      <4> QED BY <4>1, <4>2
    <3>3. h[j] = Body(h, j)
      <4>1. j - 1 \in 0 .. j - 1 /\ j # 0
        BY <2>4
      <4> QED BY <2>4, <4>1
    <3>4. ASSUME NEW k \in 0 .. j PROVE k = 0 \/ k \in 1 .. j - 1 \/ k = j
      BY <2>4
    <3> QED BY <3>1, <3>2, <3>3, <3>4
  <2>7. Run(h, j)
    BY <2>4, <2>5
  <2> QED BY <2>7
<1>4. PICK g : Run(g, n) /\ OnSyncResp(r, s, m) = g[n]
  <2> HIDE DEF Run
  <2> QED BY <1>1, <1>2, <1>3
<1>5. \A k \in 0 .. n : g[k] = Body(g, k)
  BY <1>4
<1>6. g[0] = Nothing(t) /\ \A k \in 1 .. n : g[k] = After(g[k - 1], k)
  BY <1>1, <1>5
<1> QED BY <1>4, <1>6 DEF t, After

LEMMA SyncRespStep ==
  ASSUME cfg \in Configs, NEW P, NEW r \in Replicas, NEW s, LocalInv(cfg, P, r, s), NEW m
  PROVE  QuietStep(cfg, P, r, s, OnSyncResp(r, s, m))
<1> DEFINE n == Len(s.deferred)
           t == WithBranch(s, m.nodes)
           After(y, k) == TakenUp(r, y, s.deferred[k])
<1>1. PICK ms : s.deferred \in Seq(ms) /\ \A k \in ms : k.view \in Nat /\ k.from \in Replicas
  BY DEF LocalInv, DeferredInv
<1>2. n \in Nat /\ \A k \in 1 .. n : s.deferred[k].view \in Nat /\ s.deferred[k].from \in Replicas
  BY <1>1
<1>3. QuietStep(cfg, P, r, s, Nothing(t))
  <2>1. IsState(s) /\ s.view \in Nat /\ VotesInv(P, s) /\ NewViewInv(cfg, r, s)
    BY DEF LocalInv
  <2>2. IsState(t) /\ t.deferred = <<>> /\ \A f \in Fields \ {"deferred", "tree"} : t[f] = s[f]
    BY <2>1 DEF IsState, Fields, WithBranch
  <2> HIDE DEF t
  <2>3. /\ t.view = s.view /\ t.votes = s.votes /\ t.new_view = s.new_view /\ t.qcs = s.qcs
        /\ t.proposed = s.proposed /\ t.high_qc = s.high_qc /\ t.left = s.left
    BY <2>2 DEF Fields
  <2>4. DeferredInv(t)
    <3>1. t.deferred \in Seq({})
      BY <2>2
    <3> QED BY <3>1 DEF DeferredInv
  <2>5. VotesInv(P, t)
    BY <2>1, <2>3 DEF VotesInv
  <2>6. \A v : Held(t, v) = Held(s, v)
    BY <2>3 DEF Held
  <2>7. NewViewInv(cfg, r, t)
    BY <2>1, <2>3, <2>6 DEF NewViewInv
  <2>8. LocalInv(cfg, P, r, t) /\ Quiet(s, t)
    BY <2>1, <2>2, <2>3, <2>4, <2>5, <2>7 DEF LocalInv, Quiet
  <2> QED BY <2>3, <2>8, SameStep
<1>4. ASSUME NEW y, NEW k \in 1 .. n, QuietStep(cfg, P, r, s, y)
      PROVE  QuietStep(cfg, P, r, s, After(y, k))
  <2> DEFINE x == OnDecide(r, y.state, s.deferred[k])
  <2>1. LocalInv(cfg, P, r, y.state)
    BY <1>4 DEF QuietStep, Step
  <2>2. QuietStep(cfg, P, r, y.state, x)
    BY <1>2, <2>1, DecideStep
  <2>3. After(y, k).state = x.state /\ After(y, k).out = y.out \cup x.out
    BY DEF Does, TakenUp
  <2> HIDE DEF x, After
  <2>4. Step(cfg, P, r, s, x.state, y.out \cup x.out) /\ Quiet(s, x.state)
    BY <1>4, <2>2, Then DEF QuietStep, Quiet
  <2> QED BY <2>3, <2>4 DEF QuietStep
<1> HIDE DEF t, After
<1>5. PICK g : /\ OnSyncResp(r, s, m) = g[n] /\ g[0] = Nothing(t)
               /\ \A k \in 1 .. n : g[k] = After(g[k - 1], k)
  BY <1>2, Replayed DEF t, After
<1>6. \A k \in 0 .. n : QuietStep(cfg, P, r, s, g[k])
  <2> DEFINE bad == {k \in 0 .. n : ~ QuietStep(cfg, P, r, s, g[k])}
  <2> SUFFICES ASSUME bad # {} PROVE FALSE
    OBVIOUS
  <2>1. PICK k \in bad : \A j \in bad : k <= j
    <3>1. bad \in SUBSET Nat
      BY <1>2
    <3> QED BY <3>1, LeastNat
  <2>2. k # 0
    BY <1>3, <1>5
  <2>3. QuietStep(cfg, P, r, s, g[k - 1])
    BY <1>2, <2>1, <2>2
  <2>4. g[k] = After(g[k - 1], k)
    BY <1>2, <1>5, <2>2
  <2> QED BY <1>2, <1>4, <2>2, <2>3, <2>4
<1>7. n \in 0 .. n
  BY <1>2
<1> HIDE DEF n
<1> QED BY <1>5, <1>6, <1>7
-----------------------------------------------------------------------------
(* Votes *)

\* A vote is counted once for each sender.
LEMMA FormedVoters ==
  ASSUME NEW s, \A x \in s.votes : x = <<x[1], x[2]>> /\ x[2] \in Replicas, NEW qc, Formed(s, qc)
  PROVE  \E q \in SUBSET Replicas : Cardinality(q) >= Quorum /\ \A i \in q : <<qc, i>> \in s.votes
<1> DEFINE X == {x \in s.votes : x[1] = qc}
           voters == {i \in Replicas : <<qc, i>> \in s.votes}
           f == [i \in voters |-> <<qc, i>>]
<1>1. Cardinality(X) >= Quorum
  BY DEF Formed
<1>2. \A x \in X : x = <<qc, x[2]>> /\ x[2] \in voters
  OBVIOUS
<1>3. \A i \in voters : <<qc, i>> \in X
  OBVIOUS
<1>4. f \in Surjection(voters, X)
  <2>1. f \in [voters -> X]
    BY <1>3
  <2>2. \A x \in X : \E i \in voters : f[i] = x
    BY <1>2
  <2> QED BY <2>1, <2>2 DEF Surjection
<1>5. IsFiniteSet(voters) /\ Cardinality(voters) \in Nat
  BY SubsetsCount
<1>6. Cardinality(voters) >= Quorum
  <2> HIDE DEF voters, X, f
  <2>1. IsFiniteSet(X) /\ Cardinality(X) <= Cardinality(voters) /\ Cardinality(X) \in Nat
    BY <1>4, <1>5, FS_Surjection, FS_CardinalityType
  <2> QED BY <1>1, <1>5, <2>1, Replicated
<1>7. voters \in SUBSET Replicas /\ \A i \in voters : <<qc, i>> \in s.votes
  OBVIOUS
<1> HIDE DEF voters
<1> QED BY <1>6, <1>7

LEMMA FormedIsCertified ==
  ASSUME NEW P, NEW s, VotesInv(P, s), NEW type, NEW v, NEW n,
         Formed(s, [type |-> type, view |-> v, node |-> n])
  PROVE  Certified(P, v, n)
<1> DEFINE qc == [type |-> type, view |-> v, node |-> n]
<1>1. qc.type = type /\ qc.view = v /\ qc.node = n
  OBVIOUS
<1>2. PICK q \in SUBSET Replicas : Cardinality(q) >= Quorum /\ \A i \in q : <<qc, i>> \in s.votes
  BY FormedVoters DEF VotesInv
<1> HIDE DEF qc
<1>3. \A i \in q : VoteOK(P, type, v, n, i)
  BY <1>1, <1>2 DEF VotesInv
<1>4. CASE type = "PREPARE"
  BY <1>2, <1>3, <1>4 DEF VoteOK, Certified
<1>5. CASE type # "PREPARE"
  <2>1. Cardinality(q) > F
    BY <1>2, SubsetsCount, Replicated
  <2>2. PICK i \in q : TRUE
    BY <2>1, SomeoneIn
  <2> QED BY <1>3, <1>5, <2>2 DEF VoteOK
<1> QED BY <1>4, <1>5

LEMMA VoteStep ==
  ASSUME cfg \in Configs, NEW P, NEW r \in Replicas, NEW s, LocalInv(cfg, P, r, s),
         NEW m, MessageOK(P, r, m), m.vote
  PROVE  QuietStep(cfg, P, r, s, OnVote(r, s, m))
<1> DEFINE qc == [type |-> m.type, view |-> m.view, node |-> m.node]
           t == [s EXCEPT !.votes = @ \cup {<<qc, m.from>>}]
           built == [t EXCEPT !.qcs = @ \cup {qc}]
           next == CASE m.type = "PREPARE" -> "PRE_COMMIT" [] m.type = "PRE_COMMIT" -> "COMMIT"
                     [] OTHER -> "DECIDE"
           done == IF m.type = "PREPARE" THEN [built EXCEPT !.prepare_qc = qc] ELSE built
           b == Message(next, m.view, r, Genesis, qc)
           x == Does(done, Broadcast(b))
<1>1. IsState(s) /\ s.view \in Nat /\ VotesInv(P, s) /\ NewViewInv(cfg, r, s) /\ DeferredInv(s)
  BY DEF LocalInv
<1>2. m.view \in Nat /\ m.from \in Replicas /\ VoteOK(P, m.type, m.view, m.node, m.from)
  BY DEF MessageOK
<1>3. qc.type = m.type /\ qc.view = m.view /\ qc.node = m.node
  OBVIOUS
<1>4. \/ OnVote(r, s, m) = Nothing(s)
      \/ OnVote(r, s, m) = Nothing(t)
      \/ OnVote(r, s, m) = x /\ Formed(t, qc)
  BY DEF OnVote, Tally
<1>5. next \in {"PRE_COMMIT", "COMMIT", "DECIDE"}
  OBVIOUS
<1>6. b.type = next /\ b.vote = FALSE /\ b.view = m.view /\ b.from = r /\ b.qc = qc
  BY DEF Message
<1>7. ASSUME NEW u, IsState(u), VotesInv(P, u),
             \A f \in Fields \ {"votes", "qcs", "prepare_qc"} : u[f] = s[f]
      PROVE  QuietStep(cfg, P, r, s, Nothing(u))
  <2>1. /\ u.view = s.view /\ u.new_view = s.new_view /\ u.deferred = s.deferred
        /\ u.proposed = s.proposed /\ u.high_qc = s.high_qc /\ u.left = s.left
    BY <1>7 DEF Fields
  <2>2. \A v : Held(u, v) = Held(s, v)
    BY <2>1 DEF Held
  <2>3. NewViewInv(cfg, r, u)
    BY <1>1, <2>1, <2>2 DEF NewViewInv
  <2>4. DeferredInv(u)
    BY <1>1, <2>1 DEF DeferredInv
  <2> QED BY <1>1, <1>7, <2>1, <2>3, <2>4, SameStep DEF LocalInv, Quiet
<1>8. IsState(t) /\ t.votes = s.votes \cup {<<qc, m.from>>}
      /\ \A f \in Fields \ {"votes"} : t[f] = s[f]
  <2> HIDE DEF qc
  <2> QED BY <1>1 DEF IsState, Fields
<1>9. VotesInv(P, t)
  <2> HIDE DEF qc, t
  <2>1. t.qcs = s.qcs
    BY <1>8 DEF Fields
  <2>2. \A y \in s.qcs : /\ y = [type |-> y.type, view |-> y.view, node |-> y.node]
                         /\ Certified(P, y.view, y.node)
    BY <1>1 DEF VotesInv
  <2>3. ASSUME NEW y \in t.votes
        PROVE  /\ y = <<y[1], y[2]>> /\ y[2] \in Replicas
               /\ VoteOK(P, y[1].type, y[1].view, y[1].node, y[2])
    <3>1. CASE y \in s.votes
      BY <1>1, <3>1 DEF VotesInv
    <3>2. CASE y = <<qc, m.from>>
      BY <1>2, <1>3, <3>2
    <3> QED BY <1>8, <3>1, <3>2
  <2> QED BY <2>1, <2>2, <2>3 DEF VotesInv
<1>10. QuietStep(cfg, P, r, s, Nothing(t))
  <2> HIDE DEF t
  <2> QED BY <1>7, <1>8, <1>9
<1>11. ASSUME Formed(t, qc) PROVE QuietStep(cfg, P, r, s, x)
  <2>1. Certified(P, m.view, m.node)
    BY <1>9, <1>11, FormedIsCertified
  <2>2. IsState(done) /\ done.votes = t.votes /\ done.qcs = t.qcs \cup {qc}
        /\ \A f \in Fields \ {"qcs", "prepare_qc"} : done[f] = t[f]
    <3> HIDE DEF t, qc
    <3>1. IsState(built) /\ built.votes = t.votes /\ built.qcs = t.qcs \cup {qc}
          /\ \A f \in Fields \ {"qcs"} : built[f] = t[f]
      BY <1>8 DEF IsState, Fields
    <3> HIDE DEF built
    <3> QED BY <3>1 DEF IsState, Fields
  <2>3. qc = [type |-> qc.type, view |-> qc.view, node |-> qc.node]
    OBVIOUS
  <2> HIDE DEF qc, t, done, next
  <2>4. VotesInv(P, done)
    BY <1>3, <1>9, <2>1, <2>2, <2>3 DEF VotesInv
  <2>5. QuietStep(cfg, P, r, s, Nothing(done))
    BY <1>7, <1>8, <2>2, <2>4
  <2> HIDE DEF b
  <2>6. \A i \in Replicas : MessageOK(P, i, b) /\ ~ IsProposal(b) /\ ~ IsNewView(b)
    BY <1>2, <1>3, <1>5, <1>6, <2>1 DEF MessageOK, IsProposal, IsNewView, Phases
  <2>7. \A p \in Broadcast(b) : p.dst \in Replicas /\ p.msg = b
    BY DEF Broadcast
  <2> QED BY <1>6, <2>5, <2>6, <2>7, SendStep
<1> QED BY <1>4, <1>10, <1>11, NothingStep
-----------------------------------------------------------------------------
(* Proposals *)

Proposals(v, r, n, high) ==
  {[dst |-> i, msg |-> Message("PREPARE", v, r, n[i], high)] : i \in Replicas}
WithTree(s, tree) == [s EXCEPT !.tree = tree]

\* A step to a state that differs in tree, pending and proposed, which proposes v
LEMMA ProposalStep ==
  ASSUME NEW c, NEW P, NEW r \in Replicas, NEW s, LocalInv(c, P, r, s),
         NEW v, v \in Nat \ {0}, v \notin s.proposed, LeaderOf(c, v) = r,
         Cardinality(Held(s, v)) >= Quorum,
         NEW t, IsState(t), t.proposed = s.proposed \cup {v},
         \A f \in Fields \ {"tree", "pending", "proposed"} : t[f] = s[f],
         NEW n, NEW high
  PROVE  Step(c, P, r, s, t, Proposals(v, r, n, high)) /\ t.new_view = s.new_view
<1> DEFINE out == Proposals(v, r, n, high)
<1>1. /\ t.view = s.view /\ t.votes = s.votes /\ t.new_view = s.new_view /\ t.qcs = s.qcs
      /\ t.high_qc = s.high_qc /\ t.left = s.left /\ t.deferred = s.deferred
  BY DEF Fields
<1>2. s.view \in Nat /\ VotesInv(P, s) /\ NewViewInv(c, r, s) /\ DeferredInv(s)
  BY DEF LocalInv
<1>3. \A w : Held(t, w) = Held(s, w)
  BY <1>1 DEF Held
<1>4. VotesInv(P, t) /\ DeferredInv(t)
  BY <1>1, <1>2 DEF VotesInv, DeferredInv
<1>5. NewViewInv(c, r, t)
  BY <1>1, <1>2, <1>3 DEF NewViewInv
<1>6. \A p \in out : /\ p.dst \in Replicas /\ p.msg.node = n[p.dst]
                     /\ p.msg.from = r /\ p.msg.vote = FALSE
                     /\ p.msg.view = v /\ p.msg.type = "PREPARE"
  BY DEF Message, Proposals
<1> HIDE DEF out
<1>7. \A p \in out : SendOK(P, r, s, t, p)
  BY <1>6 DEF SendOK, IsProposal, IsNewView
<1>8. OutOK(P, r, s, t, out)
  BY <1>6, <1>7 DEF OutOK, SameNewView, SameProposal, IsNewView
<1>9. Step(c, P, r, s, t, out)
  BY <1>1, <1>2, <1>3, <1>4, <1>5, <1>8 DEF Step, LocalInv
<1> QED BY <1>1, <1>9 DEF out

\* What a replica does that may propose v: out is empty, or the proposals
ProposesAtMost(r, s, v, x) ==
  /\ IsState(x.state) /\ s.tree \subseteq x.state.tree
  /\ \A f \in Fields \ {"tree", "pending", "proposed"} : x.state[f] = s[f]
  /\ \/ x.out = {} /\ x.state.proposed = s.proposed
     \/ \E h \in s.high_qc : \E n :
          /\ h[1] = v /\ v \notin s.proposed /\ Leader(v) = r
          /\ x.state.proposed = s.proposed \cup {v}
          /\ x.out = Proposals(v, r, n, h[2])
          /\ \A i \in Replicas : \E c : n[i] = Append(h[2].node, <<v, c>>)

LEMMA TryProposeIs ==
  ASSUME NEW r, NEW s, IsState(s), NEW v
  PROVE  ProposesAtMost(r, s, v, TryPropose(r, s, v))
<1> DEFINE ready == {h \in s.high_qc : h[1] = v /\ v \notin s.proposed /\ Leader(v) = r}
           next == NextCommand(r, s)
           taken == [s EXCEPT !.pending = next.rest]
           h == CHOOSE k \in ready : TRUE
           high == h[2]
           leaf == Append(high.node, <<v, next.cmd>>)
           other == Append(high.node, <<v, Equivocation>>)
           u == [taken EXCEPT !.proposed = @ \cup {v}]
           x == TryPropose(r, s, v)
<1>1. \/ x = Nothing(s)
      \/ x = Nothing(taken)
      \/ ready # {} /\ x = SendProposal(r, u, v, leaf, high)
  BY DEF TryPropose
<1>2. IsState(taken) /\ \A f \in Fields \ {"pending"} : taken[f] = s[f]
  <2> HIDE DEF next
  <2> QED BY DEF IsState, Fields
<1>3. IsState(u) /\ u.proposed = s.proposed \cup {v}
      /\ \A f \in Fields \ {"pending", "proposed"} : u[f] = s[f]
  <2> HIDE DEF taken
  <2> QED BY <1>2 DEF IsState, Fields
<1>4. ready # {} => h \in ready
  OBVIOUS
<1>5. (\E c : leaf = Append(high.node, <<v, c>>)) /\ (\E c : other = Append(high.node, <<v, c>>))
  OBVIOUS
<1> HIDE DEF x, taken, u, leaf, other, next, h
<1>6. CASE x = Nothing(s)
  BY <1>6 DEF Nothing, Does, x, ProposesAtMost
<1>7. CASE x = Nothing(taken)
  <2>1. x.state = taken /\ x.out = {}
    BY <1>7 DEF Nothing, Does
  <2>2. taken.tree = s.tree /\ taken.proposed = s.proposed
    BY <1>2 DEF Fields
  <2> QED BY <1>2, <2>1, <2>2 DEF x, ProposesAtMost
<1>8. CASE ready # {} /\ x = SendProposal(r, u, v, leaf, high)
  <2>1. h \in s.high_qc /\ h[1] = v /\ v \notin s.proposed /\ Leader(v) = r
    BY <1>4, <1>8
  <2> HIDE DEF ready
  <2>2. PICK tree, n : /\ x.state = WithTree(u, tree) /\ x.out = Proposals(v, r, n, high)
                       /\ u.tree \subseteq tree /\ \A i \in Replicas : n[i] \in {leaf, other}
    <3> DEFINE two == [i \in Replicas |-> IF i % 2 = 0 THEN leaf ELSE other]
               one == [i \in Replicas |-> leaf]
    <3>1. CASE r \in cfg.byzantine /\ cfg.attack = "equivocate"
      <4>1. /\ x.state = WithTree(u, u.tree \cup {leaf, other})
            /\ x.out = {[dst |-> i, msg |-> Message("PREPARE", v, r,
                                                    IF i % 2 = 0 THEN leaf ELSE other, high)]
                          : i \in Replicas}
        BY <1>8, <3>1 DEF SendProposal, Does, other, WithTree
      <4>2. x.out = Proposals(v, r, two, high)
        BY <4>1 DEF Proposals
      <4>3. \A i \in Replicas : two[i] \in {leaf, other}
        OBVIOUS
      <4> HIDE DEF two
      <4> QED BY <4>1, <4>2, <4>3
    <3>2. CASE ~ (r \in cfg.byzantine /\ cfg.attack = "equivocate")
      <4>1. /\ x.state = WithTree(u, u.tree \cup {leaf})
            /\ x.out = {[dst |-> i, msg |-> Message("PREPARE", v, r, leaf, high)] : i \in Replicas}
        BY <1>8, <3>2 DEF SendProposal, Does, Broadcast, WithTree
      <4>2. x.out = Proposals(v, r, one, high)
        BY <4>1 DEF Proposals
      <4>3. \A i \in Replicas : one[i] \in {leaf, other}
        OBVIOUS
      <4> HIDE DEF one
      <4> QED BY <4>1, <4>2, <4>3
    <3> QED BY <3>1, <3>2
  <2>3. IsState(x.state) /\ x.state.proposed = s.proposed \cup {v} /\ x.state.tree = tree
        /\ \A f \in Fields \ {"tree", "pending", "proposed"} : x.state[f] = s[f]
    BY <1>3, <2>2 DEF IsState, Fields, WithTree
  <2>4. s.tree \subseteq tree
    BY <1>3, <2>2 DEF Fields
  <2>5. \A i \in Replicas : \E c : n[i] = Append(h[2].node, <<v, c>>)
    BY <1>5, <2>2
  <2>6. ProposesAtMost(r, s, v, x)
    BY <2>1, <2>2, <2>3, <2>4, <2>5 DEF ProposesAtMost
  <2> QED BY <2>6 DEF x
<1> QED BY <1>1, <1>6, <1>7, <1>8

LEMMA TryProposeStep ==
  ASSUME cfg \in Configs, NEW P, NEW r \in Replicas, NEW s, LocalInv(cfg, P, r, s), NEW v
  PROVE  LET x == TryPropose(r, s, v)
         IN  Step(cfg, P, r, s, x.state, x.out) /\ x.state.new_view = s.new_view
<1> DEFINE x == TryPropose(r, s, v)
           t == x.state
<1>1. IsState(s) /\ s.view \in Nat
  BY DEF LocalInv
<1>1a. ProposesAtMost(r, s, v, x)
  BY <1>1, TryProposeIs
<1> HIDE DEF x
<1>2. IsState(t) /\ \A f \in Fields \ {"tree", "pending", "proposed"} : t[f] = s[f]
  BY <1>1a DEF ProposesAtMost
<1>3. \/ x.out = {} /\ t.proposed = s.proposed
      \/ \E h \in s.high_qc : \E n :
           /\ h[1] = v /\ v \notin s.proposed /\ Leader(v) = r
           /\ t.proposed = s.proposed \cup {v} /\ x.out = Proposals(v, r, n, h[2])
  BY <1>1a DEF ProposesAtMost
<1>4. CASE x.out = {} /\ t.proposed = s.proposed
  <2>1. t.view \in Nat /\ t.left = s.left /\ \A f \in Tracked : t[f] = s[f]
    BY <1>1, <1>2, <1>4 DEF Fields, Tracked
  <2> HIDE DEF t
  <2>2. QuietStep(cfg, P, r, s, Nothing(t))
    BY <1>2, <2>1, SameInv, SameStep
  <2> QED BY <1>4, <2>2 DEF QuietStep, Quiet, x, t, Nothing, Does
<1>5. ASSUME NEW h \in s.high_qc, NEW n, h[1] = v, v \notin s.proposed, Leader(v) = r,
             t.proposed = s.proposed \cup {v}, x.out = Proposals(v, r, n, h[2])
      PROVE  Step(cfg, P, r, s, t, x.out) /\ t.new_view = s.new_view
  <2>1. v \in Nat \ {0} /\ LeaderOf(cfg, v) = r /\ Cardinality(Held(s, v)) >= Quorum
    BY <1>5, LeaderIs DEF LocalInv, NewViewInv
  <2> HIDE DEF t
  <2> QED BY <1>2, <1>5, <2>1, ProposalStep
<1> QED BY <1>3, <1>4, <1>5 DEF x

\* The NEW-VIEW message m, if it is one, is all that a replica holds more.
HoldsMore(s, t, m) ==
  \A v, i : i \in Held(t, v) => \/ i \in Held(s, v)
                                \/ IsNewView(m) /\ v = m.view + 1 /\ i = m.from

LEMMA HeldCount ==
  ASSUME NEW c, NEW r, NEW s, NewViewInv(c, r, s), NEW v,
         Cardinality({x \in s.new_view : x[1] = v}) >= Quorum
  PROVE  Cardinality(Held(s, v)) >= Quorum
<1> DEFINE X == {x \in s.new_view : x[1] = v}
           f == [i \in Held(s, v) |-> CHOOSE x \in X : x[2] = i]
<1>1. \A i \in Held(s, v) : f[i] \in X /\ f[i][2] = i
  BY DEF Held
<1>2. ASSUME NEW x \in X PROVE x[2] \in Held(s, v) /\ f[x[2]] = x
  <2>1. x[2] \in Held(s, v)
    BY DEF NewViewInv, Held
  <2>2. f[x[2]] \in X /\ f[x[2]][2] = x[2]
    BY <1>1, <2>1
  <2> HIDE DEF f
  <2> QED BY <2>1, <2>2 DEF NewViewInv
<1>3. f \in Surjection(Held(s, v), X)
  <2>1. f \in [Held(s, v) -> X]
    BY <1>1
  <2> HIDE DEF f, X
  <2> QED BY <1>2, <2>1 DEF Surjection
<1>4. Held(s, v) \subseteq Replicas
  BY DEF Held
<1>5. IsFiniteSet(Held(s, v)) /\ Cardinality(Held(s, v)) \in Nat
  BY <1>4, SubsetsCount
<1>6. Cardinality(X) >= Quorum
  OBVIOUS
<1> HIDE DEF X, f
<1>7. IsFiniteSet(X) /\ Cardinality(X) <= Cardinality(Held(s, v)) /\ Cardinality(X) \in Nat
  BY <1>3, <1>5, FS_Surjection, FS_CardinalityType
<1> QED BY <1>5, <1>6, <1>7, Replicated

LEMMA NewViewStep ==
  ASSUME cfg \in Configs, NEW P, NEW r \in Replicas, NEW s, LocalInv(cfg, P, r, s),
         NEW m, MessageOK(P, r, m), IsNewView(m)
  PROVE  LET x == OnNewView(r, s, m)
         IN  Step(cfg, P, r, s, x.state, x.out) /\ HoldsMore(s, x.state, m)
<1> DEFINE start == m.view + 1
           held == {y \in s.new_view : y[1] # start \/ y[2] # m.from} \cup {<<start, m.from, m.qc>>}
           mine == {y[3] : y \in {z \in held : z[1] = start}}
           high == CHOOSE q \in mine : \A p \in mine : p.view <= q.view
           t == [s EXCEPT !.new_view = held]
           u == [t EXCEPT !.high_qc = @ \cup {<<start, high>>}]
           x == OnNewView(r, s, m)
<1>1. IsState(s) /\ s.view \in Nat /\ VotesInv(P, s) /\ NewViewInv(cfg, r, s) /\ DeferredInv(s)
  BY DEF LocalInv
<1>2. m.view \in Nat /\ m.from \in Replicas
  BY DEF MessageOK
<1>3. \/ x = Nothing(s)
      \/ Leader(start) = r /\ x = Nothing(t)
      \/ /\ Leader(start) = r /\ x = TryPropose(r, u, start)
         /\ Cardinality({y \in held : y[1] = start}) >= Quorum
  BY DEF OnNewView
<1>4. IsState(t) /\ t.new_view = held /\ \A f \in Fields \ {"new_view"} : t[f] = s[f]
  <2> HIDE DEF held
  <2> QED BY <1>1 DEF IsState, Fields
<1>5. IsState(u) /\ u.high_qc = t.high_qc \cup {<<start, high>>}
      /\ \A f \in Fields \ {"high_qc"} : u[f] = t[f]
  <2> HIDE DEF t, high, start
  <2> QED BY <1>4 DEF IsState, Fields
<1> HIDE DEF x, t, u, high
<1>6. \A v : Held(s, v) \subseteq Held(t, v)
  <2> SUFFICES ASSUME NEW v, NEW i \in Held(s, v) PROVE i \in Held(t, v)
    OBVIOUS
  <2>1. PICK y \in s.new_view : y[1] = v /\ y[2] = i
    BY DEF Held
  <2>2. CASE y \in held
    BY <1>4, <2>1, <2>2 DEF Held
  <2>3. CASE v = start /\ i = m.from
    <3> DEFINE z == <<start, m.from, m.qc>>
    <3>1. z \in t.new_view /\ z[1] = v /\ z[2] = i
      BY <1>4, <2>3
    <3> QED BY <1>2, <2>3, <3>1 DEF Held
  <2> QED BY <2>1, <2>2, <2>3
<1>7. HoldsMore(s, t, m)
  BY <1>4 DEF Held, HoldsMore
<1>8. CASE x = Nothing(s)
  <2>1. QuietStep(cfg, P, r, s, x)
    BY <1>8, NothingStep
  <2>2. Held(x.state, r) = Held(x.state, r) /\ \A v : Held(x.state, v) = Held(s, v)
    BY <2>1 DEF QuietStep, Quiet, Held
  <2> QED BY <2>1, <2>2 DEF QuietStep, HoldsMore, x
<1>9. ASSUME Leader(start) = r
      PROVE  /\ LocalInv(cfg, P, r, t) /\ t.proposed = s.proposed
             /\ t.left = s.left
  <2>1. /\ t.view = s.view /\ t.votes = s.votes /\ t.high_qc = s.high_qc /\ t.qcs = s.qcs
        /\ t.proposed = s.proposed /\ t.left = s.left /\ t.deferred = s.deferred
    BY <1>4 DEF Fields
  <2>2. VotesInv(P, t) /\ DeferredInv(t)
    BY <1>1, <2>1 DEF VotesInv, DeferredInv
  <2>3. \A y \in t.new_view : /\ y = <<y[1], y[2], y[3]>>
                              /\ y[1] \in Nat \ {0} /\ y[2] \in Replicas
                              /\ LeaderOf(cfg, y[1]) = r
    BY <1>1, <1>2, <1>4, <1>9, LeaderIs DEF NewViewInv
  <2>4. \A y, z \in t.new_view : y[1] = z[1] /\ y[2] = z[2] => y = z
    BY <1>1, <1>4 DEF NewViewInv
  <2>5. ASSUME NEW h \in s.high_qc
        PROVE  /\ h[1] \in Nat \ {0} /\ LeaderOf(cfg, h[1]) = r
               /\ Cardinality(Held(t, h[1])) >= Quorum
    <3>1. /\ h[1] \in Nat \ {0} /\ LeaderOf(cfg, h[1]) = r
          /\ Cardinality(Held(s, h[1])) >= Quorum
      BY <1>1 DEF NewViewInv
    <3>2. Held(s, h[1]) \subseteq Held(t, h[1]) /\ Held(t, h[1]) \subseteq Replicas
      BY <1>6 DEF Held
    <3>3. Cardinality(Held(s, h[1])) <= Cardinality(Held(t, h[1]))
      BY <3>2, SubsetsCount, FS_Subset
    <3>4. Cardinality(Held(s, h[1])) \in Nat /\ Cardinality(Held(t, h[1])) \in Nat
      BY <3>2, SubsetsCount
    <3> QED BY <3>1, <3>3, <3>4, Replicated
  <2>6. NewViewInv(cfg, r, t)
    BY <1>1, <2>1, <2>3, <2>4, <2>5 DEF NewViewInv
  <2> QED BY <1>1, <1>4, <2>1, <2>2, <2>6 DEF LocalInv
<1>10. CASE Leader(start) = r /\ x = Nothing(t)
  <2>1. x.state = t /\ x.out = {}
    BY <1>10 DEF Nothing, Does
  <2>2. OutOK(P, r, s, t, {})
    BY DEF OutOK
  <2> QED BY <1>7, <1>9, <1>10, <2>1, <2>2 DEF Step, x
<1>11. CASE /\ Leader(start) = r /\ x = TryPropose(r, u, start)
            /\ Cardinality({y \in held : y[1] = start}) >= Quorum
  <2>1. /\ u.view = t.view /\ u.votes = t.votes /\ u.new_view = t.new_view /\ u.qcs = t.qcs
        /\ u.proposed = t.proposed /\ u.left = t.left /\ u.deferred = t.deferred
    BY <1>5 DEF Fields
  <2>2. /\ t.view \in Nat /\ VotesInv(P, t) /\ NewViewInv(cfg, r, t) /\ DeferredInv(t)
    BY <1>9, <1>11 DEF LocalInv
  <2>3. VotesInv(P, u) /\ DeferredInv(u)
    BY <2>1, <2>2 DEF VotesInv, DeferredInv
  <2>4. \A v : Held(u, v) = Held(t, v)
    BY <2>1 DEF Held
  <2>5. Cardinality(Held(t, start)) >= Quorum
    BY <1>4, <1>11, <2>2, HeldCount
  <2>6. start \in Nat \ {0} /\ LeaderOf(cfg, start) = r /\ <<start, high>>[1] = start
    BY <1>2, <1>11, LeaderIs
  <2> HIDE DEF start
  <2>7. NewViewInv(cfg, r, u)
    BY <1>5, <2>1, <2>2, <2>4, <2>5, <2>6 DEF NewViewInv
  <2>8. LocalInv(cfg, P, r, u)
    BY <1>5, <2>1, <2>2, <2>3, <2>7 DEF LocalInv
  <2>9. Step(cfg, P, r, u, x.state, x.out) /\ x.state.new_view = u.new_view
    BY <1>11, <2>8, TryProposeStep
  <2>10. Step(cfg, P, r, s, u, {})
    <3>1. OutOK(P, r, s, u, {})
      BY DEF OutOK
    <3> QED BY <1>9, <1>11, <2>1, <2>8, <3>1 DEF Step
  <2>11. Step(cfg, P, r, s, x.state, {} \cup x.out)
    BY <1>9, <1>11, <2>1, <2>9, <2>10, Then
  <2>12. {} \cup x.out = x.out
    OBVIOUS
  <2>13. \A v : Held(x.state, v) = Held(t, v)
    BY <2>1, <2>9 DEF Held
  <2> QED BY <1>7, <2>11, <2>12, <2>13 DEF HoldsMore, x
<1> QED BY <1>3, <1>8, <1>10, <1>11

LEMMA DispatchStep ==
  ASSUME cfg \in Configs, NEW P, NEW r \in Replicas, NEW s, LocalInv(cfg, P, r, s),
         NEW m, MessageOK(P, r, m)
  PROVE  LET x == Dispatch(r, s, m)
         IN  Step(cfg, P, r, s, x.state, x.out) /\ HoldsMore(s, x.state, m)
<1> DEFINE t == IF m.type \in Phases /\ ~ m.vote /\ m.view > s.view THEN SyncView(s, m.view) ELSE s
           x == Dispatch(r, s, m)
<1>1. m.view \in Nat /\ m.from \in Replicas
  BY DEF MessageOK
<1>2. QuietStep(cfg, P, r, s, Nothing(t))
  BY <1>1, NothingStep, SyncViewStep
<1>3. \/ m.vote /\ x = OnVote(r, t, m)
      \/ ~ m.vote /\ m.type = "NEW_VIEW" /\ x = OnNewView(r, t, m)
      \/ ~ m.vote /\ m.type = "PREPARE" /\ x = OnPrepare(r, t, m)
      \/ ~ m.vote /\ m.type = "PRE_COMMIT" /\ x = OnPreCommit(r, t, m)
      \/ ~ m.vote /\ m.type = "COMMIT" /\ x = OnCommit(r, t, m)
      \/ ~ m.vote /\ m.type = "DECIDE" /\ x = OnDecide(r, t, m)
      \/ ~ m.vote /\ m.type = "SYNC_REQ" /\ x = OnSyncReq(r, t, m)
      \/ ~ m.vote /\ m.type = "SYNC_RESP" /\ x = OnSyncResp(r, t, m)
  <2>1. ~ m.vote => m.type \in {"NEW_VIEW", "SYNC_REQ", "SYNC_RESP", "PREPARE", "PRE_COMMIT",
                                "COMMIT", "DECIDE"}
    BY DEF MessageOK, Phases
  <2> HIDE DEF t
  <2>2. x = IF m.vote THEN OnVote(r, t, m)
            ELSE CASE m.type = "NEW_VIEW"     -> OnNewView(r, t, m)
                   [] m.type = "PREPARE"      -> OnPrepare(r, t, m)
                   [] m.type = "PRE_COMMIT"   -> OnPreCommit(r, t, m)
                   [] m.type = "COMMIT"       -> OnCommit(r, t, m)
                   [] m.type = "DECIDE"       -> OnDecide(r, t, m)
                   [] m.type = "SYNC_REQ"     -> OnSyncReq(r, t, m)
                   [] m.type = "SYNC_RESP"    -> OnSyncResp(r, t, m)
    BY DEF Dispatch, t
  <2> HIDE DEF x
  <2> QED BY <2>1, <2>2
<1> HIDE DEF t, x
<1>4. Step(cfg, P, r, s, t, {}) /\ Quiet(s, t) /\ LocalInv(cfg, P, r, t)
  BY <1>2 DEF QuietStep, Step, Nothing, Does
<1>5. Step(cfg, P, r, t, x.state, x.out) /\ HoldsMore(t, x.state, m)
  <2>1. ASSUME QuietStep(cfg, P, r, t, x)
        PROVE  Step(cfg, P, r, t, x.state, x.out) /\ HoldsMore(t, x.state, m)
    BY <2>1 DEF QuietStep, Quiet, HoldsMore, Held
  <2>2. ~ m.vote /\ m.type = "NEW_VIEW" /\ x = OnNewView(r, t, m) => 
        Step(cfg, P, r, t, x.state, x.out) /\ HoldsMore(t, x.state, m)
    BY <1>4, NewViewStep DEF IsNewView
  <2>3. m.vote /\ x = OnVote(r, t, m) => QuietStep(cfg, P, r, t, x)
    BY <1>4, VoteStep
  <2>4. ~ m.vote /\ m.type = "PREPARE" /\ x = OnPrepare(r, t, m) => QuietStep(cfg, P, r, t, x)
    BY <1>4, PrepareStep DEF IsProposal
  <2>5. ~ m.vote /\ m.type = "PRE_COMMIT" /\ x = OnPreCommit(r, t, m)
        => QuietStep(cfg, P, r, t, x)
    BY <1>4, PreCommitStep
  <2>6. ~ m.vote /\ m.type = "COMMIT" /\ x = OnCommit(r, t, m) => QuietStep(cfg, P, r, t, x)
    BY <1>4, CommitStep
  <2>7. x = OnDecide(r, t, m) => QuietStep(cfg, P, r, t, x)
    BY <1>1, <1>4, DecideStep
  <2>8. x = OnSyncReq(r, t, m) => QuietStep(cfg, P, r, t, x)
    BY <1>1, <1>4, SyncReqStep
  <2>9. x = OnSyncResp(r, t, m) => QuietStep(cfg, P, r, t, x)
    BY <1>4, SyncRespStep
  <2> QED BY <1>3, <2>1, <2>2, <2>3, <2>4, <2>5, <2>6, <2>7, <2>8, <2>9
<1>6. Step(cfg, P, r, s, x.state, {} \cup x.out)
  BY <1>4, <1>5, Then DEF Quiet
<1>7. {} \cup x.out = x.out
  OBVIOUS
<1>8. HoldsMore(s, x.state, m)
  BY <1>4, <1>5 DEF HoldsMore, Quiet, Held
<1> QED BY <1>6, <1>7, <1>8 DEF x
-----------------------------------------------------------------------------
(* The cluster *)

NewViewFrom(p, i, v) == IsNewView(p.msg) /\ p.msg.from = i /\ p.msg.view = v

ClusterInv ==
  /\ cfg \in Configs /\ rep = [r \in Replicas |-> rep[r]]
  /\ down \subseteq failed /\ failed \subseteq Replicas /\ Cardinality(failed) <= F

\* The NEW-VIEWs of a replica that never crashed: one for a view, which is
\* under way, or held by the leader, or gone
NewViewOnce(i) ==
  /\ \A p \in net : IsNewView(p.msg) /\ p.msg.from = i => p.msg.view \in rep[i].left
  /\ \A p, q \in net : p.msg.from = i /\ q.msg.from = i /\ SameNewView(p, q) => p = q
  /\ \A r \in Replicas : \A v : i \in Held(rep[r], v) =>
       v - 1 \in rep[i].left /\ \A p \in net : ~ NewViewFrom(p, i, v - 1)

\* What a proposal has used does not come again, also when its leader has
\* forgotten it.
Spent(v, i) ==
  /\ v - 1 \in rep[i].left
  /\ \A p \in net : ~ NewViewFrom(p, i, v - 1)
  /\ \A r \in Replicas : LeaderOf(cfg, v) = r /\ v \notin rep[r].proposed => i \notin Held(rep[r], v)

History(D, P, U) ==
  /\ \A v, i, m, n : <<v, i, m>> \in P /\ <<v, i, n>> \in P => m = n
  /\ \A v, i, n : <<v, i, n>> \in P => v \in D
  /\ \A v, i : <<v, i>> \in U => v \in D
  /\ \A r \in Replicas : rep[r].proposed \subseteq D
  /\ \A v \in D : Cardinality({i \in Replicas : <<v, i>> \in U}) >= Quorum
  /\ \A v \in D : \A i \in Replicas \ failed : <<v, i>> \in U => Spent(v, i)

IInv(D, P, U) ==
  /\ ClusterInv
  /\ \A p \in net : p.dst \in Replicas /\ MessageOK(P, p.dst, p.msg)
  /\ \A r \in Replicas : LocalInv(cfg, P, r, rep[r])
  /\ \A i \in Replicas \ failed : NewViewOnce(i)
  /\ History(D, P, U)

Inv == \E D, P, U : IInv(D, P, U)

\* ... and nothing that was proposed is forgotten.
Later(P) == \E D, Q, U : P \subseteq Q /\ IInv(D, Q, U)

\* Every replica makes a step and sends out[r]; what was in gone is received.
Moves(P, out, gone) ==
  /\ cfg' = cfg /\ failed' = failed /\ down' = down
  /\ rep' = [r \in Replicas |-> rep'[r]]
  /\ \A r \in Replicas : Step(cfg, P, r, rep[r], rep'[r], out[r])
  /\ \A p \in net' : p \in net \ gone \/ \E r \in Replicas : p \in out[r]
  /\ \A r \in Replicas : \A v, i :
       i \in Held(rep'[r], v) => \/ i \in Held(rep[r], v)
                                 \/ \E p \in net \cap gone : NewViewFrom(p, i, v - 1)

\* A view is proposed once.
LEMMA ProposedOnce ==
  ASSUME NEW D, NEW P, NEW U, IInv(D, P, U), NEW out, NEW gone, Moves(P, out, gone),
         NEW r \in Replicas, NEW v \in rep'[r].proposed \ rep[r].proposed
  PROVE  v \notin D
<1> SUFFICES ASSUME v \in D PROVE FALSE
  OBVIOUS
<1> DEFINE used == {i \in Replicas : <<v, i>> \in U}
           held == Held(rep'[r], v)
<1>1. Step(cfg, P, r, rep[r], rep'[r], out[r])
  BY DEF Moves
<1>2. LeaderOf(cfg, v) = r /\ Cardinality(held) >= Quorum
  BY <1>1 DEF Step, LocalInv, NewViewInv
<1>3. Cardinality(used) >= Quorum
  BY DEF IInv, History
<1>4. used \subseteq Replicas /\ held \subseteq Replicas
  BY DEF Held
<1>5. PICK i \in used \cap held : i \notin failed
  <2> SUFFICES ASSUME used \cap held \subseteq failed PROVE FALSE
    OBVIOUS
  <2> HIDE DEF used, held
  <2>1. Cardinality(used \cap held) > F
    BY <1>2, <1>3, <1>4, QuorumsMeet
  <2>2. failed \subseteq Replicas /\ Cardinality(failed) <= F
    BY DEF IInv, ClusterInv
  <2>3. Cardinality(used \cap held) <= Cardinality(failed)
    BY <2>2, SubsetsCount, FS_Subset
  <2>4. Cardinality(used \cap held) \in Nat /\ Cardinality(failed) \in Nat /\ F \in Nat
    BY <1>4, <2>2, SubsetsCount, Replicated
  <2> QED BY <2>1, <2>2, <2>3, <2>4
<1>6. Spent(v, i)
  BY <1>5 DEF IInv, History
<1>7. i \notin Held(rep[r], v)
  BY <1>2, <1>6 DEF Spent
<1>8. \E p \in net : NewViewFrom(p, i, v - 1)
  BY <1>5, <1>7 DEF Moves
<1> QED BY <1>6, <1>8 DEF Spent

\* What is under way after a step
LEMMA NewPackets ==
  ASSUME NEW D, NEW P, NEW U, IInv(D, P, U), NEW out, NEW gone, Moves(P, out, gone),
         NEW p \in net'
  PROVE  \/ p \in net \ gone
         \/ p.msg.from \in Replicas /\ p \in out[p.msg.from]
            /\ SendOK(P, p.msg.from, rep[p.msg.from], rep'[p.msg.from], p)
<1>1. ASSUME NEW r \in Replicas, p \in out[r]
      PROVE  p.msg.from = r /\ SendOK(P, r, rep[r], rep'[r], p)
  BY <1>1 DEF Moves, Step, OutOK, SendOK
<1> QED BY <1>1 DEF Moves

LEMMA MovesOnce ==
  ASSUME NEW D, NEW P, NEW U, IInv(D, P, U), NEW out, NEW gone, Moves(P, out, gone),
         NEW i \in Replicas \ failed
  PROVE  NewViewOnce(i)'
<1>1. NewViewOnce(i) /\ rep[i].left \subseteq rep'[i].left
  BY DEF IInv, Moves, Step
<1>2. \A p \in net' : IsNewView(p.msg) /\ p.msg.from = i =>
         \/ p \in net \ gone /\ p.msg.view \in rep[i].left
         \/ p \in out[i] /\ p.msg.view \in rep'[i].left \ rep[i].left
  BY <1>1, NewPackets DEF NewViewOnce, SendOK
<1>3. \A p \in net' : IsNewView(p.msg) /\ p.msg.from = i => p.msg.view \in rep'[i].left
  BY <1>1, <1>2
<1>4. \A p, q \in net' : p.msg.from = i /\ q.msg.from = i /\ SameNewView(p, q) => p = q
  <2>1. \A p, q \in out[i] : SameNewView(p, q) => p = q
    BY DEF Moves, Step, OutOK
  <2> QED BY <1>1, <1>2, <2>1 DEF NewViewOnce, SameNewView
<1>5. ASSUME NEW r \in Replicas, NEW v, i \in Held(rep'[r], v)
      PROVE  v - 1 \in rep'[i].left /\ \A p \in net' : ~ NewViewFrom(p, i, v - 1)
  <2>1. CASE i \in Held(rep[r], v)
    BY <1>1, <1>2, <2>1 DEF NewViewOnce, NewViewFrom
  <2>2. ASSUME NEW p \in net \cap gone, NewViewFrom(p, i, v - 1)
        PROVE  v - 1 \in rep'[i].left /\ \A q \in net' : ~ NewViewFrom(q, i, v - 1)
    <3>1. v - 1 \in rep[i].left
      BY <1>1, <2>2 DEF NewViewOnce, NewViewFrom
    <3>2. ASSUME NEW q \in net', NewViewFrom(q, i, v - 1) PROVE FALSE
      <4>1. q \in net \ gone
        BY <1>2, <3>1, <3>2 DEF NewViewFrom
      <4>2. q = p
        BY <1>1, <2>2, <3>2, <4>1 DEF NewViewOnce, NewViewFrom, SameNewView
      <4> QED BY <4>1, <4>2
    <3> QED BY <1>1, <3>1, <3>2
  <2> QED BY <1>5, <2>1, <2>2 DEF Moves
<1> QED BY <1>3, <1>4, <1>5 DEF NewViewOnce

LEMMA MovesSpent ==
  ASSUME NEW D, NEW P, NEW U, IInv(D, P, U), NEW out, NEW gone, Moves(P, out, gone),
         NEW i \in Replicas \ failed, NEW v, Spent(v, i)
  PROVE  Spent(v, i)'
<1>1. NewViewOnce(i) /\ rep[i].left \subseteq rep'[i].left
  BY DEF IInv, Moves, Step
<1>2. \A p \in net' : IsNewView(p.msg) /\ p.msg.from = i =>
         \/ p \in net \ gone
         \/ p.msg.view \notin rep[i].left
  BY <1>1, NewPackets DEF NewViewOnce, SendOK
<1>3. v - 1 \in rep'[i].left /\ \A p \in net' : ~ NewViewFrom(p, i, v - 1)
  BY <1>1, <1>2 DEF Spent, NewViewFrom
<1>4. ASSUME NEW r \in Replicas, LeaderOf(cfg', v) = r, v \notin rep'[r].proposed,
             i \in Held(rep'[r], v)
      PROVE  FALSE
  <2>1. v \notin rep[r].proposed /\ LeaderOf(cfg, v) = r
    BY <1>4 DEF Moves, Step
  <2>2. i \notin Held(rep[r], v)
    BY <2>1 DEF Spent
  <2>3. \E p \in net : NewViewFrom(p, i, v - 1)
    BY <1>4, <2>2 DEF Moves
  <2> QED BY <2>3 DEF Spent
<1> QED BY <1>3, <1>4 DEF Spent

Proposes(p, v, i, n) == IsProposal(p.msg) /\ v = p.msg.view /\ i = p.dst /\ n = p.msg.node

LEMMA MovesKeep ==
  ASSUME NEW D, NEW P, NEW U, IInv(D, P, U), NEW out, NEW gone, Moves(P, out, gone)
  PROVE  Later(P)'
<1>1. PICK D2 : \A v : v \in D2 <=> v \in D \/ \E r \in Replicas : v \in rep'[r].proposed
  <2> DEFINE X == D \cup UNION {rep'[r].proposed : r \in Replicas}
  <2>1. \A v : v \in X <=> v \in D \/ \E r \in Replicas : v \in rep'[r].proposed
    OBVIOUS
  <2> QED BY <2>1
<1>2. PICK P2 : /\ P \subseteq P2
                /\ \A v, i, n : <<v, i, n>> \in P2 => \/ <<v, i, n>> \in P
                                                     \/ \E p \in net' : Proposes(p, v, i, n)
                /\ \A p \in net' : IsProposal(p.msg) => <<p.msg.view, p.dst, p.msg.node>> \in P2
  <2> DEFINE X == P \cup {<<p.msg.view, p.dst, p.msg.node>> : p \in {q \in net' : IsProposal(q.msg)}}
  <2>1. ASSUME NEW v, NEW i, NEW n, <<v, i, n>> \in X
        PROVE  \/ <<v, i, n>> \in P
               \/ \E p \in net' : Proposes(p, v, i, n)
    BY <2>1 DEF Proposes
  <2>2. P \subseteq X /\ \A p \in net' : IsProposal(p.msg) => <<p.msg.view, p.dst, p.msg.node>> \in X
    OBVIOUS
  <2> HIDE DEF X
  <2> QED BY <2>1, <2>2
<1>3. PICK U2 : \A v, i : <<v, i>> \in U2 <=>
                   \/ <<v, i>> \in U
                   \/ /\ v \in D2 \ D /\ i \in Replicas
                      /\ \E r \in Replicas : v \in rep'[r].proposed /\ i \in Held(rep'[r], v)
  <2> DEFINE X == U \cup {x \in (D2 \ D) \X Replicas :
                            \E r \in Replicas : x[1] \in rep'[r].proposed /\ x[2] \in Held(rep'[r], x[1])}
  <2>1. \A v, i : <<v, i>> \in X <=>
                   \/ <<v, i>> \in U
                   \/ /\ v \in D2 \ D /\ i \in Replicas
                      /\ \E r \in Replicas : v \in rep'[r].proposed /\ i \in Held(rep'[r], v)
    OBVIOUS
  <2> QED BY <2>1
<1>4. \A r \in Replicas : /\ Step(cfg, P, r, rep[r], rep'[r], out[r])
                          /\ LocalInv(cfg, P, r, rep'[r])
                          /\ \A v \in rep'[r].proposed : LeaderOf(cfg, v) = r
  BY DEF Moves, Step, LocalInv, NewViewInv
<1>5. ClusterInv'
  BY DEF IInv, ClusterInv, Moves
<1>6. \A p \in net' : p.dst \in Replicas /\ MessageOK(P2, p.dst, p.msg)
  <2> SUFFICES ASSUME NEW p \in net' PROVE p.dst \in Replicas /\ MessageOK(P2, p.dst, p.msg)
    OBVIOUS
  <2>1. CASE p \in net
    BY <1>2, <2>1, VotesStay DEF IInv
  <2>2. CASE p.msg.from \in Replicas /\ SendOK(P, p.msg.from, rep[p.msg.from], rep'[p.msg.from], p)
    <3>1. p.dst \in Replicas /\ (~ IsProposal(p.msg) => MessageOK(P2, p.dst, p.msg))
      BY <1>2, <2>2, VotesStay DEF SendOK
    <3>2. IsProposal(p.msg) => MessageOK(P2, p.dst, p.msg)
      BY <1>2, <2>2 DEF SendOK, MessageOK, IsProposal, Phases
    <3> QED BY <3>1, <3>2
  <2> QED BY <2>1, <2>2, NewPackets
<1>7. \A r \in Replicas : LocalInv(cfg', P2, r, rep'[r])
  BY <1>2, <1>4, LocalStays DEF Moves
<1>8. \A i \in Replicas \ failed' : NewViewOnce(i)'
  BY MovesOnce DEF Moves
<1>9. \A v \in D2 \ D : \E r \in Replicas : v \in rep'[r].proposed \ rep[r].proposed
  BY <1>1 DEF IInv, History
<1>10. \A r \in Replicas : rep'[r].proposed \subseteq D2
  BY <1>1
\* A proposal under way is an old one, or that of a view not proposed before.
<1>11. ASSUME NEW p \in net', IsProposal(p.msg)
       PROVE  \/ <<p.msg.view, p.dst, p.msg.node>> \in P
              \/ /\ p.msg.view \in D2 \ D /\ p.msg.from \in Replicas /\ p \in out[p.msg.from]
                 /\ LeaderOf(cfg, p.msg.view) = p.msg.from
  <2>1. CASE p \in net
    BY <1>11, <2>1 DEF IInv, MessageOK
  <2>2. CASE p.msg.from \in Replicas /\ p \in out[p.msg.from]
             /\ SendOK(P, p.msg.from, rep[p.msg.from], rep'[p.msg.from], p)
    <3> DEFINE r == p.msg.from
    <3>1. p.msg.view \in rep'[r].proposed \ rep[r].proposed
      BY <1>11, <2>2 DEF SendOK
    <3>2. p.msg.view \notin D
      BY <2>2, <3>1, ProposedOnce
    <3> QED BY <1>4, <1>10, <2>2, <3>1, <3>2
  <2> QED BY <2>1, <2>2, NewPackets
<1>12. ASSUME NEW v, NEW i, NEW m, NEW n, <<v, i, m>> \in P2, <<v, i, n>> \in P2 PROVE m = n
  <2>1. /\ \A k : <<v, i, k>> \in P => v \in D
        /\ <<v, i, m>> \in P /\ <<v, i, n>> \in P => m = n
    BY DEF IInv, History
  <2>2. CASE v \in D
    <3>1. \A k : <<v, i, k>> \in P2 => <<v, i, k>> \in P
      BY <1>2, <1>11, <2>2 DEF Proposes
    <3> QED BY <1>12, <2>1, <3>1
  <2>3. CASE v \notin D
    <3>1. PICK p \in net' : Proposes(p, v, i, m)
      BY <1>2, <1>12, <2>1, <2>3
    <3>2. PICK q \in net' : Proposes(q, v, i, n)
      BY <1>2, <1>12, <2>1, <2>3
    <3>3. /\ p \in out[LeaderOf(cfg, v)] /\ q \in out[LeaderOf(cfg, v)]
          /\ LeaderOf(cfg, v) \in Replicas
      BY <1>11, <2>1, <2>3, <3>1, <3>2 DEF Proposes
    <3>4. SameProposal(p, q) => p.msg.node = q.msg.node
      BY <1>4, <3>3 DEF Step, OutOK
    <3> QED BY <3>1, <3>2, <3>4 DEF Proposes, SameProposal
  <2> QED BY <2>2, <2>3
<1>13. \A v, i, n : <<v, i, n>> \in P2 => v \in D2
  <2> SUFFICES ASSUME NEW v, NEW i, NEW n, <<v, i, n>> \in P2 PROVE v \in D2
    OBVIOUS
  <2>1. CASE <<v, i, n>> \in P
    BY <1>1, <2>1 DEF IInv, History
  <2>2. CASE \E p \in net' : Proposes(p, v, i, n)
    <3>1. PICK p \in net' : Proposes(p, v, i, n)
      BY <2>2
    <3> QED BY <1>11, <2>1, <3>1 DEF Proposes
  <2> QED BY <1>2, <2>1, <2>2
<1>14. \A v, i : <<v, i>> \in U2 => v \in D2
  BY <1>1, <1>3 DEF IInv, History
<1>15. ASSUME NEW v \in D2 PROVE Cardinality({i \in Replicas : <<v, i>> \in U2}) >= Quorum
  <2> DEFINE new == {i \in Replicas : <<v, i>> \in U2}
  <2>1. ASSUME NEW old \in SUBSET new, Cardinality(old) >= Quorum PROVE Cardinality(new) >= Quorum
    <3>1. Cardinality(old) <= Cardinality(new)
      BY SubsetsCount, FS_Subset
    <3>2. Cardinality(old) \in Nat /\ Cardinality(new) \in Nat
      BY SubsetsCount
    <3> QED BY <2>1, <3>1, <3>2, Replicated
  <2>2. CASE v \in D
    <3> DEFINE old == {i \in Replicas : <<v, i>> \in U}
    <3>1. old \subseteq new
      BY <1>3
    <3>2. Cardinality(old) >= Quorum
      BY <2>2 DEF IInv, History
    <3> HIDE DEF old, new
    <3> QED BY <2>1, <3>1, <3>2 DEF new
  <2>3. CASE v \notin D
    <3>1. PICK r \in Replicas : v \in rep'[r].proposed \ rep[r].proposed
      BY <1>9, <2>3
    <3> DEFINE old == Held(rep'[r], v)
    <3>2. old \subseteq new
      BY <1>3, <2>3, <3>1 DEF Held
    <3>3. Cardinality(old) >= Quorum
      BY <1>4, <3>1 DEF Step
    <3> HIDE DEF old, new
    <3> QED BY <2>1, <3>2, <3>3 DEF new
  <2> QED BY <2>2, <2>3
<1>16. ASSUME NEW v \in D2, NEW i \in Replicas \ failed', <<v, i>> \in U2 PROVE Spent(v, i)'
  <2>1. i \in Replicas \ failed /\ NewViewOnce(i)'
    BY <1>8 DEF Moves
  <2>2. CASE <<v, i>> \in U
    <3>1. Spent(v, i)
      BY <2>1, <2>2 DEF IInv, History
    <3> QED BY <2>1, <3>1, MovesSpent
  <2>3. CASE \E r \in Replicas : v \in rep'[r].proposed /\ i \in Held(rep'[r], v)
    <3>1. PICK r \in Replicas : v \in rep'[r].proposed /\ i \in Held(rep'[r], v)
      BY <2>3
    <3>2. v - 1 \in rep'[i].left /\ \A p \in net' : ~ NewViewFrom(p, i, v - 1)
      BY <2>1, <3>1 DEF NewViewOnce
    <3>3. LeaderOf(cfg', v) = r
      BY <1>4, <3>1 DEF Moves
    <3> QED BY <3>1, <3>2, <3>3 DEF Spent
  <2> QED BY <1>3, <1>16, <2>2, <2>3
<1>17. History(D2, P2, U2)'
  BY <1>10, <1>12, <1>13, <1>14, <1>15, <1>16 DEF History
<1>18. IInv(D2, P2, U2)'
  BY <1>5, <1>6, <1>7, <1>8, <1>17 DEF IInv
<1> QED BY <1>2, <1>18 DEF Later
-----------------------------------------------------------------------------
(* The actions *)

LEMMA FewerSent ==
  ASSUME NEW c, NEW P, NEW r, NEW s, NEW t, NEW a, NEW b, Step(c, P, r, s, t, a), b \subseteq a
  PROVE  Step(c, P, r, s, t, b)
BY DEF Step, OutOK

LEMMA Idle ==
  ASSUME NEW c, NEW P, NEW r, NEW s, LocalInv(c, P, r, s) PROVE Step(c, P, r, s, s, {})
BY NothingStep DEF QuietStep, Nothing, Does

LEMMA BootStep ==
  ASSUME cfg \in Configs, NEW P, NEW r \in Replicas
  PROVE  /\ LocalInv(cfg, P, r, Boot(r).state)
         /\ Boot(r).state.new_view = {} /\ Boot(r).state.proposed = {}
         /\ \A v : Held(Boot(r).state, v) = {}
         /\ \A p \in Boot(r).out : /\ p.dst \in Replicas /\ p.msg.from = r
                                   /\ MessageOK(P, p.dst, p.msg)
                                   /\ IsNewView(p.msg) => p.msg.view \in Boot(r).state.left
         /\ \A p, q \in Boot(r).out : SameNewView(p, q) => p = q
<1> DEFINE s == InitialReplica
<1>1. IsState(s) /\ s.view = 0 /\ s.new_view = {} /\ s.proposed = {} /\ s.votes = {}
      /\ s.qcs = {} /\ s.high_qc = {} /\ s.deferred = <<>>
  BY DEF InitialReplica, IsState, Fields
<1> HIDE DEF s
<1>2. VotesInv(P, s) /\ NewViewInv(cfg, r, s)
  BY <1>1 DEF VotesInv, NewViewInv
<1>3. DeferredInv(s)
  <2>1. s.deferred \in Seq({})
    BY <1>1
  <2> QED BY <2>1 DEF DeferredInv
<1>4. LocalInv(cfg, P, r, s)
  BY <1>1, <1>2, <1>3 DEF LocalInv
<1>5. QuietStep(cfg, P, r, s, Boot(r))
  BY <1>4, AdvanceStep DEF Boot, s
<1>6. Step(cfg, P, r, s, Boot(r).state, Boot(r).out) /\ Quiet(s, Boot(r).state)
  BY <1>5 DEF QuietStep
<1>7. Boot(r).state.new_view = {} /\ Boot(r).state.proposed = {}
  BY <1>1, <1>6 DEF Quiet
<1>8. \A v : Held(Boot(r).state, v) = {}
  BY <1>7 DEF Held
<1>9. OutOK(P, r, s, Boot(r).state, Boot(r).out) /\ LocalInv(cfg, P, r, Boot(r).state)
  BY <1>6 DEF Step
<1> QED BY <1>7, <1>8, <1>9 DEF OutOK, SendOK

LEMMA InitInv == Init => Inv
<1> SUFFICES ASSUME Init PROVE Inv
  OBVIOUS
<1>1. cfg \in Configs /\ down = {} /\ failed = {}
  BY DEF Init
<1>2. \A r \in Replicas : rep[r] = Boot(r).state
  BY DEF Init
<1>3. ClusterInv
  BY <1>1, FS_EmptySet, Replicated DEF ClusterInv, Init
<1>4. PICK P : P = {}
  OBVIOUS
<1>5. ASSUME NEW r \in Replicas
      PROVE  /\ LocalInv(cfg, P, r, rep[r]) /\ rep[r].proposed = {}
             /\ \A v : Held(rep[r], v) = {}
             /\ \A p \in Boot(r).out : /\ p.dst \in Replicas /\ p.msg.from = r
                                       /\ MessageOK(P, p.dst, p.msg)
                                       /\ IsNewView(p.msg) => p.msg.view \in rep[r].left
             /\ \A p, q \in Boot(r).out : SameNewView(p, q) => p = q
  <2>1. rep[r] = Boot(r).state
    BY <1>2
  <2> DEFINE b == Boot(r)
  <2>2. /\ LocalInv(cfg, P, r, b.state) /\ b.state.proposed = {}
        /\ \A v : Held(b.state, v) = {}
    BY <1>1, BootStep
  <2>3. /\ \A p \in b.out : /\ p.dst \in Replicas /\ p.msg.from = r
                            /\ MessageOK(P, p.dst, p.msg)
                            /\ IsNewView(p.msg) => p.msg.view \in b.state.left
        /\ \A p, q \in b.out : SameNewView(p, q) => p = q
    BY <1>1, BootStep
  <2> QED BY <2>1, <2>2, <2>3
<1>6. ASSUME NEW p \in net
      PROVE  p.msg.from \in Replicas /\ p \in Boot(p.msg.from).out
             /\ p.dst \in Replicas /\ MessageOK(P, p.dst, p.msg)
             /\ (IsNewView(p.msg) => p.msg.view \in rep[p.msg.from].left)
  <2>1. PICK r \in Replicas : p \in Boot(r).out
    BY DEF Init
  <2>2. /\ p.dst \in Replicas /\ p.msg.from = r /\ MessageOK(P, p.dst, p.msg)
        /\ (IsNewView(p.msg) => p.msg.view \in rep[r].left)
    BY <1>5, <2>1
  <2> QED BY <2>1, <2>2
<1>7. \A i \in Replicas : NewViewOnce(i)
  <2> SUFFICES ASSUME NEW i \in Replicas PROVE NewViewOnce(i)
    OBVIOUS
  <2>1. \A p, q \in net : p.msg.from = i /\ q.msg.from = i /\ SameNewView(p, q) => p = q
    BY <1>5, <1>6
  <2> QED BY <1>5, <1>6, <2>1 DEF NewViewOnce
<1>8. History({}, P, {})
  BY <1>4, <1>5 DEF History
<1>9. IInv({}, P, {})
  BY <1>3, <1>5, <1>6, <1>7, <1>8 DEF IInv
<1> QED BY <1>9 DEF Inv

\* One replica makes the step x.
LEMMA TakeKeeps ==
  ASSUME NEW D, NEW P, NEW U, IInv(D, P, U), NEW r \in Replicas, NEW x, NEW gone,
         Step(cfg, P, r, rep[r], x.state, x.out), Take(r, x, net \ gone),
         UNCHANGED <<cfg, down, failed>>,
         \A v, i : i \in Held(x.state, v) => \/ i \in Held(rep[r], v)
                                             \/ \E p \in net \cap gone : NewViewFrom(p, i, v - 1)
  PROVE  Later(P)'
<1>1. PICK out : out = [k \in Replicas |-> IF k = r THEN x.out ELSE {}]
  OBVIOUS
<1>2. rep = [k \in Replicas |-> rep[k]] /\ \A k \in Replicas : LocalInv(cfg, P, k, rep[k])
  BY DEF IInv, ClusterInv
<1>3. /\ rep' = [k \in Replicas |-> rep'[k]]
      /\ \A k \in Replicas : rep'[k] = IF k = r THEN x.state ELSE rep[k]
  BY <1>2 DEF Take
<1>4. \A k \in Replicas : Step(cfg, P, k, rep[k], rep'[k], out[k])
  BY <1>1, <1>2, <1>3, Idle
<1>5. \A p \in net' : p \in net \ gone \/ \E k \in Replicas : p \in out[k]
  BY <1>1 DEF Take, Reaches
<1>6. \A k \in Replicas : \A v, i :
         i \in Held(rep'[k], v) => \/ i \in Held(rep[k], v)
                                   \/ \E p \in net \cap gone : NewViewFrom(p, i, v - 1)
  BY <1>3
<1>7. Moves(P, out, gone)
  BY <1>3, <1>4, <1>5, <1>6 DEF Moves
<1> QED BY <1>7, MovesKeep

LEMMA DeliverKeeps ==
  ASSUME NEW D, NEW P, NEW U, IInv(D, P, U), NEW p \in net, Deliver(p)
  PROVE  Later(P)'
<1> DEFINE r == p.dst
           x == Dispatch(r, rep[r], p.msg)
<1>1. r \in Replicas /\ MessageOK(P, r, p.msg) /\ LocalInv(cfg, P, r, rep[r]) /\ cfg \in Configs
  BY DEF IInv, ClusterInv
<1>2. Step(cfg, P, r, rep[r], x.state, x.out) /\ HoldsMore(rep[r], x.state, p.msg)
  BY <1>1, DispatchStep
<1>3. Take(r, x, net \ {p}) /\ UNCHANGED <<cfg, down, failed>>
  BY DEF Deliver
<1>4. PICK gone : gone = {p}
  OBVIOUS
<1> HIDE DEF r, x
<1>5. ASSUME NEW v, NEW i, i \in Held(x.state, v)
      PROVE  i \in Held(rep[r], v) \/ \E q \in net \cap gone : NewViewFrom(q, i, v - 1)
  <2>1. \/ i \in Held(rep[r], v)
        \/ IsNewView(p.msg) /\ v = p.msg.view + 1 /\ i = p.msg.from
    BY <1>2, <1>5 DEF HoldsMore
  <2>2. p.msg.view \in Nat
    BY <1>1 DEF MessageOK
  <2> QED BY <1>4, <2>1, <2>2 DEF NewViewFrom
<1> QED BY <1>1, <1>2, <1>3, <1>4, <1>5, TakeKeeps

LEMMA LoseKeeps ==
  ASSUME NEW D, NEW P, NEW U, IInv(D, P, U), NEW p \in net, Lose(p)
  PROVE  Later(P)'
<1>1. PICK out : out = [k \in Replicas |-> {}]
  OBVIOUS
<1>2. rep = [k \in Replicas |-> rep[k]] /\ \A k \in Replicas : LocalInv(cfg, P, k, rep[k])
  BY DEF IInv, ClusterInv
<1>3. \A k \in Replicas : Step(cfg, P, k, rep[k], rep'[k], out[k])
  BY <1>1, <1>2, Idle DEF Lose
<1>4. Moves(P, out, {})
  BY <1>2, <1>3 DEF Moves, Lose
<1> QED BY <1>4, MovesKeep

LEMMA TimeoutKeeps ==
  ASSUME NEW D, NEW P, NEW U, IInv(D, P, U), NEW r \in Replicas, OnTimeout(r)
  PROVE  Later(P)'
<1> DEFINE x == AdvanceFrom(r, rep[r], rep[r].view)
<1>1. LocalInv(cfg, P, r, rep[r]) /\ cfg \in Configs /\ rep[r].view \in Nat
  BY DEF IInv, ClusterInv, LocalInv
<1>2. QuietStep(cfg, P, r, rep[r], x)
  BY <1>1, AdvanceStep
<1>3. Take(r, x, net \ {}) /\ UNCHANGED <<cfg, down, failed>>
  <2>1. net \ {} = net
    OBVIOUS
  <2> QED BY <2>1 DEF OnTimeout
<1> HIDE DEF x
<1>4. Step(cfg, P, r, rep[r], x.state, x.out) /\ \A v : Held(x.state, v) = Held(rep[r], v)
  BY <1>2 DEF QuietStep, Quiet, Held
<1> QED BY <1>3, <1>4, TakeKeeps

LEMMA SubmitKeeps ==
  ASSUME NEW D, NEW P, NEW U, IInv(D, P, U), NEW cmd, Submit(cmd)
  PROVE  Later(P)'
<1> DEFINE t(r) == [rep[r] EXCEPT !.pending = Append(@, cmd)]
           x(r) == TryPropose(r, t(r), t(r).view)
<1>1. cfg \in Configs /\ \A k \in Replicas : LocalInv(cfg, P, k, rep[k])
  BY DEF IInv, ClusterInv
<1>2. PICK out : out = [k \in Replicas |-> IF k \in down THEN {} ELSE x(k).out]
  OBVIOUS
<1>3. /\ rep' = [k \in Replicas |-> rep'[k]]
      /\ \A k \in Replicas : rep'[k] = IF k \in down THEN rep[k] ELSE x(k).state
      /\ cfg' = cfg /\ failed' = failed /\ down' = down
      /\ net' = net \cup UNION {Reaches(x(k).out) : k \in Replicas \ down}
  BY DEF Submit
<1>4. ASSUME NEW r \in Replicas
      PROVE  Step(cfg, P, r, rep[r], x(r).state, x(r).out) /\ x(r).state.new_view = rep[r].new_view
  <2> DEFINE s == rep[r]
             u == t(r)
             y == TryPropose(r, u, u.view)
  <2>1. IsState(s) /\ s.view \in Nat /\ LocalInv(cfg, P, r, s)
    BY <1>1 DEF LocalInv
  <2> HIDE DEF s
  <2>2. u = [s EXCEPT !.pending = Append(@, cmd)]
    BY DEF s
  <2> HIDE DEF u
  <2>3. IsState(u) /\ \A f \in Fields \ {"pending"} : u[f] = s[f]
    BY <2>1, <2>2 DEF IsState, Fields
  <2>4. u.view \in Nat /\ u.left = s.left /\ \A f \in Tracked : u[f] = s[f]
    BY <2>1, <2>3 DEF Fields, Tracked
  <2>5. LocalInv(cfg, P, r, u) /\ QuietStep(cfg, P, r, s, Nothing(u))
    BY <2>1, <2>3, <2>4, SameInv, SameStep
  <2>6. Step(cfg, P, r, s, u, {}) /\ Quiet(s, u)
    BY <2>5 DEF QuietStep, Nothing, Does
  <2>7. Step(cfg, P, r, u, y.state, y.out) /\ y.state.new_view = u.new_view
    BY <1>1, <2>5, TryProposeStep
  <2> HIDE DEF y
  <2>8. Step(cfg, P, r, s, y.state, {} \cup y.out)
    BY <2>6, <2>7, Then DEF Quiet
  <2>9. {} \cup y.out = y.out
    OBVIOUS
  <2> QED BY <2>6, <2>7, <2>8, <2>9 DEF Quiet, s, u, y
<1> HIDE DEF x, t
<1>5. \A k \in Replicas : Step(cfg, P, k, rep[k], rep'[k], out[k])
  BY <1>1, <1>2, <1>3, <1>4, Idle
<1>6. \A p \in net' : p \in net \ {} \/ \E k \in Replicas : p \in out[k]
  BY <1>2, <1>3 DEF Reaches
<1>7. \A k \in Replicas : \A v : Held(rep'[k], v) = Held(rep[k], v)
  BY <1>3, <1>4 DEF Held
<1>8. Moves(P, out, {})
  BY <1>3, <1>5, <1>6, <1>7 DEF Moves
<1> QED BY <1>8, MovesKeep

LEMMA CrashKeeps ==
  ASSUME NEW D, NEW P, NEW U, IInv(D, P, U), NEW r \in Replicas, Crash(r)
  PROVE  Later(P)'
<1>1. ClusterInv'
  <2>1. /\ failed \subseteq Replicas /\ cfg \in Configs /\ cfg.byzantine \subseteq Replicas
        /\ failed' = failed \cup {r} /\ down' = down \cup {r} /\ down \subseteq failed
        /\ rep' = rep /\ cfg' = cfg /\ rep = [k \in Replicas |-> rep[k]]
    BY HotStuffAssumption DEF IInv, ClusterInv, Crash, ValidConfig
  <2> DEFINE all == failed \cup cfg.byzantine \cup {r}
             some == failed \cup {r}
  <2>2. all \subseteq Replicas /\ some \subseteq all /\ Cardinality(all) <= F
    BY <2>1 DEF Crash
  <2> HIDE DEF all, some
  <2>3. Cardinality(some) <= Cardinality(all)
    BY <2>2, SubsetsCount, FS_Subset
  <2>4. Cardinality(some) \in Nat /\ Cardinality(all) \in Nat /\ F \in Nat
    BY <2>2, SubsetsCount, Replicated
  <2>5. Cardinality(some) <= F
    BY <2>2, <2>3, <2>4
  <2> QED BY <2>1, <2>5 DEF ClusterInv, some
<1>2. rep' = rep /\ net' = net /\ cfg' = cfg /\ failed \subseteq failed'
  BY DEF Crash
<1>3. \A i : NewViewOnce(i) => NewViewOnce(i)'
  BY <1>2 DEF NewViewOnce
<1>4. \A v, i : Spent(v, i) => Spent(v, i)'
  BY <1>2 DEF Spent
<1>5. History(D, P, U)'
  BY <1>2, <1>4 DEF IInv, History
<1>6. IInv(D, P, U)'
  BY <1>1, <1>2, <1>3, <1>5 DEF IInv
<1> QED BY <1>6 DEF Later

LEMMA RestartKeeps ==
  ASSUME NEW D, NEW P, NEW U, IInv(D, P, U), NEW r \in Replicas, Restart(r)
  PROVE  Later(P)'
<1>1. /\ cfg \in Configs /\ rep = [k \in Replicas |-> rep[k]] /\ r \in failed
      /\ failed' = failed /\ cfg' = cfg
  BY DEF IInv, ClusterInv, Restart
<1>2. /\ rep' = [k \in Replicas |-> rep'[k]]
      /\ \A k \in Replicas : rep'[k] = IF k = r THEN Boot(r).state ELSE rep[k]
  BY <1>1 DEF Restart
<1>3. ClusterInv'
  BY <1>1, <1>2 DEF IInv, ClusterInv, Restart
<1>4. \A p \in net' : p \in net \/ p \in Boot(r).out
  BY DEF Restart
<1>5. /\ LocalInv(cfg, P, r, Boot(r).state) /\ Boot(r).state.proposed = {}
      /\ \A v : Held(Boot(r).state, v) = {}
      /\ \A p \in Boot(r).out : p.dst \in Replicas /\ p.msg.from = r /\ MessageOK(P, p.dst, p.msg)
  BY <1>1, BootStep
<1>6. \A p \in net' : p.dst \in Replicas /\ MessageOK(P, p.dst, p.msg)
  BY <1>4, <1>5 DEF IInv
<1>7. \A k \in Replicas : LocalInv(cfg', P, k, rep'[k])
  BY <1>1, <1>2, <1>5 DEF IInv
<1>8. ASSUME NEW i \in Replicas \ failed
      PROVE  /\ rep'[i] = rep[i]
             /\ \A p \in net' : p.msg.from = i => p \in net
             /\ \A k \in Replicas : \A v : i \in Held(rep'[k], v) => i \in Held(rep[k], v)
  BY <1>1, <1>2, <1>4, <1>5
<1>9. \A i \in Replicas \ failed : NewViewOnce(i)'
  <2> SUFFICES ASSUME NEW i \in Replicas \ failed PROVE NewViewOnce(i)'
    OBVIOUS
  <2>1. NewViewOnce(i)
    BY DEF IInv
  <2> QED BY <1>8, <2>1 DEF NewViewOnce, NewViewFrom
<1>10. ASSUME NEW v, NEW i \in Replicas \ failed, Spent(v, i) PROVE Spent(v, i)'
  <2>1. v - 1 \in rep'[i].left /\ \A p \in net' : ~ NewViewFrom(p, i, v - 1)
    BY <1>8, <1>10 DEF Spent, NewViewFrom
  <2>2. ASSUME NEW k \in Replicas, LeaderOf(cfg', v) = k, v \notin rep'[k].proposed
        PROVE  i \notin Held(rep'[k], v)
    <3>1. CASE k = r
      BY <1>2, <1>5, <3>1
    <3>2. CASE k # r
      BY <1>1, <1>2, <1>10, <2>2, <3>2 DEF Spent
    <3> QED BY <3>1, <3>2
  <2> QED BY <2>1, <2>2 DEF Spent
<1>11. \A k \in Replicas : rep'[k].proposed \subseteq D
  BY <1>2, <1>5 DEF IInv, History
<1>12. History(D, P, U)'
  BY <1>1, <1>10, <1>11 DEF IInv, History
<1>13. IInv(D, P, U)'
  BY <1>1, <1>3, <1>6, <1>7, <1>9, <1>12 DEF IInv
<1> QED BY <1>13 DEF Later

LEMMA NextKeeps ==
  ASSUME NEW D, NEW P, NEW U, IInv(D, P, U), [Next]_vars
  PROVE  Later(P)'
<1>1. IInv(D, P, U)
  OBVIOUS
<1>2. CASE UNCHANGED vars
  <2>1. cfg' = cfg /\ rep' = rep /\ net' = net /\ down' = down /\ failed' = failed
    BY <1>2 DEF vars
  <2>2. (\A i : NewViewOnce(i) => NewViewOnce(i)') /\ (\A v, i : Spent(v, i) => Spent(v, i)')
    BY <2>1 DEF NewViewOnce, Spent
  <2>3. History(D, P, U)'
    BY <1>1, <2>1, <2>2 DEF IInv, History
  <2>4. IInv(D, P, U)'
    BY <1>1, <2>1, <2>2, <2>3 DEF IInv, ClusterInv
  <2> QED BY <2>4 DEF Later
<1>3. ASSUME NEW p \in net, Deliver(p) PROVE Later(P)'
  BY <1>1, <1>3, DeliverKeeps
<1>4. ASSUME NEW p \in net, Lose(p) PROVE Later(P)'
  BY <1>1, <1>4, LoseKeeps
<1>5. ASSUME NEW cmd \in Commands, Submit(cmd) PROVE Later(P)'
  BY <1>1, <1>5, SubmitKeeps
<1>6. ASSUME NEW r \in Replicas, OnTimeout(r) PROVE Later(P)'
  BY <1>1, <1>6, TimeoutKeeps
<1>7. ASSUME NEW r \in Replicas, Crash(r) PROVE Later(P)'
  BY <1>1, <1>7, CrashKeeps
<1>8. ASSUME NEW r \in Replicas, Restart(r) PROVE Later(P)'
  BY <1>1, <1>8, RestartKeeps
<1> QED BY <1>2, <1>3, <1>4, <1>5, <1>6, <1>7, <1>8 DEF Next

LEMMA NextInv == Inv /\ [Next]_vars => Inv'
<1> SUFFICES ASSUME Inv, [Next]_vars PROVE Inv'
  OBVIOUS
<1>1. PICK D, P, U : IInv(D, P, U)
  BY DEF Inv
<1>2. Later(P)'
  BY <1>1, NextKeeps
<1> QED BY <1>2 DEF Later, Inv
-----------------------------------------------------------------------------
(* Branches.  A node is the sequence of the links from genesis to it.        *)

IsNode(n) == \E S : n \in Seq(S)

StrictPrefix(a, b) == IsPrefix(a, b) /\ Len(a) < Len(b)

Path(n) == [k \in 1 .. Len(n) |-> Ancestor(n, k)]

LEMMA PrefixIs ==
  ASSUME NEW a, NEW b, IsNode(a), IsNode(b)
  PROVE  /\ Len(a) \in Nat /\ Len(b) \in Nat
         /\ IsPrefix(a, b) <=> Len(a) <= Len(b) /\ \A k \in 1 .. Len(a) : a[k] = b[k]
<1>1. PICK S : a \in Seq(S)
  BY DEF IsNode
<1>2. PICK T : b \in Seq(T)
  BY DEF IsNode
<1>3. Len(a) \in Nat /\ Len(b) \in Nat
  BY <1>1, <1>2
<1>4. CASE Len(a) <= Len(b)
  <2>1. SubSeq(a, 1, Len(a)) = [k \in 1 .. Len(a) |-> a[k]]
    BY <1>1
  <2>2. SubSeq(b, 1, Len(a)) = [k \in 1 .. Len(a) |-> b[k]]
    BY <1>2, <1>3, <1>4
  <2> QED BY <1>3, <1>4, <2>1, <2>2 DEF IsPrefix
<1>5. CASE ~ (Len(a) <= Len(b))
  BY <1>3, <1>5 DEF IsPrefix
<1> QED BY <1>3, <1>4, <1>5

LEMMA PrefixTrans ==
  ASSUME NEW a, NEW b, NEW c, IsNode(a), IsNode(b), IsNode(c), IsPrefix(a, b), IsPrefix(b, c)
  PROVE  IsPrefix(a, c)
<1>1. /\ Len(a) \in Nat /\ Len(b) \in Nat /\ Len(c) \in Nat
      /\ Len(a) <= Len(b) /\ \A k \in 1 .. Len(a) : a[k] = b[k]
      /\ Len(b) <= Len(c) /\ \A k \in 1 .. Len(b) : b[k] = c[k]
  BY PrefixIs
<1>2. Len(a) <= Len(c) /\ \A k \in 1 .. Len(a) : a[k] = c[k]
  BY <1>1
<1> QED BY <1>2, PrefixIs

LEMMA GenesisIsNode == IsNode(Genesis) /\ Len(Genesis) = 0
<1>1. Genesis \in Seq({})
  BY DEF Genesis
<1> QED BY <1>1 DEF IsNode, Genesis

LEMMA GenesisFirst ==
  ASSUME NEW n, IsNode(n) PROVE IsPrefix(Genesis, n)
BY GenesisIsNode, PrefixIs

LEMMA ChildOf ==
  ASSUME NEW n, IsNode(n), NEW x
  PROVE  /\ IsNode(Append(n, x)) /\ StrictPrefix(n, Append(n, x))
         /\ Len(Append(n, x)) > 0 /\ Append(n, x)[Len(Append(n, x))] = x
<1>1. PICK S : n \in Seq(S)
  BY DEF IsNode
<1>2. n \in Seq(S \cup {x})
  BY <1>1
<1>3. /\ Append(n, x) \in Seq(S \cup {x}) /\ Len(Append(n, x)) = Len(n) + 1 /\ Len(n) \in Nat
      /\ \A k \in 1 .. Len(n) : Append(n, x)[k] = n[k]
      /\ Append(n, x)[Len(n) + 1] = x
  BY <1>2
<1>4. IsNode(Append(n, x))
  BY <1>3 DEF IsNode
<1> DEFINE a == Append(n, x)
<1>5. IsPrefix(n, a)
  <2>1. Len(n) <= Len(a) /\ \A k \in 1 .. Len(n) : n[k] = a[k]
    BY <1>3
  <2> HIDE DEF a
  <2> QED BY <1>4, <2>1, PrefixIs DEF a
<1> QED BY <1>3, <1>4, <1>5 DEF StrictPrefix

LEMMA AncestorIs ==
  ASSUME NEW n, IsNode(n), NEW k \in 0 .. Len(n)
  PROVE  /\ Ancestor(n, k) = [j \in 1 .. k |-> n[j]]
         /\ IsNode(Ancestor(n, k)) /\ Len(Ancestor(n, k)) = k
<1>1. PICK S : n \in Seq(S)
  BY DEF IsNode
<1>2. /\ SubSeq(n, 1, k) = [j \in 1 .. k |-> n[j]] /\ SubSeq(n, 1, k) \in Seq(S)
      /\ Len(SubSeq(n, 1, k)) = k
  BY <1>1
<1> QED BY <1>2 DEF Ancestor, IsNode

LEMMA SameAncestor ==
  ASSUME NEW a, NEW b, IsNode(a), IsNode(b), IsPrefix(a, b), NEW k \in 0 .. Len(a)
  PROVE  Ancestor(a, k) = Ancestor(b, k) /\ k \in 0 .. Len(b)
<1>1. /\ Len(a) \in Nat /\ Len(b) \in Nat /\ Len(a) <= Len(b)
      /\ \A j \in 1 .. Len(a) : a[j] = b[j]
  BY PrefixIs
<1>2. k \in 0 .. Len(b) /\ \A j \in 1 .. k : a[j] = b[j]
  BY <1>1
<1>3. Ancestor(a, k) = [j \in 1 .. k |-> a[j]] /\ Ancestor(b, k) = [j \in 1 .. k |-> b[j]]
  BY <1>2, AncestorIs
<1> QED BY <1>2, <1>3

LEMMA WholeNode ==
  ASSUME NEW n, IsNode(n) PROVE Ancestor(n, Len(n)) = n /\ Len(n) \in Nat
<1>1. PICK S : n \in Seq(S)
  BY DEF IsNode
<1>2. Len(n) \in Nat /\ n = [j \in 1 .. Len(n) |-> n[j]]
  BY <1>1
<1>3. Ancestor(n, Len(n)) = [j \in 1 .. Len(n) |-> n[j]]
  BY <1>2, AncestorIs
<1> QED BY <1>2, <1>3

LEMMA PathIs ==
  ASSUME NEW n, IsNode(n)
  PROVE  /\ IsNode(Path(n)) /\ Len(Path(n)) = Len(n) /\ Len(n) \in Nat
         /\ \A k \in 1 .. Len(n) : Path(n)[k] = Ancestor(n, k)
<1>1. Len(n) \in Nat
  BY WholeNode
<1> DEFINE T == {Ancestor(n, k) : k \in 1 .. Len(n)}
<1>2. \A k \in 1 .. Len(n) : Path(n)[k] = Ancestor(n, k) /\ Path(n)[k] \in T
  BY DEF Path
<1> HIDE DEF T
<1>3. Path(n) \in [1 .. Len(n) -> T]
  BY <1>2 DEF Path
<1>4. Path(n) \in Seq(T)
  BY <1>1, <1>3
<1>5. Len(Path(n)) = Len(n)
  BY <1>1, <1>3, <1>4
<1> QED BY <1>1, <1>2, <1>4, <1>5 DEF IsNode
-----------------------------------------------------------------------------
(* Safety across views.  The history also has Z, the pairs <<view, node>> of  *)
(* which a PREPARE QC was formed (and genesis); G, the triples <<view,        *)
(* replica, node>> of the PREPARE votes such a QC may rest on; and C, those   *)
(* of the COMMIT votes cast.                                                  *)

\* Replica i, which has cast the COMMIT votes C, may vote for n in PREPARE of
\* v: n extends a certified node of no earlier view than any it has voted to
\* commit before.
Good(Z, C, i, v, n) ==
  \E u, k : /\ <<u, k>> \in Z /\ StrictPrefix(k, n)
            /\ \A w, b : <<w, i, b>> \in C /\ w < v => w <= u

GhostOK(P, Z, C, G) ==
  /\ <<0, Genesis>> \in Z
  /\ \A v, n : <<v, n>> \in Z => \/ v = 0 /\ n = Genesis
                                 \/ Certified(G, v, n)
  /\ \E b \in Nat : \A v, n : <<v, n>> \in Z => v <= b
  /\ \A v, i, n : <<v, i, n>> \in G => /\ <<v, i, n>> \in P /\ v \in Nat \ {0}
                                       /\ IsNode(n) /\ Len(n) > 0 /\ n[Len(n)][1] = v
  /\ \A v, i, n : <<v, i, n>> \in C => <<v, n>> \in Z

\* What replica i, if it never crashed, remembers of its votes
Kept(Z, C, G, i, s) ==
  /\ \A v, n : <<v, i, n>> \in G => v <= s.view /\ Good(Z, C, i, v, n)
  /\ \A v, n : <<v, i, n>> \in C => v <= s.locked_qc.view

\* A quorum of members, at most F of whom have crashed
LEMMA QuorumCertifies ==
  ASSUME NEW T, NEW v, NEW n, Certified(T, v, n)
  PROVE  \E i \in Replicas : <<v, i, n>> \in T
<1>1. PICK q \in SUBSET Replicas : Cardinality(q) >= Quorum /\ \A i \in q : <<v, i, n>> \in T
  BY DEF Certified
<1>2. Cardinality(q) > F
  BY <1>1, SubsetsCount, Replicated
<1>3. PICK i \in q : TRUE
  BY <1>2, SomeoneIn
<1> QED BY <1>1, <1>3

LEMMA CertifiedStays ==
  ASSUME NEW S, NEW T, S \subseteq T, NEW v, NEW n, Certified(S, v, n) PROVE Certified(T, v, n)
BY DEF Certified

LEMMA HonestWitness ==
  ASSUME NEW f \in SUBSET Replicas, Cardinality(f) <= F,
         NEW S, NEW T, NEW v, NEW m, NEW w, NEW n, Certified(S, v, m), Certified(T, w, n)
  PROVE  \E i \in Replicas \ f : <<v, i, m>> \in S /\ <<w, i, n>> \in T
<1>1. PICK q \in SUBSET Replicas : Cardinality(q) >= Quorum /\ \A i \in q : <<v, i, m>> \in S
  BY DEF Certified
<1>2. PICK k \in SUBSET Replicas : Cardinality(k) >= Quorum /\ \A i \in k : <<w, i, n>> \in T
  BY DEF Certified
<1>3. PICK i \in q \cap k : i \notin f
  <2> SUFFICES ASSUME q \cap k \subseteq f PROVE FALSE
    OBVIOUS
  <2>1. Cardinality(q \cap k) > F
    BY <1>1, <1>2, QuorumsMeet
  <2>2. Cardinality(q \cap k) <= Cardinality(f)
    BY SubsetsCount, FS_Subset
  <2>3. Cardinality(q \cap k) \in Nat /\ Cardinality(f) \in Nat /\ F \in Nat
    BY SubsetsCount, Replicated
  <2> QED BY <2>1, <2>2, <2>3
<1> QED BY <1>1, <1>2, <1>3

LEMMA CertifiedNode ==
  ASSUME NEW P, NEW Z, NEW C, NEW G, GhostOK(P, Z, C, G), NEW v, NEW n, <<v, n>> \in Z
  PROVE  /\ v \in Nat /\ IsNode(n)
         /\ v = 0 => n = Genesis
         /\ v # 0 => Certified(G, v, n) /\ Len(n) > 0 /\ n[Len(n)][1] = v
<1>1. CASE v = 0 /\ n = Genesis
  BY <1>1, GenesisIsNode
<1>2. CASE Certified(G, v, n)
  <2>1. PICK i \in Replicas : <<v, i, n>> \in G
    BY <1>2, QuorumCertifies
  <2>2. v \in Nat \ {0} /\ IsNode(n) /\ Len(n) > 0 /\ n[Len(n)][1] = v
    BY <2>1 DEF GhostOK
  <2> QED BY <1>2, <2>2
<1> QED BY <1>1, <1>2 DEF GhostOK

OneAsked(P) == \A v, i, m, n : <<v, i, m>> \in P /\ <<v, i, n>> \in P => m = n

LEMMA OneCertified ==
  ASSUME NEW P, NEW Z, NEW C, NEW G, GhostOK(P, Z, C, G), OneAsked(P),
         NEW v, NEW m, NEW n, <<v, m>> \in Z, <<v, n>> \in Z
  PROVE  m = n
<1>1. CASE v = 0
  BY <1>1, CertifiedNode
<1>2. CASE v # 0
  <2>1. Certified(G, v, m) /\ Certified(G, v, n)
    BY <1>2, CertifiedNode
  <2>2. \A w, i, a, b : <<w, i, a>> \in G /\ <<w, i, b>> \in G => a = b
    BY DEF GhostOK, OneAsked
  <2> QED BY <2>1, <2>2, CertifiedOnce
<1> QED BY <1>1, <1>2

\* What a quorum has voted to commit in v is on every branch that is
\* certified in v or later.
LEMMA ChosenStays ==
  ASSUME NEW P, NEW Z, NEW C, NEW G, GhostOK(P, Z, C, G), OneAsked(P),
         NEW f \in SUBSET Replicas, Cardinality(f) <= F,
         NEW s, \A i \in Replicas \ f : Kept(Z, C, G, i, s[i]),
         NEW v, NEW n, Certified(C, v, n)
  PROVE  \A w, k : <<w, k>> \in Z /\ v <= w => IsPrefix(n, k)
<1>1. PICK j \in Replicas : <<v, j, n>> \in C
  BY QuorumCertifies
<1>2. <<v, n>> \in Z /\ v \in Nat /\ IsNode(n)
  <2>1. <<v, n>> \in Z
    BY <1>1 DEF GhostOK
  <2> QED BY <2>1, CertifiedNode
<1> DEFINE Bad(w, k) == <<w, k>> \in Z /\ v <= w /\ ~ IsPrefix(n, k)
           lens == {l \in Nat : \E w, k : Bad(w, k) /\ l = Len(k)}
<1> SUFFICES ASSUME NEW w0, NEW k0, Bad(w0, k0) PROVE FALSE
  OBVIOUS
<1>3. \A w, k : Bad(w, k) => w \in Nat /\ IsNode(k) /\ Len(k) \in Nat
  BY CertifiedNode, WholeNode
<1>4. lens \in SUBSET Nat /\ lens # {}
  BY <1>3
<1>5. PICK l \in lens : \A x \in lens : l <= x
  BY <1>4, LeastNat
<1>6. PICK w, k : Bad(w, k) /\ l = Len(k)
  OBVIOUS
<1>7. <<w, k>> \in Z /\ w \in Nat /\ IsNode(k) /\ Len(k) \in Nat /\ v <= w
  BY <1>3, <1>6
<1>8. w # v
  <2>1. ASSUME w = v PROVE k = n
    BY <1>2, <1>7, <2>1, OneCertified
  <2>2. IsPrefix(n, n)
    BY <1>2, PrefixIs
  <2> QED BY <1>6, <2>1, <2>2
<1>9. w # 0 /\ v < w
  BY <1>2, <1>7, <1>8
<1>10. Certified(G, w, k)
  BY <1>7, <1>9, CertifiedNode
<1>11. PICK i \in Replicas \ f : <<v, i, n>> \in C /\ <<w, i, k>> \in G
  BY <1>10, HonestWitness
<1>12. Good(Z, C, i, w, k)
  BY <1>11 DEF Kept
<1>13. PICK u, b : <<u, b>> \in Z /\ StrictPrefix(b, k)
                   /\ \A x, a : <<x, i, a>> \in C /\ x < w => x <= u
  BY <1>12 DEF Good
<1>14. v <= u /\ IsNode(b) /\ Len(b) \in Nat
  BY <1>9, <1>11, <1>13, CertifiedNode, WholeNode
<1>15. IsPrefix(n, b)
  <2>1. ~ Bad(u, b)
    <3>1. Len(b) < Len(k)
      BY <1>13 DEF StrictPrefix
    <3>2. Bad(u, b) => Len(b) \in lens
      BY <1>14
    <3>3. Len(b) \in lens => l <= Len(b)
      BY <1>5
    <3> HIDE DEF Bad, lens
    <3> QED BY <1>6, <1>7, <1>14, <3>1, <3>2, <3>3
  <2> QED BY <1>13, <1>14, <2>1
<1>16. IsPrefix(n, k)
  BY <1>2, <1>7, <1>13, <1>14, <1>15, PrefixTrans DEF StrictPrefix
<1> QED BY <1>6, <1>16

\* All that was chosen is on one branch.
OneBranch(C) ==
  /\ \A v, n : Certified(C, v, n) => IsNode(n)
  /\ \A v, m, w, n : Certified(C, v, m) /\ Certified(C, w, n) => IsPrefix(m, n) \/ IsPrefix(n, m)

LEMMA ChosenBranch ==
  ASSUME NEW P, NEW Z, NEW C, NEW G, GhostOK(P, Z, C, G), OneAsked(P),
         NEW f \in SUBSET Replicas, Cardinality(f) <= F,
         NEW s, \A i \in Replicas \ f : Kept(Z, C, G, i, s[i])
  PROVE  OneBranch(C)
<1>1. ASSUME NEW v, NEW n, Certified(C, v, n) PROVE <<v, n>> \in Z /\ v \in Nat /\ IsNode(n)
  <2>1. PICK j \in Replicas : <<v, j, n>> \in C
    BY <1>1, QuorumCertifies
  <2>2. <<v, n>> \in Z
    BY <2>1 DEF GhostOK
  <2> QED BY <2>2, CertifiedNode
<1>2. ASSUME NEW v, NEW m, NEW w, NEW n, Certified(C, v, m), Certified(C, w, n)
      PROVE  IsPrefix(m, n) \/ IsPrefix(n, m)
  <2>1. <<v, m>> \in Z /\ <<w, n>> \in Z /\ (v <= w \/ w <= v)
    BY <1>1, <1>2
  <2>2. v <= w => IsPrefix(m, n)
    BY <1>2, <2>1, ChosenStays
  <2>3. w <= v => IsPrefix(n, m)
    BY <1>2, <2>1, ChosenStays
  <2> QED BY <2>1, <2>2, <2>3
<1> QED BY <1>1, <1>2 DEF OneBranch
-----------------------------------------------------------------------------
(* What keeps the history of Z, G and C                                      *)

QCSafe(Z, C, q) ==
  /\ q.view \in Nat /\ <<q.view, q.node>> \in Z
  /\ q.type = "COMMIT" => Certified(C, q.view, q.node)

VoteSafe(Z, C, G, type, v, n, i) ==
  /\ type = "PREPARE" => <<v, i, n>> \in G \/ <<v, n>> \in Z
  /\ type = "PRE_COMMIT" => <<v, n>> \in Z
  /\ type = "COMMIT" => <<v, i, n>> \in C

MsgSafe(Z, C, G, m) ==
  /\ m.vote => VoteSafe(Z, C, G, m.type, m.view, m.node, m.from)
  /\ ~ m.vote /\ m.type \in Phases \cup {"NEW_VIEW"} => QCSafe(Z, C, m.qc)
  /\ IsProposal(m) => m.view # 0 /\ \E c : m.node = Append(m.qc.node, <<m.view, c>>)

CertsSafe(Z, C, G, s) ==
  /\ QCSafe(Z, C, s.locked_qc) /\ QCSafe(Z, C, s.prepare_qc)
  /\ \A x \in s.new_view : QCSafe(Z, C, x[3])
  /\ \A h \in s.high_qc : h[1] # 0 /\ QCSafe(Z, C, h[2])
  /\ \A x \in s.votes : /\ x = <<x[1], x[2]>> /\ x[2] \in Replicas
                        /\ VoteSafe(Z, C, G, x[1].type, x[1].view, x[1].node, x[2])

\* Every view below the current one was left, and no lock is of a later one.
ViewSafe(s) == s.view \in Nat /\ 0 .. s.view - 1 \subseteq s.left /\ s.locked_qc.view <= s.view

WaitSafe(Z, C, s) ==
  \E ms : s.deferred \in Seq(ms) /\ \A m \in ms : m.view \in Nat /\ m.view <= s.view /\ QCSafe(Z, C, m.qc)

\* The log is the branch of something chosen.
LogSafe(C, s) ==
  /\ Genesis \in s.tree
  /\ \E n : /\ IsNode(n) /\ s.committed = Path(n)
            /\ n = Genesis \/ \E v : Certified(C, v, n)

StateSafe(Z, C, G, s) ==
  /\ IsState(s) /\ CertsSafe(Z, C, G, s) /\ ViewSafe(s) /\ WaitSafe(Z, C, s) /\ LogSafe(C, s)

StepSafe(Z, C, G, s, x) ==
  /\ StateSafe(Z, C, G, x.state)
  /\ \A p \in x.out : MsgSafe(Z, C, G, p.msg)
  /\ s.view <= x.state.view /\ s.locked_qc.view <= x.state.locked_qc.view

Watched == {"view", "left", "locked_qc", "prepare_qc", "new_view", "high_qc", "votes",
            "deferred", "committed"}

LEMMA SafeNats ==
  ASSUME NEW Z, NEW C, NEW G, NEW s, StateSafe(Z, C, G, s)
  PROVE  IsState(s) /\ s.view \in Nat /\ s.locked_qc.view \in Nat /\ s.locked_qc.view <= s.view
BY DEF StateSafe, CertsSafe, QCSafe, ViewSafe

LEMMA SameSafe ==
  ASSUME NEW Z, NEW C, NEW G, NEW s, NEW t, StateSafe(Z, C, G, s), IsState(t),
         \A f \in Watched : t[f] = s[f], Genesis \in t.tree
  PROVE  StateSafe(Z, C, G, t)
<1>1. /\ t.view = s.view /\ t.left = s.left /\ t.locked_qc = s.locked_qc
      /\ t.prepare_qc = s.prepare_qc /\ t.new_view = s.new_view /\ t.high_qc = s.high_qc
      /\ t.votes = s.votes /\ t.deferred = s.deferred /\ t.committed = s.committed
  BY DEF Watched
<1>2. CertsSafe(Z, C, G, t)
  BY <1>1 DEF StateSafe, CertsSafe
<1>3. ViewSafe(t) /\ WaitSafe(Z, C, t) /\ LogSafe(C, t)
  BY <1>1 DEF StateSafe, ViewSafe, WaitSafe, LogSafe
<1> QED BY <1>2, <1>3 DEF StateSafe

LEMMA NothingSafe ==
  ASSUME NEW Z, NEW C, NEW G, NEW s, NEW t, StateSafe(Z, C, G, t), s.view <= t.view,
         s.locked_qc.view <= t.locked_qc.view
  PROVE  StepSafe(Z, C, G, s, Nothing(t))
<1>1. Nothing(t).state = t /\ Nothing(t).out = {}
  BY DEF Nothing, Does
<1> QED BY <1>1 DEF StepSafe

LEMMA IdleSafe ==
  ASSUME NEW Z, NEW C, NEW G, NEW s, StateSafe(Z, C, G, s)
  PROVE  StepSafe(Z, C, G, s, Nothing(s))
BY SafeNats, NothingSafe

LEMMA SendSafe ==
  ASSUME NEW Z, NEW C, NEW G, NEW s, NEW t, StepSafe(Z, C, G, s, Nothing(t)), NEW out,
         \A p \in out : MsgSafe(Z, C, G, p.msg)
  PROVE  StepSafe(Z, C, G, s, Does(t, out))
<1>1. Nothing(t).state = t /\ Does(t, out).state = t /\ Does(t, out).out = out
  BY DEF Nothing, Does
<1> QED BY <1>1 DEF StepSafe

LEMMA ThenSafe ==
  ASSUME NEW Z, NEW C, NEW G, NEW s, NEW y, NEW x, StateSafe(Z, C, G, s),
         StepSafe(Z, C, G, s, y), StepSafe(Z, C, G, y.state, x)
  PROVE  StepSafe(Z, C, G, s, Does(x.state, y.out \cup x.out))
<1>1. /\ Does(x.state, y.out \cup x.out).state = x.state
      /\ Does(x.state, y.out \cup x.out).out = y.out \cup x.out
  BY DEF Does
<1>2. /\ s.view \in Nat /\ s.locked_qc.view \in Nat
      /\ y.state.view \in Nat /\ y.state.locked_qc.view \in Nat
      /\ x.state.view \in Nat /\ x.state.locked_qc.view \in Nat
  BY SafeNats DEF StepSafe
<1> QED BY <1>1, <1>2 DEF StepSafe

LEMMA ThenOnlySafe ==
  ASSUME NEW Z, NEW C, NEW G, NEW s, NEW t, NEW x, StateSafe(Z, C, G, s),
         StepSafe(Z, C, G, s, Nothing(t)), StepSafe(Z, C, G, t, x)
  PROVE  StepSafe(Z, C, G, s, x)
<1>1. Nothing(t).state = t
  BY DEF Nothing, Does
<1>2. /\ s.view \in Nat /\ s.locked_qc.view \in Nat
      /\ t.view \in Nat /\ t.locked_qc.view \in Nat
      /\ x.state.view \in Nat /\ x.state.locked_qc.view \in Nat
  BY <1>1, SafeNats DEF StepSafe
<1> QED BY <1>1, <1>2 DEF StepSafe

LEMMA AdvanceSafe ==
  ASSUME NEW Z, NEW C, NEW G, NEW r, NEW s, StateSafe(Z, C, G, s), NEW v \in Nat, v <= s.view
  PROVE  StepSafe(Z, C, G, s, AdvanceFrom(r, s, v))
<1>1. CASE v \in s.left
  BY <1>1, IdleSafe DEF AdvanceFrom
<1>2. CASE v \notin s.left
  <2> DEFINE t == [s EXCEPT !.left = @ \cup {v}, !.view = v + 1]
             m == Message("NEW_VIEW", v, r, Genesis, s.prepare_qc)
             out == Send(Leader(v + 1), m)
  <2>1. AdvanceFrom(r, s, v) = Does(t, out)
    BY <1>2 DEF AdvanceFrom
  <2>2. IsState(s) /\ s.view \in Nat /\ s.locked_qc.view \in Nat /\ s.locked_qc.view <= s.view
    BY SafeNats
  <2>3. v = s.view
    <3>1. 0 .. s.view - 1 \subseteq s.left
      BY DEF StateSafe, ViewSafe
    <3> QED BY <1>2, <2>2, <3>1
  <2>4. IsState(t) /\ t.view = s.view + 1 /\ t.left = s.left \cup {v}
        /\ \A f \in Fields \ {"view", "left"} : t[f] = s[f]
    BY <2>2, <2>3 DEF IsState, Fields
  <2>5. \A p \in out : p.msg = m
    BY DEF Send
  <2>6. m.type = "NEW_VIEW" /\ m.vote = FALSE /\ m.qc = s.prepare_qc
    BY DEF Message
  <2> HIDE DEF t, m, out
  <2>7. /\ t.locked_qc = s.locked_qc /\ t.prepare_qc = s.prepare_qc /\ t.new_view = s.new_view
        /\ t.high_qc = s.high_qc /\ t.votes = s.votes /\ t.deferred = s.deferred
        /\ t.committed = s.committed /\ t.tree = s.tree
    BY <2>4 DEF Fields
  <2>8. CertsSafe(Z, C, G, t) /\ LogSafe(C, t)
    BY <2>7 DEF StateSafe, CertsSafe, LogSafe
  <2>9. ViewSafe(t)
    BY <2>2, <2>3, <2>4, <2>7 DEF StateSafe, ViewSafe
  <2>10. WaitSafe(Z, C, t)
    <3>1. PICK ms : s.deferred \in Seq(ms)
                    /\ \A k \in ms : k.view \in Nat /\ k.view <= s.view /\ QCSafe(Z, C, k.qc)
      BY DEF StateSafe, WaitSafe
    <3>2. \A k \in ms : k.view \in Nat /\ k.view <= t.view /\ QCSafe(Z, C, k.qc)
      BY <2>2, <2>4, <3>1
    <3> QED BY <2>7, <3>1, <3>2 DEF WaitSafe
  <2>11. StepSafe(Z, C, G, s, Nothing(t))
    BY <2>2, <2>4, <2>7, <2>8, <2>9, <2>10, NothingSafe DEF StateSafe
  <2>12. QCSafe(Z, C, s.prepare_qc)
    BY DEF StateSafe, CertsSafe
  <2>13. MsgSafe(Z, C, G, m)
    BY <2>6, <2>12 DEF MsgSafe, IsProposal
  <2> QED BY <2>1, <2>5, <2>11, <2>13, SendSafe
<1> QED BY <1>1, <1>2

LEMMA SyncViewSafe ==
  ASSUME NEW Z, NEW C, NEW G, NEW s, StateSafe(Z, C, G, s), NEW v \in Nat, v > s.view
  PROVE  /\ StepSafe(Z, C, G, s, Nothing(SyncView(s, v)))
         /\ SyncView(s, v).view = v /\ SyncView(s, v).locked_qc = s.locked_qc
<1> DEFINE t == SyncView(s, v)
<1>1. IsState(s) /\ s.view \in Nat /\ s.locked_qc.view \in Nat /\ s.locked_qc.view <= s.view
  BY SafeNats
<1>2. IsState(t) /\ t.view = v /\ t.left = s.left \cup s.view .. v - 1
      /\ \A f \in Fields \ {"view", "left"} : t[f] = s[f]
  BY <1>1 DEF IsState, Fields, SyncView
<1> HIDE DEF t
<1>3. /\ t.locked_qc = s.locked_qc /\ t.prepare_qc = s.prepare_qc /\ t.new_view = s.new_view
      /\ t.high_qc = s.high_qc /\ t.votes = s.votes /\ t.deferred = s.deferred
      /\ t.committed = s.committed /\ t.tree = s.tree
  BY <1>2 DEF Fields
<1>4. CertsSafe(Z, C, G, t) /\ LogSafe(C, t)
  BY <1>3 DEF StateSafe, CertsSafe, LogSafe
<1>5. ViewSafe(t)
  <2>1. 0 .. s.view - 1 \subseteq s.left
    BY DEF StateSafe, ViewSafe
  <2>2. 0 .. v - 1 \subseteq t.left
    BY <1>1, <1>2, <2>1
  <2> QED BY <1>1, <1>2, <1>3, <2>2 DEF ViewSafe
<1>6. WaitSafe(Z, C, t)
  <2>1. PICK ms : s.deferred \in Seq(ms)
                  /\ \A k \in ms : k.view \in Nat /\ k.view <= s.view /\ QCSafe(Z, C, k.qc)
    BY DEF StateSafe, WaitSafe
  <2>2. \A k \in ms : k.view \in Nat /\ k.view <= t.view /\ QCSafe(Z, C, k.qc)
    BY <1>1, <1>2, <2>1
  <2> QED BY <1>3, <2>1, <2>2 DEF WaitSafe
<1>7. StepSafe(Z, C, G, s, Nothing(t))
  BY <1>1, <1>2, <1>3, <1>4, <1>5, <1>6, NothingSafe DEF StateSafe
<1> QED BY <1>2, <1>3, <1>7 DEF t

LEMMA SendVoteSafe ==
  ASSUME NEW Z, NEW C, NEW G, NEW r, NEW s, NEW t, StepSafe(Z, C, G, s, Nothing(t)),
         NEW m, NEW n, VoteSafe(Z, C, G, m.type, m.view, n, r)
  PROVE  StepSafe(Z, C, G, s, SendVote(r, t, m, n))
<1> DEFINE b == Vote(m.type, m.view, r, n)
           p == [dst |-> Leader(m.view), msg |-> b]
<1>1. SendVote(r, t, m, n) = Does(t, {p}) /\ p.msg = b
  BY DEF Send, SendVote
<1>2. b.type = m.type /\ b.vote = TRUE /\ b.view = m.view /\ b.from = r /\ b.node = n
  BY DEF Vote
<1>3. MsgSafe(Z, C, G, b)
  BY <1>2 DEF MsgSafe, IsProposal
<1> HIDE DEF b, p
<1> QED BY <1>1, <1>3, SendSafe

LEMMA RequestSyncSafe ==
  ASSUME NEW Z, NEW C, NEW G, NEW r, NEW s, NEW t, StepSafe(Z, C, G, s, Nothing(t)),
         NEW n, NEW k
  PROVE  StepSafe(Z, C, G, s, RequestSync(r, t, n, k))
<1> DEFINE b == Message("SYNC_REQ", t.view, r, n, GenesisQC)
           p == [dst |-> k, msg |-> b]
<1>1. RequestSync(r, t, n, k) = Does(t, {p}) /\ p.msg = b
  BY DEF Send, RequestSync
<1>2. b.type = "SYNC_REQ" /\ b.vote = FALSE
  BY DEF Message
<1>3. MsgSafe(Z, C, G, b)
  BY <1>2 DEF MsgSafe, IsProposal, Phases
<1> HIDE DEF b, p
<1> QED BY <1>1, <1>3, SendSafe

LEMMA PrepareSafe ==
  ASSUME NEW Z, NEW C, NEW G, NEW r, NEW s, StateSafe(Z, C, G, s), NEW m, m.view \in Nat,
         m.view <= s.view, IsProposal(m),
         IsPrefix(s.locked_qc.node, m.node) \/ m.qc.view > s.locked_qc.view
           => VoteSafe(Z, C, G, m.type, m.view, m.node, r)
  PROVE  StepSafe(Z, C, G, s, OnPrepare(r, s, m))
<1> DEFINE t == [s EXCEPT !.tree = @ \cup {m.node}, !.view = Max({@, m.view})]
<1>1. IsState(s) /\ s.view \in Nat /\ s.locked_qc.view \in Nat /\ Genesis \in s.tree
  BY SafeNats DEF StateSafe, LogSafe
<1>2. Max({s.view, m.view}) = s.view
  <2>1. \A x \in {s.view, m.view} : (\A y \in {s.view, m.view} : x >= y) => x = s.view
    BY <1>1
  <2>2. \E x \in {s.view, m.view} : \A y \in {s.view, m.view} : x >= y
    BY <1>1
  <2> QED BY <2>1, <2>2 DEF Max
<1>3. IsState(t) /\ Genesis \in t.tree /\ \A f \in Fields \ {"tree"} : t[f] = s[f]
  BY <1>1, <1>2 DEF IsState, Fields
<1>4. SafeNode(t, m.node, m.qc) => IsPrefix(t.locked_qc.node, m.node) \/ m.qc.view > t.locked_qc.view
  BY DEF SafeNode, Extends
<1>5. \/ OnPrepare(r, s, m) \in {Nothing(s), Nothing(t), RequestSync(r, t, m.qc.node, m.from)}
      \/ SafeNode(t, m.node, m.qc) /\ OnPrepare(r, s, m) = SendVote(r, t, m, m.node)
  BY DEF OnPrepare
<1> HIDE DEF t
<1>6. t.view = s.view /\ t.locked_qc = s.locked_qc /\ \A f \in Watched : t[f] = s[f]
  BY <1>3 DEF Fields, Watched
<1>7. StepSafe(Z, C, G, s, Nothing(t))
  <2>1. StateSafe(Z, C, G, t)
    BY <1>3, <1>6, SameSafe
  <2> QED BY <1>1, <1>6, <2>1, NothingSafe
<1>8. StepSafe(Z, C, G, s, RequestSync(r, t, m.qc.node, m.from))
  BY <1>7, RequestSyncSafe
<1>9. SafeNode(t, m.node, m.qc) => StepSafe(Z, C, G, s, SendVote(r, t, m, m.node))
  BY <1>4, <1>6, <1>7, SendVoteSafe
<1> QED BY <1>5, <1>7, <1>8, <1>9, IdleSafe

\* Another QC in place of prepare_qc or locked_qc
LEMMA WithQCSafe ==
  ASSUME NEW Z, NEW C, NEW G, NEW s, StateSafe(Z, C, G, s), NEW q, QCSafe(Z, C, q)
  PROVE  /\ StepSafe(Z, C, G, s, Nothing([s EXCEPT !.prepare_qc = q]))
         /\ q.view <= s.view /\ s.locked_qc.view <= q.view
              => StepSafe(Z, C, G, s, Nothing([s EXCEPT !.locked_qc = q]))
<1>1. IsState(s) /\ s.view \in Nat /\ s.locked_qc.view \in Nat
  BY SafeNats
<1>2. StepSafe(Z, C, G, s, Nothing([s EXCEPT !.prepare_qc = q]))
  <2> DEFINE t == [s EXCEPT !.prepare_qc = q]
  <2>1. IsState(t) /\ t.prepare_qc = q /\ \A f \in Fields \ {"prepare_qc"} : t[f] = s[f]
    BY <1>1 DEF IsState, Fields
  <2> HIDE DEF t
  <2>2. /\ t.locked_qc = s.locked_qc /\ t.new_view = s.new_view /\ t.left = s.left
        /\ t.high_qc = s.high_qc /\ t.votes = s.votes /\ t.deferred = s.deferred
        /\ t.committed = s.committed /\ t.tree = s.tree /\ t.view = s.view
    BY <2>1 DEF Fields
  <2>3. CertsSafe(Z, C, G, t)
    BY <2>1, <2>2 DEF StateSafe, CertsSafe
  <2>4. ViewSafe(t) /\ WaitSafe(Z, C, t) /\ LogSafe(C, t)
    BY <2>2 DEF StateSafe, ViewSafe, WaitSafe, LogSafe
  <2>5. StateSafe(Z, C, G, t)
    BY <2>1, <2>3, <2>4 DEF StateSafe
  <2>6. StepSafe(Z, C, G, s, Nothing(t))
    BY <1>1, <2>2, <2>5, NothingSafe
  <2> QED BY <2>6 DEF t
<1>3. ASSUME q.view <= s.view, s.locked_qc.view <= q.view
      PROVE  StepSafe(Z, C, G, s, Nothing([s EXCEPT !.locked_qc = q]))
  <2> DEFINE t == [s EXCEPT !.locked_qc = q]
  <2>1. IsState(t) /\ t.locked_qc = q /\ \A f \in Fields \ {"locked_qc"} : t[f] = s[f]
    BY <1>1 DEF IsState, Fields
  <2> HIDE DEF t
  <2>2. /\ t.prepare_qc = s.prepare_qc /\ t.new_view = s.new_view /\ t.left = s.left
        /\ t.high_qc = s.high_qc /\ t.votes = s.votes /\ t.deferred = s.deferred
        /\ t.committed = s.committed /\ t.tree = s.tree /\ t.view = s.view
    BY <2>1 DEF Fields
  <2>3. CertsSafe(Z, C, G, t)
    BY <2>1, <2>2 DEF StateSafe, CertsSafe
  <2>4. ViewSafe(t)
    BY <1>3, <2>1, <2>2 DEF StateSafe, ViewSafe
  <2>5. WaitSafe(Z, C, t) /\ LogSafe(C, t)
    BY <2>2 DEF StateSafe, WaitSafe, LogSafe
  <2>6. StateSafe(Z, C, G, t)
    BY <2>1, <2>3, <2>4, <2>5 DEF StateSafe
  <2>7. StepSafe(Z, C, G, s, Nothing(t))
    BY <1>1, <1>3, <2>1, <2>2, <2>6, NothingSafe
  <2> QED BY <2>7 DEF t
<1> QED BY <1>2, <1>3

LEMMA PreCommitSafe ==
  ASSUME NEW Z, NEW C, NEW G, NEW r, NEW s, StateSafe(Z, C, G, s), NEW m,
         ~ m.vote, m.type = "PRE_COMMIT", MsgSafe(Z, C, G, m)
  PROVE  StepSafe(Z, C, G, s, OnPreCommit(r, s, m))
<1> DEFINE t == [s EXCEPT !.prepare_qc = m.qc]
<1>1. QCSafe(Z, C, m.qc)
  BY DEF MsgSafe, Phases
<1>2. \/ OnPreCommit(r, s, m) \in {Nothing(s), Nothing(t)}
      \/ m.qc.view = m.view /\ OnPreCommit(r, s, m) = SendVote(r, t, m, m.qc.node)
  BY DEF OnPreCommit, MatchingQC
<1>3. StepSafe(Z, C, G, s, Nothing(t))
  BY <1>1, WithQCSafe
<1> HIDE DEF t
<1>4. m.qc.view = m.view => VoteSafe(Z, C, G, m.type, m.view, m.qc.node, r)
  BY <1>1 DEF VoteSafe, QCSafe
<1>5. m.qc.view = m.view => StepSafe(Z, C, G, s, SendVote(r, t, m, m.qc.node))
  BY <1>3, <1>4, SendVoteSafe
<1> QED BY <1>2, <1>3, <1>5, IdleSafe

\* on_commit takes the lock and votes.
Locks(s, m) == FromLeader(m) /\ MatchingQC(m, "PRE_COMMIT") /\ m.qc.node \in s.tree

LEMMA CommitSafe ==
  ASSUME NEW Z, NEW C, NEW G, NEW r, NEW s, StateSafe(Z, C, G, s), NEW m,
         ~ m.vote, m.type = "COMMIT", MsgSafe(Z, C, G, m),
         m.view <= s.view, s.locked_qc.view <= m.view,
         Locks(s, m) => <<m.view, r, m.qc.node>> \in C
  PROVE  StepSafe(Z, C, G, s, OnCommit(r, s, m))
<1> DEFINE t == [s EXCEPT !.locked_qc = m.qc]
<1>1. QCSafe(Z, C, m.qc)
  BY DEF MsgSafe, Phases
<1>2. \/ OnCommit(r, s, m) = Nothing(s)
      \/ Locks(s, m) /\ OnCommit(r, s, m) = SendVote(r, t, m, m.qc.node)
  BY DEF OnCommit, Locks
<1>3. Locks(s, m) => StepSafe(Z, C, G, s, Nothing(t))
  <2>1. Locks(s, m) => m.qc.view = m.view
    BY DEF Locks, MatchingQC
  <2> QED BY <1>1, <2>1, WithQCSafe
<1> HIDE DEF t
<1>4. Locks(s, m) => VoteSafe(Z, C, G, m.type, m.view, m.qc.node, r)
  BY DEF VoteSafe
<1>5. Locks(s, m) => StepSafe(Z, C, G, s, SendVote(r, t, m, m.qc.node))
  BY <1>3, <1>4, SendVoteSafe
<1> QED BY <1>2, <1>5, IdleSafe

VoteQC(m) == [type |-> m.type, view |-> m.view, node |-> m.node]

LEMMA TallySafe ==
  ASSUME NEW Z, NEW C, NEW G, NEW s, StateSafe(Z, C, G, s), NEW m,
         m.vote, MsgSafe(Z, C, G, m), m.from \in Replicas
  PROVE  LET t == Tally(s, VoteQC(m), m.from)
         IN  /\ StateSafe(Z, C, G, t) /\ t.view = s.view /\ t.locked_qc = s.locked_qc
             /\ t.tree = s.tree
<1> DEFINE qc == VoteQC(m)
           t == Tally(s, qc, m.from)
<1>1. IsState(s)
  BY SafeNats
<1>2. qc.type = m.type /\ qc.view = m.view /\ qc.node = m.node
  BY DEF VoteQC
<1> HIDE DEF qc
<1>3. IsState(t) /\ t.votes = s.votes \cup {<<qc, m.from>>}
      /\ \A f \in Fields \ {"votes"} : t[f] = s[f]
  BY <1>1 DEF IsState, Fields, Tally
<1> HIDE DEF t
<1>4. /\ t.locked_qc = s.locked_qc /\ t.new_view = s.new_view /\ t.left = s.left
      /\ t.high_qc = s.high_qc /\ t.prepare_qc = s.prepare_qc /\ t.deferred = s.deferred
      /\ t.committed = s.committed /\ t.tree = s.tree /\ t.view = s.view
  BY <1>3 DEF Fields
<1>5. ASSUME NEW y \in t.votes
      PROVE  /\ y = <<y[1], y[2]>> /\ y[2] \in Replicas
             /\ VoteSafe(Z, C, G, y[1].type, y[1].view, y[1].node, y[2])
  <2>1. CASE y \in s.votes
    BY <2>1 DEF StateSafe, CertsSafe
  <2>2. CASE y = <<qc, m.from>>
    <3>1. VoteSafe(Z, C, G, m.type, m.view, m.node, m.from)
      BY DEF MsgSafe
    <3> QED BY <1>2, <2>2, <3>1
  <2> QED BY <1>3, <2>1, <2>2
<1>6. CertsSafe(Z, C, G, t)
  BY <1>4, <1>5 DEF StateSafe, CertsSafe
<1>7. ViewSafe(t) /\ WaitSafe(Z, C, t) /\ LogSafe(C, t)
  BY <1>4 DEF StateSafe, ViewSafe, WaitSafe, LogSafe
<1>8. StateSafe(Z, C, G, t)
  BY <1>3, <1>6, <1>7 DEF StateSafe
<1> QED BY <1>4, <1>8 DEF t, qc

\* A QC stands for the votes of a quorum.
LEMMA QuorumVoted ==
  ASSUME NEW Z, NEW C, NEW G, NEW s, StateSafe(Z, C, G, s), NEW m, Formed(s, VoteQC(m))
  PROVE  \E q \in SUBSET Replicas :
           /\ Cardinality(q) >= Quorum /\ \E i \in q : TRUE
           /\ \A i \in q : VoteSafe(Z, C, G, m.type, m.view, m.node, i)
<1> DEFINE qc == VoteQC(m)
<1>1. qc.type = m.type /\ qc.view = m.view /\ qc.node = m.node
  BY DEF VoteQC
<1> HIDE DEF qc
<1>2. PICK q \in SUBSET Replicas : Cardinality(q) >= Quorum /\ \A i \in q : <<qc, i>> \in s.votes
  BY FormedVoters DEF StateSafe, CertsSafe, qc
<1>3. \A i \in q : VoteSafe(Z, C, G, m.type, m.view, m.node, i)
  BY <1>1, <1>2 DEF StateSafe, CertsSafe
<1>4. \E i \in q : TRUE
  <2>1. Cardinality(q) > F
    BY <1>2, SubsetsCount, Replicated
  <2> QED BY <2>1, SomeoneIn
<1> QED BY <1>2, <1>3, <1>4

LEMMA CountSafe ==
  ASSUME NEW Z, NEW C, NEW G, NEW r, NEW s, StateSafe(Z, C, G, s), NEW m,
         m.vote, MsgSafe(Z, C, G, m), m.view \in Nat, m.from \in Replicas,
         m.type \in {"PREPARE", "PRE_COMMIT", "COMMIT"},
         \A v, i, n : <<v, i, n>> \in C => <<v, n>> \in Z,
         m.type = "PREPARE" /\ Formed(Tally(s, VoteQC(m), m.from), VoteQC(m)) => <<m.view, m.node>> \in Z
  PROVE  StepSafe(Z, C, G, s, OnVote(r, s, m))
<1> DEFINE qc == VoteQC(m)
           t == Tally(s, qc, m.from)
           built == [t EXCEPT !.qcs = @ \cup {qc}]
           next == CASE m.type = "PREPARE" -> "PRE_COMMIT" [] m.type = "PRE_COMMIT" -> "COMMIT"
                     [] OTHER -> "DECIDE"
           done == IF m.type = "PREPARE" THEN [built EXCEPT !.prepare_qc = qc] ELSE built
           b == Message(next, m.view, r, Genesis, qc)
           x == Does(done, Broadcast(b))
<1>1. IsState(s) /\ s.view \in Nat /\ s.locked_qc.view \in Nat /\ Genesis \in s.tree
  BY SafeNats DEF StateSafe, LogSafe
<1>2. qc.type = m.type /\ qc.view = m.view /\ qc.node = m.node
  BY DEF VoteQC
<1>3. \/ OnVote(r, s, m) = Nothing(s)
      \/ OnVote(r, s, m) = Nothing(t)
      \/ OnVote(r, s, m) = x /\ Formed(t, qc)
  BY DEF OnVote, VoteQC
<1>4. b.type = next /\ b.vote = FALSE /\ b.qc = qc /\ next \in {"PRE_COMMIT", "COMMIT", "DECIDE"}
  BY DEF Message
<1>5. StateSafe(Z, C, G, t) /\ t.view = s.view /\ t.locked_qc = s.locked_qc /\ t.tree = s.tree
  BY TallySafe
<1>6. m.type = "PREPARE" /\ Formed(t, qc) => <<m.view, m.node>> \in Z
  OBVIOUS
<1> HIDE DEF t
<1>7. IsState(t)
  BY <1>5, SafeNats
<1>8. StepSafe(Z, C, G, s, Nothing(t))
  BY <1>1, <1>5, NothingSafe
<1>9. ASSUME Formed(t, qc) PROVE QCSafe(Z, C, qc)
  <2> HIDE DEF qc
  <2>1. PICK q \in SUBSET Replicas :
             /\ Cardinality(q) >= Quorum /\ \E i \in q : TRUE
             /\ \A i \in q : VoteSafe(Z, C, G, m.type, m.view, m.node, i)
    BY <1>5, <1>9, QuorumVoted DEF qc
  <2>3. PICK i \in q : TRUE
    BY <2>1
  <2>4. m.type = "COMMIT" => Certified(C, m.view, m.node) /\ <<m.view, i, m.node>> \in C
    BY <2>1, <2>3 DEF VoteSafe, Certified
  <2>5. m.type = "PRE_COMMIT" => <<m.view, m.node>> \in Z
    BY <2>1, <2>3 DEF VoteSafe
  <2>6. <<m.view, m.node>> \in Z
    BY <1>6, <1>9, <2>4, <2>5
  <2> QED BY <1>2, <2>4, <2>6 DEF QCSafe
<1>10. ASSUME Formed(t, qc) PROVE StepSafe(Z, C, G, s, x)
  <2>1. QCSafe(Z, C, qc)
    BY <1>9, <1>10
  <2> HIDE DEF qc
  <2>2. IsState(built) /\ \A f \in Fields \ {"qcs"} : built[f] = t[f]
    BY <1>7 DEF IsState, Fields
  <2> HIDE DEF built
  <2>3. StateSafe(Z, C, G, built) /\ built.view = s.view /\ built.locked_qc = s.locked_qc
    <3>1. (\A f \in Watched : built[f] = t[f]) /\ built.tree = t.tree
          /\ built.view = t.view /\ built.locked_qc = t.locked_qc
      BY <2>2 DEF Fields, Watched
    <3> QED BY <1>1, <1>5, <2>2, <3>1, SameSafe
  <2>4. StepSafe(Z, C, G, built, Nothing(done))
    BY <2>1, <2>3, IdleSafe, WithQCSafe
  <2>5. StepSafe(Z, C, G, s, Nothing(built))
    BY <1>1, <2>3, NothingSafe
  <2> HIDE DEF done
  <2>6. StepSafe(Z, C, G, s, Nothing(done))
    BY <2>4, <2>5, ThenOnlySafe
  <2> HIDE DEF b, next
  <2>7. MsgSafe(Z, C, G, b)
    BY <1>4, <2>1 DEF MsgSafe, IsProposal
  <2>8. \A p \in Broadcast(b) : p.msg = b
    BY DEF Broadcast
  <2> QED BY <2>6, <2>7, <2>8, SendSafe
<1> HIDE DEF x
<1> QED BY <1>3, <1>8, <1>10, IdleSafe

LEMMA TryProposeSafe ==
  ASSUME NEW Z, NEW C, NEW G, NEW r, NEW s, StateSafe(Z, C, G, s), NEW v
  PROVE  StepSafe(Z, C, G, s, TryPropose(r, s, v))
<1> DEFINE x == TryPropose(r, s, v)
           t == x.state
<1>1. IsState(s) /\ s.view \in Nat /\ s.locked_qc.view \in Nat /\ Genesis \in s.tree
  BY SafeNats DEF StateSafe, LogSafe
<1>2. ProposesAtMost(r, s, v, x)
  BY <1>1, TryProposeIs
<1> HIDE DEF x
<1>3. /\ IsState(t) /\ Genesis \in t.tree
      /\ \A f \in Fields \ {"tree", "pending", "proposed"} : t[f] = s[f]
  BY <1>1, <1>2 DEF ProposesAtMost
<1>4. (\A f \in Watched : t[f] = s[f]) /\ t.view = s.view /\ t.locked_qc = s.locked_qc
  BY <1>3 DEF Watched, Fields
<1>5. StateSafe(Z, C, G, t)
  <2> HIDE DEF t
  <2> QED BY <1>3, <1>4, SameSafe
<1>6. ASSUME NEW p \in x.out PROVE MsgSafe(Z, C, G, p.msg)
  <2>0. PICK h \in s.high_qc : \E n :
               /\ h[1] = v /\ x.out = Proposals(v, r, n, h[2])
               /\ \A i \in Replicas : \E c : n[i] = Append(h[2].node, <<v, c>>)
    BY <1>2, <1>6 DEF ProposesAtMost
  <2>1. PICK n : /\ h[1] = v /\ x.out = Proposals(v, r, n, h[2])
                 /\ \A i \in Replicas : \E c : n[i] = Append(h[2].node, <<v, c>>)
    BY <2>0
  <2>2. PICK i \in Replicas : p = [dst |-> i, msg |-> Message("PREPARE", v, r, n[i], h[2])]
    BY <1>6, <2>1 DEF Proposals
  <2>3. /\ p.msg.vote = FALSE /\ p.msg.type = "PREPARE" /\ p.msg.view = v
        /\ p.msg.node = n[i] /\ p.msg.qc = h[2]
    BY <2>2 DEF Message
  <2>4. h[1] # 0 /\ QCSafe(Z, C, h[2])
    BY DEF StateSafe, CertsSafe
  <2> QED BY <2>1, <2>3, <2>4 DEF MsgSafe, IsProposal
<1>7. s.view <= t.view /\ s.locked_qc.view <= t.locked_qc.view
  BY <1>1, <1>4
<1> QED BY <1>5, <1>6, <1>7 DEF StepSafe, x

\* The highest of some QCs
LEMMA HighestQC ==
  ASSUME NEW Q, Q # {}, NEW b \in Nat, \A q \in Q : q.view \in Nat /\ q.view <= b
  PROVE  (CHOOSE q \in Q : \A p \in Q : p.view <= q.view) \in Q
<1> DEFINE S == {k \in Nat : \E q \in Q : k = b - q.view}
<1>1. S \in SUBSET Nat /\ \A q \in Q : b - q.view \in S
  OBVIOUS
<1>2. PICK k \in S : \A j \in S : k <= j
  BY <1>1, LeastNat
<1>3. PICK q \in Q : k = b - q.view
  BY <1>2
<1> HIDE DEF S
<1>4. \A p \in Q : p.view <= q.view
  BY <1>1, <1>2, <1>3
<1> QED BY <1>3, <1>4

LEMMA NewViewSafe ==
  ASSUME NEW Z, NEW C, NEW G, NEW r, NEW s, StateSafe(Z, C, G, s), NEW m,
         IsNewView(m), m.view \in Nat, MsgSafe(Z, C, G, m),
         NEW b \in Nat, \A v, n : <<v, n>> \in Z => v <= b
  PROVE  StepSafe(Z, C, G, s, OnNewView(r, s, m))
<1> DEFINE start == m.view + 1
           held == {y \in s.new_view : y[1] # start \/ y[2] # m.from} \cup {<<start, m.from, m.qc>>}
           mine == {y[3] : y \in {z \in held : z[1] = start}}
           high == CHOOSE q \in mine : \A p \in mine : p.view <= q.view
           t == [s EXCEPT !.new_view = held]
           u == [t EXCEPT !.high_qc = @ \cup {<<start, high>>}]
           x == OnNewView(r, s, m)
<1>1. IsState(s) /\ s.view \in Nat /\ s.locked_qc.view \in Nat
  BY SafeNats
<1>2. x \in {Nothing(s), Nothing(t), TryPropose(r, u, start)}
  BY DEF OnNewView
<1>3. IsState(t) /\ t.new_view = held /\ \A f \in Fields \ {"new_view"} : t[f] = s[f]
  <2> HIDE DEF held
  <2> QED BY <1>1 DEF IsState, Fields
<1>4. IsState(u) /\ u.high_qc = t.high_qc \cup {<<start, high>>}
      /\ \A f \in Fields \ {"high_qc"} : u[f] = t[f]
  <2> HIDE DEF t, high, start
  <2> QED BY <1>3 DEF IsState, Fields
<1>5. QCSafe(Z, C, m.qc)
  BY DEF MsgSafe, IsNewView
<1>6. \A y \in held : QCSafe(Z, C, y[3])
  BY <1>5 DEF StateSafe, CertsSafe
<1>7. mine # {} /\ \A q \in mine : QCSafe(Z, C, q)
  <2>1. <<start, m.from, m.qc>>[3] \in mine
    OBVIOUS
  <2> QED BY <1>6, <2>1
<1>8. QCSafe(Z, C, high)
  <2>1. \A q \in mine : q.view \in Nat /\ q.view <= b
    BY <1>7 DEF QCSafe
  <2> HIDE DEF mine
  <2> QED BY <1>7, <2>1, HighestQC
<1>9. start # 0
  OBVIOUS
<1> HIDE DEF x, t, u, high, mine, held, start
<1>10. StateSafe(Z, C, G, t) /\ t.view = s.view /\ t.locked_qc = s.locked_qc
  <2>1. /\ t.locked_qc = s.locked_qc /\ t.prepare_qc = s.prepare_qc /\ t.left = s.left
        /\ t.high_qc = s.high_qc /\ t.votes = s.votes /\ t.deferred = s.deferred
        /\ t.committed = s.committed /\ t.tree = s.tree /\ t.view = s.view
    BY <1>3 DEF Fields
  <2>2. CertsSafe(Z, C, G, t)
    BY <1>3, <1>6, <2>1 DEF StateSafe, CertsSafe
  <2>3. ViewSafe(t) /\ WaitSafe(Z, C, t) /\ LogSafe(C, t)
    BY <2>1 DEF StateSafe, ViewSafe, WaitSafe, LogSafe
  <2> QED BY <1>3, <2>1, <2>2, <2>3 DEF StateSafe
<1>11. StateSafe(Z, C, G, u) /\ u.view = t.view /\ u.locked_qc = t.locked_qc
  <2>1. /\ u.locked_qc = t.locked_qc /\ u.prepare_qc = t.prepare_qc /\ u.left = t.left
        /\ u.new_view = t.new_view /\ u.votes = t.votes /\ u.deferred = t.deferred
        /\ u.committed = t.committed /\ u.tree = t.tree /\ u.view = t.view
    BY <1>4 DEF Fields
  <2>2. \A h \in u.high_qc : h[1] # 0 /\ QCSafe(Z, C, h[2])
    BY <1>4, <1>8, <1>9, <1>10 DEF StateSafe, CertsSafe
  <2>3. CertsSafe(Z, C, G, u)
    BY <1>10, <2>1, <2>2 DEF StateSafe, CertsSafe
  <2>4. ViewSafe(u) /\ WaitSafe(Z, C, u) /\ LogSafe(C, u)
    BY <1>10, <2>1 DEF StateSafe, ViewSafe, WaitSafe, LogSafe
  <2> QED BY <1>4, <2>1, <2>3, <2>4 DEF StateSafe
<1>12. StepSafe(Z, C, G, s, Nothing(t)) /\ StepSafe(Z, C, G, s, Nothing(u))
  BY <1>1, <1>10, <1>11, NothingSafe
<1>13. StepSafe(Z, C, G, s, TryPropose(r, u, start))
  BY <1>11, <1>12, TryProposeSafe, ThenOnlySafe
<1> QED BY <1>2, <1>12, <1>13, IdleSafe DEF x

\* Decisions: the log of a replica that has executed n, and then node, which is
\* on the same branch.
WithLog(s, log) == [s EXCEPT !.committed = log]

LEMMA ExecutedIs ==
  ASSUME NEW s, NEW n, IsNode(n), s.committed = Path(n)
  PROVE  \A b : b \in Executed(s) <=> \E k \in 1 .. Len(n) : b = Ancestor(n, k)
<1>1. DOMAIN s.committed = 1 .. Len(n) /\ \A k \in 1 .. Len(n) : s.committed[k] = Ancestor(n, k)
  BY DEF Path
<1> QED BY <1>1 DEF Executed, ToSet

LEMMA ExecuteNothing ==
  ASSUME NEW s, NEW n, NEW node, IsNode(n), IsNode(node), s.committed = Path(n), IsPrefix(node, n)
  PROVE  Execute(s, node) = WithLog(s, Path(n))
<1> DEFINE chain == {k \in 1 .. Len(node) : \A j \in k .. Len(node) :
                       Ancestor(node, j) \in s.tree \ Executed(s)}
           low == Len(node) - Cardinality(chain)
           more == [i \in 1 .. Cardinality(chain) |-> Ancestor(node, low + i)]
<1>1. Len(node) \in Nat /\ Ancestor(node, Len(node)) = node
  BY WholeNode
<1>2. chain = {}
  <2> SUFFICES ASSUME NEW k \in 1 .. Len(node), Ancestor(node, Len(node)) \notin Executed(s)
               PROVE  FALSE
    BY <1>1
  <2>1. /\ Ancestor(node, Len(node)) = Ancestor(n, Len(node)) /\ Len(node) \in 0 .. Len(n)
    BY <1>1, SameAncestor
  <2>2. Len(n) \in Nat
    BY WholeNode
  <2>3. Len(node) \in 1 .. Len(n)
    <3>1. Len(node) >= 1
      BY <1>1
    <3>2. Len(node) <= Len(n)
      BY PrefixIs
    <3> QED BY <1>1, <2>2, <3>1, <3>2
  <2> QED BY <2>1, <2>3, ExecutedIs
<1>3. Cardinality(chain) = 0
  BY <1>2, FS_EmptySet
<1>4. Execute(s, node) = [s EXCEPT !.committed = @ \o more]
  BY DEF Execute
<1>5. more = <<>>
  <2> HIDE DEF chain, low
  <2>1. 1 .. Cardinality(chain) = {}
    BY <1>3
  <2> QED BY <2>1
<1> HIDE DEF more
<1>6. Path(n) \o <<>> = Path(n)
  <2>1. PICK T : Path(n) \in Seq(T)
    BY PathIs DEF IsNode
  <2> QED BY <2>1
<1>7. Execute(s, node) = [s EXCEPT !.committed = s.committed \o more]
  BY <1>4
<1> QED BY <1>5, <1>6, <1>7 DEF WithLog

\* Nothing is missing
LEMMA NoGaps ==
  ASSUME NEW s, NEW node, IsNode(node), MissingAncestors(s, node) = {},
         NEW k \in 0 .. Len(node) - 1, \A j \in k + 1 .. Len(node) : Ancestor(node, j) \notin Executed(s)
  PROVE  Ancestor(node, k) \in s.tree
<1> DEFINE gaps == {i \in 0 .. Len(node) - 1 :
                      /\ Ancestor(node, i) \notin s.tree
                      /\ \A j \in i + 1 .. Len(node) : Ancestor(node, j) \notin Executed(s)}
           S == {i \in Nat : \E g \in gaps : i = Len(node) - g}
<1> SUFFICES ASSUME Ancestor(node, k) \notin s.tree PROVE FALSE
  OBVIOUS
<1>1. Len(node) \in Nat
  BY WholeNode
<1>2. k \in gaps /\ \A g \in gaps : g \in Nat /\ Len(node) - g \in Nat
  BY <1>1
<1>3. \A g \in gaps : ~ \A j \in gaps : j <= g
  BY DEF MissingAncestors
<1> HIDE DEF gaps
<1>4. S \in SUBSET Nat /\ S # {} /\ \A g \in gaps : Len(node) - g \in S
  BY <1>2
<1>5. PICK i \in S : \A j \in S : i <= j
  BY <1>4, LeastNat
<1>6. PICK g \in gaps : i = Len(node) - g
  BY <1>5
<1> HIDE DEF S
<1>7. \A j \in gaps : j <= g
  BY <1>1, <1>2, <1>4, <1>5, <1>6
<1> QED BY <1>3, <1>6, <1>7

LEMMA SequenceOf ==
  ASSUME NEW T, NEW k \in Nat, NEW f \in [1 .. k -> T] PROVE f \in Seq(T) /\ Len(f) = k
<1>1. f \in Seq(T)
  OBVIOUS
<1> QED BY <1>1

LEMMA SecondPart ==
  ASSUME NEW T, NEW p \in Seq(T), NEW q \in Seq(T), NEW i \in Len(p) + 1 .. Len(p) + Len(q)
  PROVE  (p \o q)[i] = q[i - Len(p)]
OBVIOUS

LEMMA ExecuteRest ==
  ASSUME NEW s, NEW n, NEW node, IsNode(n), IsNode(node), s.committed = Path(n),
         IsPrefix(n, node), node \in s.tree, MissingAncestors(s, node) = {}
  PROVE  Execute(s, node) = WithLog(s, Path(node))
<1> DEFINE chain == {k \in 1 .. Len(node) : \A j \in k .. Len(node) :
                       Ancestor(node, j) \in s.tree \ Executed(s)}
           low == Len(node) - Cardinality(chain)
           more == [i \in 1 .. Cardinality(chain) |-> Ancestor(node, low + i)]
<1>1. Len(node) \in Nat /\ Ancestor(node, Len(node)) = node /\ Len(n) \in Nat /\ Len(n) <= Len(node)
  BY WholeNode, PrefixIs
<1>2. ASSUME NEW j \in 1 .. Len(node) PROVE Ancestor(node, j) \in Executed(s) <=> j <= Len(n)
  <2>1. ASSUME j <= Len(n) PROVE Ancestor(node, j) \in Executed(s)
    <3>1. j \in 0 .. Len(n) /\ j \in 1 .. Len(n)
      BY <1>1, <2>1
    <3>2. Ancestor(n, j) = Ancestor(node, j)
      BY <3>1, SameAncestor
    <3> QED BY <3>1, <3>2, ExecutedIs
  <2>2. ASSUME Ancestor(node, j) \in Executed(s) PROVE j <= Len(n)
    <3>1. PICK k \in 1 .. Len(n) : Ancestor(node, j) = Ancestor(n, k)
      BY <2>2, ExecutedIs
    <3>2. k \in 0 .. Len(n) /\ j \in 0 .. Len(node)
      BY <1>1
    <3>3. Len(Ancestor(node, j)) = j /\ Len(Ancestor(n, k)) = k
      BY <3>2, AncestorIs
    <3> QED BY <1>1, <3>1, <3>3
  <2> QED BY <2>1, <2>2
<1>3. ASSUME NEW j \in Len(n) + 1 .. Len(node) PROVE Ancestor(node, j) \in s.tree \ Executed(s)
  <2>1. j \in 1 .. Len(node) /\ ~ (j <= Len(n))
    BY <1>1
  <2>2. Ancestor(node, j) \notin Executed(s)
    BY <1>2, <2>1
  <2>3. CASE j = Len(node)
    BY <1>1, <2>2, <2>3
  <2>4. CASE j # Len(node)
    <3>1. j \in 0 .. Len(node) - 1
      BY <1>1, <2>1, <2>4
    <3>2. \A i \in j + 1 .. Len(node) : i \in 1 .. Len(node) /\ ~ (i <= Len(n))
      BY <1>1, <2>1
    <3>3. \A i \in j + 1 .. Len(node) : Ancestor(node, i) \notin Executed(s)
      BY <1>2, <3>2
    <3> QED BY <2>2, <3>1, <3>3, NoGaps
  <2> QED BY <2>3, <2>4
<1>4. chain = Len(n) + 1 .. Len(node)
  <2>1. ASSUME NEW k \in chain PROVE k \in Len(n) + 1 .. Len(node)
    <3>1. k \in 1 .. Len(node) /\ k \in k .. Len(node)
      BY <1>1
    <3>2. Ancestor(node, k) \notin Executed(s)
      BY <3>1
    <3> QED BY <1>1, <1>2, <3>1, <3>2
  <2>2. ASSUME NEW k \in Len(n) + 1 .. Len(node) PROVE k \in chain
    <3>1. k \in 1 .. Len(node) /\ \A j \in k .. Len(node) : j \in Len(n) + 1 .. Len(node)
      BY <1>1
    <3> QED BY <1>3, <3>1
  <2> QED BY <2>1, <2>2
<1>5. Cardinality(chain) = Len(node) - Len(n)
  <2> DEFINE a == Len(n) + 1
             b == Len(node)
  <2>1. a \in Int /\ b \in Int /\ a <= b + 1 /\ b - a + 1 = Len(node) - Len(n)
    BY <1>1
  <2>2. chain = a .. b
    BY <1>4
  <2> HIDE DEF a, b, chain
  <2>3. Cardinality(a .. b) = IF a > b THEN 0 ELSE b - a + 1
    BY <2>1, FS_Interval
  <2> QED BY <2>1, <2>2, <2>3
<1>6. Execute(s, node) = [s EXCEPT !.committed = s.committed \o more]
  BY DEF Execute
<1> HIDE DEF chain
<1>7. more = [i \in 1 .. Len(node) - Len(n) |-> Ancestor(node, Len(n) + i)]
  BY <1>1, <1>5
<1> HIDE DEF more
<1>8. Path(n) \o more = Path(node)
  <2> DEFINE T == {Ancestor(n, k) : k \in 1 .. Len(n)} \cup {Ancestor(node, k) : k \in 1 .. Len(node)}
             d == Len(node) - Len(n)
  <2>1. d \in Nat /\ \A i \in 1 .. d : Len(n) + i \in 1 .. Len(node)
    BY <1>1
  <2>2. \A i \in 1 .. d : Ancestor(node, Len(n) + i) \in T
    BY <2>1
  <2>3. /\ \A i \in 1 .. Len(n) : Ancestor(n, i) \in T
        /\ \A i \in 1 .. Len(node) : Ancestor(node, i) \in T
    OBVIOUS
  <2> HIDE DEF T, d
  <2>4. more \in [1 .. d -> T] /\ Path(n) \in [1 .. Len(n) -> T] /\ Path(node) \in [1 .. Len(node) -> T]
    BY <1>7, <2>2, <2>3 DEF d, Path
  <2>5. /\ more \in Seq(T) /\ Len(more) = d /\ Path(n) \in Seq(T) /\ Len(Path(n)) = Len(n)
        /\ Path(node) \in Seq(T) /\ Len(Path(node)) = Len(node)
    BY <1>1, <2>1, <2>4, SequenceOf
  <2>6. Path(n) \o more \in Seq(T) /\ Len(Path(n) \o more) = Len(node)
    BY <1>1, <2>5 DEF d
  <2>7. ASSUME NEW i \in 1 .. Len(node) PROVE (Path(n) \o more)[i] = Path(node)[i]
    <3>1. Path(node)[i] = Ancestor(node, i)
      BY DEF Path
    <3>2. CASE i <= Len(n)
      <4>1. i \in 1 .. Len(n) /\ i \in 0 .. Len(n)
        BY <1>1, <3>2
      <4>2. (Path(n) \o more)[i] = Path(n)[i]
        BY <2>5, <4>1
      <4>3. Path(n)[i] = Ancestor(n, i)
        BY <4>1 DEF Path
      <4>4. Ancestor(n, i) = Ancestor(node, i)
        BY <4>1, SameAncestor
      <4> QED BY <3>1, <4>2, <4>3, <4>4
    <3>3. CASE ~ (i <= Len(n))
      <4>1. i - Len(n) \in 1 .. d /\ i \in Len(n) + 1 .. Len(n) + d /\ Len(n) + (i - Len(n)) = i
        BY <1>1, <3>3 DEF d
      <4>2. (Path(n) \o more)[i] = more[i - Len(n)]
        <5> DEFINE p == Path(n)
        <5>1. p \in Seq(T) /\ more \in Seq(T) /\ i \in Len(p) + 1 .. Len(p) + Len(more)
          BY <2>5, <4>1
        <5> HIDE DEF p
        <5>2. (p \o more)[i] = more[i - Len(p)]
          BY <5>1, SecondPart
        <5> QED BY <2>5, <5>2 DEF p
      <4>3. more[i - Len(n)] = Ancestor(node, i)
        BY <1>7, <4>1 DEF d
      <4> QED BY <3>1, <4>2, <4>3
    <3> QED BY <3>2, <3>3
  <2> DEFINE a == Path(n) \o more
             b == Path(node)
  <2>8. a \in Seq(T) /\ b \in Seq(T) /\ Len(a) = Len(b) /\ \A i \in 1 .. Len(a) : a[i] = b[i]
    BY <2>5, <2>6, <2>7
  <2> HIDE DEF a, b
  <2>9. a = b
    BY <2>8
  <2> QED BY <2>9 DEF a, b
<1> QED BY <1>6, <1>8 DEF WithLog

LEMMA ExecuteSafe ==
  ASSUME NEW C, OneBranch(C), NEW s, IsState(s), LogSafe(C, s), NEW w, NEW node, Certified(C, w, node),
         node \in s.tree, MissingAncestors(s, node) = {}
  PROVE  \E log : Execute(s, node) = WithLog(s, log) /\ LogSafe(C, WithLog(s, log))
<1>1. PICK n : /\ IsNode(n) /\ s.committed = Path(n)
               /\ n = Genesis \/ \E v : Certified(C, v, n)
  BY DEF LogSafe
<1>2. IsNode(node)
  BY DEF OneBranch
<1>3. IsPrefix(n, node) \/ IsPrefix(node, n)
  BY <1>1, <1>2, GenesisFirst DEF OneBranch
<1>4. \A log : WithLog(s, log).committed = log /\ WithLog(s, log).tree = s.tree
  BY DEF WithLog, IsState, Fields
<1>5. CASE IsPrefix(node, n)
  <2>1. Execute(s, node) = WithLog(s, Path(n))
    BY <1>1, <1>2, <1>5, ExecuteNothing
  <2>2. LogSafe(C, WithLog(s, Path(n)))
    BY <1>1, <1>4 DEF LogSafe
  <2> QED BY <2>1, <2>2
<1>6. CASE IsPrefix(n, node)
  <2>1. Execute(s, node) = WithLog(s, Path(node))
    BY <1>1, <1>2, <1>6, ExecuteRest
  <2>2. LogSafe(C, WithLog(s, Path(node)))
    BY <1>2, <1>4 DEF LogSafe
  <2> QED BY <2>1, <2>2
<1> QED BY <1>3, <1>5, <1>6

LEMMA DecidedSafe ==
  ASSUME NEW Z, NEW C, NEW G, OneBranch(C), NEW r, NEW s, StateSafe(Z, C, G, s), NEW m,
         m.view \in Nat, m.view <= s.view, NEW w, Certified(C, w, m.qc.node),
         m.qc.node \in s.tree, MissingAncestors(s, m.qc.node) = {}
  PROVE  StepSafe(Z, C, G, s, Decided(r, s, m))
<1> DEFINE t == Execute(s, m.qc.node)
           u == [t EXCEPT !.decided = @ \cup {m.view}]
<1>1. /\ IsState(s) /\ s.view \in Nat /\ s.locked_qc.view \in Nat /\ LogSafe(C, s)
      /\ Genesis \in s.tree
  BY SafeNats DEF StateSafe, LogSafe
<1>2. PICK log : t = WithLog(s, log) /\ LogSafe(C, WithLog(s, log))
  BY <1>1, ExecuteSafe
<1>3. Decided(r, s, m) \in {Nothing(t), AdvanceFrom(r, u, m.view)}
  BY DEF Decided
<1> HIDE DEF t
<1>4. IsState(t) /\ LogSafe(C, t) /\ \A f \in Fields \ {"committed"} : t[f] = s[f]
  <2>1. IsState(t) /\ \A f \in Fields \ {"committed"} : t[f] = s[f]
    BY <1>1, <1>2 DEF IsState, Fields, WithLog
  <2> QED BY <1>2, <2>1
<1>5. /\ t.locked_qc = s.locked_qc /\ t.prepare_qc = s.prepare_qc /\ t.new_view = s.new_view
      /\ t.high_qc = s.high_qc /\ t.votes = s.votes /\ t.deferred = s.deferred
      /\ t.left = s.left /\ t.tree = s.tree /\ t.view = s.view
  BY <1>4 DEF Fields
<1>6. StateSafe(Z, C, G, t)
  <2>1. CertsSafe(Z, C, G, t)
    BY <1>5 DEF StateSafe, CertsSafe
  <2>2. ViewSafe(t) /\ WaitSafe(Z, C, t)
    BY <1>5 DEF StateSafe, ViewSafe, WaitSafe
  <2> QED BY <1>4, <2>1, <2>2 DEF StateSafe
<1>7. IsState(u) /\ \A f \in Fields \ {"decided"} : u[f] = t[f]
  BY <1>4 DEF IsState, Fields
<1> HIDE DEF u
<1>8. (\A f \in Watched : u[f] = t[f]) /\ u.tree = t.tree /\ u.view = t.view
      /\ u.locked_qc = t.locked_qc
  BY <1>7 DEF Watched, Fields
<1>9. StateSafe(Z, C, G, u)
  BY <1>1, <1>5, <1>6, <1>7, <1>8, SameSafe
<1>10. StepSafe(Z, C, G, s, Nothing(t)) /\ StepSafe(Z, C, G, s, Nothing(u))
  BY <1>1, <1>5, <1>6, <1>8, <1>9, NothingSafe
<1>11. StepSafe(Z, C, G, u, AdvanceFrom(r, u, m.view))
  BY <1>5, <1>8, <1>9, AdvanceSafe
<1>12. StepSafe(Z, C, G, s, AdvanceFrom(r, u, m.view))
  BY <1>10, <1>11, ThenOnlySafe
<1> QED BY <1>3, <1>10, <1>12

LEMMA DecideSafe ==
  ASSUME NEW Z, NEW C, NEW G, OneBranch(C), NEW r, NEW s, StateSafe(Z, C, G, s), NEW m,
         m.view \in Nat, m.view <= s.view, QCSafe(Z, C, m.qc)
  PROVE  StepSafe(Z, C, G, s, OnDecide(r, s, m))
<1> DEFINE t == [s EXCEPT !.deferred = Append(@, m)]
<1>1. IsState(s) /\ s.view \in Nat /\ s.locked_qc.view \in Nat
  BY SafeNats
<1>2. IsState(t) /\ t.deferred = Append(s.deferred, m)
      /\ \A f \in Fields \ {"deferred"} : t[f] = s[f]
  BY <1>1 DEF IsState, Fields
<1>3. PICK n : \/ OnDecide(r, s, m) = Nothing(s)
               \/ /\ OnDecide(r, s, m) = Decided(r, s, m) /\ MatchingQC(m, "COMMIT")
                  /\ m.qc.node \in s.tree /\ MissingAncestors(s, m.qc.node) = {}
               \/ OnDecide(r, s, m) = RequestSync(r, t, n, m.from)
  BY DEF OnDecide
<1> HIDE DEF t
<1>4. /\ t.locked_qc = s.locked_qc /\ t.prepare_qc = s.prepare_qc /\ t.new_view = s.new_view
      /\ t.high_qc = s.high_qc /\ t.votes = s.votes /\ t.committed = s.committed
      /\ t.left = s.left /\ t.tree = s.tree /\ t.view = s.view
  BY <1>2 DEF Fields
<1>5. WaitSafe(Z, C, t)
  <2>1. PICK ms : s.deferred \in Seq(ms)
                  /\ \A k \in ms : k.view \in Nat /\ k.view <= s.view /\ QCSafe(Z, C, k.qc)
    BY DEF StateSafe, WaitSafe
  <2>2. s.deferred \in Seq(ms \cup {m})
    BY <2>1
  <2>3. t.deferred \in Seq(ms \cup {m})
    BY <1>2, <2>2
  <2>4. \A k \in ms \cup {m} : k.view \in Nat /\ k.view <= t.view /\ QCSafe(Z, C, k.qc)
    BY <1>4, <2>1
  <2> QED BY <2>3, <2>4 DEF WaitSafe
<1>6. StateSafe(Z, C, G, t)
  <2>1. CertsSafe(Z, C, G, t)
    BY <1>4 DEF StateSafe, CertsSafe
  <2>2. ViewSafe(t) /\ LogSafe(C, t)
    BY <1>4 DEF StateSafe, ViewSafe, LogSafe
  <2> QED BY <1>2, <1>5, <2>1, <2>2 DEF StateSafe
<1>7. StepSafe(Z, C, G, s, Nothing(t))
  BY <1>1, <1>4, <1>6, NothingSafe
<1>8. StepSafe(Z, C, G, s, RequestSync(r, t, n, m.from))
  BY <1>7, RequestSyncSafe
<1>9. ASSUME MatchingQC(m, "COMMIT"), m.qc.node \in s.tree, MissingAncestors(s, m.qc.node) = {}
      PROVE  StepSafe(Z, C, G, s, Decided(r, s, m))
  <2>1. Certified(C, m.qc.view, m.qc.node)
    BY <1>9 DEF MatchingQC, QCSafe
  <2> QED BY <1>9, <2>1, DecidedSafe
<1> QED BY <1>3, <1>8, <1>9, IdleSafe

LEMMA SyncReqSafe ==
  ASSUME NEW Z, NEW C, NEW G, NEW r, NEW s, StateSafe(Z, C, G, s), NEW m
  PROVE  StepSafe(Z, C, G, s, OnSyncReq(r, s, m))
<1>1. PICK held : OnSyncReq(r, s, m) \in {Nothing(s), Does(s, Send(m.from, Branch(s.view, r, held)))}
  BY DEF OnSyncReq
<1> DEFINE b == Branch(s.view, r, held)
           p == [dst |-> m.from, msg |-> b]
<1>2. Send(m.from, Branch(s.view, r, held)) = {p} /\ p.msg = b
  BY DEF Send
<1>3. b.type = "SYNC_RESP" /\ b.vote = FALSE
  BY DEF Branch
<1>4. MsgSafe(Z, C, G, b)
  BY <1>3 DEF MsgSafe, IsProposal, Phases
<1> HIDE DEF b, p
<1>5. StepSafe(Z, C, G, s, Nothing(s))
  BY IdleSafe
<1>6. StepSafe(Z, C, G, s, Does(s, {p}))
  BY <1>2, <1>4, <1>5, SendSafe
<1> QED BY <1>1, <1>2, <1>5, <1>6

LEMMA SyncRespSafe ==
  ASSUME NEW Z, NEW C, NEW G, OneBranch(C), NEW r, NEW s, StateSafe(Z, C, G, s), NEW m
  PROVE  StepSafe(Z, C, G, s, OnSyncResp(r, s, m))
<1> DEFINE n == Len(s.deferred)
           t == WithBranch(s, m.nodes)
           After(y, k) == TakenUp(r, y, s.deferred[k])
<1>1. /\ IsState(s) /\ s.view \in Nat /\ s.locked_qc.view \in Nat /\ Genesis \in s.tree
  BY SafeNats DEF StateSafe, LogSafe
<1>2. PICK ms : s.deferred \in Seq(ms)
                /\ \A k \in ms : k.view \in Nat /\ k.view <= s.view /\ QCSafe(Z, C, k.qc)
  BY DEF StateSafe, WaitSafe
<1>3. /\ n \in Nat
      /\ \A k \in 1 .. n : /\ s.deferred[k].view \in Nat /\ s.deferred[k].view <= s.view
                           /\ QCSafe(Z, C, s.deferred[k].qc)
  BY <1>2
<1>4. StepSafe(Z, C, G, s, Nothing(t))
  <2>1. IsState(t) /\ t.deferred = <<>> /\ t.tree = s.tree \cup m.nodes
        /\ \A f \in Fields \ {"deferred", "tree"} : t[f] = s[f]
    BY <1>1 DEF IsState, Fields, WithBranch
  <2> HIDE DEF t
  <2>2. /\ t.locked_qc = s.locked_qc /\ t.prepare_qc = s.prepare_qc /\ t.new_view = s.new_view
        /\ t.high_qc = s.high_qc /\ t.votes = s.votes /\ t.committed = s.committed
        /\ t.left = s.left /\ t.view = s.view
    BY <2>1 DEF Fields
  <2>3. WaitSafe(Z, C, t)
    <3>1. t.deferred \in Seq({})
      BY <2>1
    <3> QED BY <3>1 DEF WaitSafe
  <2>4. CertsSafe(Z, C, G, t)
    BY <2>2 DEF StateSafe, CertsSafe
  <2>5. ViewSafe(t) /\ LogSafe(C, t)
    BY <1>1, <2>1, <2>2 DEF StateSafe, ViewSafe, LogSafe
  <2>6. StateSafe(Z, C, G, t)
    BY <2>1, <2>3, <2>4, <2>5 DEF StateSafe
  <2> QED BY <1>1, <2>2, <2>6, NothingSafe
<1>5. ASSUME NEW y, NEW k \in 1 .. n, StepSafe(Z, C, G, s, y)
      PROVE  StepSafe(Z, C, G, s, After(y, k))
  <2> DEFINE d == s.deferred[k]
             x == OnDecide(r, y.state, d)
  <2>1. d.view \in Nat /\ d.view <= s.view /\ QCSafe(Z, C, d.qc)
    BY <1>3
  <2>2. StateSafe(Z, C, G, y.state) /\ s.view <= y.state.view
    BY <1>5 DEF StepSafe
  <2>3. y.state.view \in Nat
    BY <2>2, SafeNats
  <2> HIDE DEF d
  <2>4. d.view <= y.state.view
    BY <1>1, <2>1, <2>2, <2>3
  <2>5. StepSafe(Z, C, G, y.state, x)
    BY <2>1, <2>2, <2>4, DecideSafe
  <2>6. After(y, k) = Does(x.state, y.out \cup x.out)
    BY DEF TakenUp, d
  <2> HIDE DEF x, After
  <2> QED BY <1>5, <2>5, <2>6, ThenSafe
<1> HIDE DEF t, After
<1>6. PICK g : /\ OnSyncResp(r, s, m) = g[n] /\ g[0] = Nothing(t)
               /\ \A k \in 1 .. n : g[k] = After(g[k - 1], k)
  <2>1. Len(s.deferred) \in Nat
    BY <1>3
  <2> QED BY <2>1, Replayed DEF t, After
<1>7. \A k \in 0 .. n : StepSafe(Z, C, G, s, g[k])
  <2> DEFINE bad == {k \in 0 .. n : ~ StepSafe(Z, C, G, s, g[k])}
  <2> SUFFICES ASSUME bad # {} PROVE FALSE
    OBVIOUS
  <2>1. PICK k \in bad : \A j \in bad : k <= j
    <3>1. bad \in SUBSET Nat
      BY <1>3
    <3> QED BY <3>1, LeastNat
  <2>2. k # 0
    BY <1>4, <1>6
  <2>3. StepSafe(Z, C, G, s, g[k - 1])
    BY <1>3, <2>1, <2>2
  <2>4. g[k] = After(g[k - 1], k)
    BY <1>3, <1>6, <2>2
  <2> QED BY <1>3, <1>5, <2>2, <2>3, <2>4
<1>8. n \in 0 .. n
  BY <1>3
<1> HIDE DEF n
<1> QED BY <1>6, <1>7, <1>8
-----------------------------------------------------------------------------
(* The history grows with the votes of a step                                *)

LEMMA SafeStays ==
  ASSUME NEW Z, NEW C, NEW G, NEW Y, NEW B, NEW H, Z \subseteq Y, C \subseteq B, G \subseteq H
  PROVE  /\ \A q : QCSafe(Z, C, q) => QCSafe(Y, B, q)
         /\ \A type, v, n, i : VoteSafe(Z, C, G, type, v, n, i) => VoteSafe(Y, B, H, type, v, n, i)
         /\ \A m : MsgSafe(Z, C, G, m) => MsgSafe(Y, B, H, m)
         /\ \A s : StateSafe(Z, C, G, s) => StateSafe(Y, B, H, s)
<1>1. \A v, n : Certified(C, v, n) => Certified(B, v, n)
  BY CertifiedStays
<1>2. \A q : QCSafe(Z, C, q) => QCSafe(Y, B, q)
  BY <1>1 DEF QCSafe
<1>3. \A type, v, n, i : VoteSafe(Z, C, G, type, v, n, i) => VoteSafe(Y, B, H, type, v, n, i)
  BY DEF VoteSafe
<1>4. \A m : MsgSafe(Z, C, G, m) => MsgSafe(Y, B, H, m)
  BY <1>2, <1>3 DEF MsgSafe
<1>5. ASSUME NEW s, StateSafe(Z, C, G, s) PROVE StateSafe(Y, B, H, s)
  <2>1. CertsSafe(Y, B, H, s)
    BY <1>2, <1>3, <1>5 DEF StateSafe, CertsSafe
  <2>2. WaitSafe(Y, B, s)
    BY <1>2, <1>5 DEF StateSafe, WaitSafe
  <2>3. LogSafe(B, s)
    BY <1>1, <1>5 DEF StateSafe, LogSafe
  <2> QED BY <1>5, <2>1, <2>2, <2>3 DEF StateSafe
<1> QED BY <1>2, <1>3, <1>4, <1>5

\* Replica i, on its way from s to t, casts the votes of H and B that are
\* not in G and C: the PREPARE votes are good, and the COMMIT votes on time.
LEMMA KeptGrows ==
  ASSUME NEW P, NEW Z, NEW C, NEW G, NEW Y, NEW B, NEW H,
         Z \subseteq Y, G \subseteq H, GhostOK(P, Y, B, H),
         NEW i, NEW s, NEW t, Kept(Z, C, G, i, s),
         s.view \in Nat, t.view \in Nat, s.view <= t.view,
         s.locked_qc.view \in Nat, t.locked_qc.view \in Nat, s.locked_qc.view <= t.locked_qc.view,
         \A v, n : <<v, i, n>> \in H => <<v, i, n>> \in G \/ (v <= t.view /\ Good(Y, B, i, v, n)),
         \A v, n : <<v, i, n>> \in B =>
           <<v, i, n>> \in C \/ (v <= t.locked_qc.view /\ s.view <= v)
  PROVE  Kept(Y, B, H, i, t)
<1>1. /\ \A v, n : <<v, i, n>> \in H => v \in Nat
      /\ \A v, n : <<v, i, n>> \in B => v \in Nat
  <2>1. \A v, n : <<v, i, n>> \in H => v \in Nat
    BY DEF GhostOK
  <2>2. \A v, n : <<v, i, n>> \in B => <<v, n>> \in Y
    BY DEF GhostOK
  <2> QED BY <2>1, <2>2, CertifiedNode
<1>2. ASSUME NEW v, NEW n, <<v, i, n>> \in G PROVE v <= t.view /\ Good(Y, B, i, v, n)
  <2>1. v \in Nat /\ v <= s.view /\ Good(Z, C, i, v, n)
    BY <1>1, <1>2 DEF Kept
  <2>2. PICK u, k : /\ <<u, k>> \in Z /\ StrictPrefix(k, n)
                    /\ \A w, b : <<w, i, b>> \in C /\ w < v => w <= u
    BY <2>1 DEF Good
  <2>3. ASSUME NEW w, NEW b, <<w, i, b>> \in B, w < v PROVE <<w, i, b>> \in C
    BY <1>1, <2>1, <2>3
  <2>4. Good(Y, B, i, v, n)
    BY <2>2, <2>3 DEF Good
  <2> QED BY <2>1, <2>4
<1>3. ASSUME NEW v, NEW n, <<v, i, n>> \in B PROVE v <= t.locked_qc.view
  <2>1. CASE <<v, i, n>> \in C
    <3>1. v \in Nat /\ v <= s.locked_qc.view
      BY <1>1, <1>3, <2>1 DEF Kept
    <3> QED BY <3>1
  <2> QED BY <1>3, <2>1
<1> QED BY <1>2, <1>3 DEF Kept

\* The history after a step x of replica r, which is live if it never crashed
Grown(P, Z, C, G, r, live, s, x) ==
  \E Y, B, H :
    /\ Z \subseteq Y /\ C \subseteq B /\ G \subseteq H /\ GhostOK(P, Y, B, H)
    /\ \A v, i, n : i # r => /\ <<v, i, n>> \in B => <<v, i, n>> \in C
                             /\ <<v, i, n>> \in H => <<v, i, n>> \in G
    /\ StepSafe(Y, B, H, s, x)
    /\ live => Kept(Y, B, H, r, x.state)

LEMMA StepNats ==
  ASSUME NEW Z, NEW C, NEW G, NEW s, StateSafe(Z, C, G, s),
         NEW Y, NEW B, NEW H, NEW x, StepSafe(Y, B, H, s, x)
  PROVE  /\ s.view \in Nat /\ x.state.view \in Nat /\ s.view <= x.state.view
         /\ s.locked_qc.view \in Nat /\ x.state.locked_qc.view \in Nat
         /\ s.locked_qc.view <= x.state.locked_qc.view
<1>1. StateSafe(Y, B, H, x.state) /\ s.view <= x.state.view
      /\ s.locked_qc.view <= x.state.locked_qc.view
  BY DEF StepSafe
<1> QED BY <1>1, SafeNats

\* No vote is cast.
LEMMA SameGrown ==
  ASSUME NEW P, NEW Z, NEW C, NEW G, GhostOK(P, Z, C, G), NEW r, NEW live, NEW s,
         StateSafe(Z, C, G, s), live => Kept(Z, C, G, r, s), NEW x, StepSafe(Z, C, G, s, x)
  PROVE  Grown(P, Z, C, G, r, live, s, x)
<1>1. /\ s.view \in Nat /\ x.state.view \in Nat /\ s.view <= x.state.view
      /\ s.locked_qc.view \in Nat /\ x.state.locked_qc.view \in Nat
      /\ s.locked_qc.view <= x.state.locked_qc.view
  BY StepNats
<1>2. live => Kept(Z, C, G, r, x.state)
  BY <1>1, KeptGrows
<1> QED BY <1>2 DEF Grown

\* on_vote: a PREPARE QC certifies its node.
LEMMA VoteGrown ==
  ASSUME NEW P, NEW Z, NEW C, NEW G, GhostOK(P, Z, C, G), NEW r, NEW live, NEW s,
         StateSafe(Z, C, G, s), live => Kept(Z, C, G, r, s),
         NEW m, m.vote, MessageOK(P, r, m), MsgSafe(Z, C, G, m)
  PROVE  Grown(P, Z, C, G, r, live, s, OnVote(r, s, m))
<1> DEFINE x == OnVote(r, s, m)
           t == Tally(s, VoteQC(m), m.from)
           z == <<m.view, m.node>>
           made == m.type = "PREPARE" /\ Formed(t, VoteQC(m))
           Y == IF made THEN Z \cup {z} ELSE Z
<1>1. /\ m.view \in Nat /\ m.from \in Replicas /\ m.type \in {"PREPARE", "PRE_COMMIT", "COMMIT"}
  BY DEF MessageOK, VoteOK
<1>2. StateSafe(Z, C, G, t)
  BY <1>1, TallySafe
<1>3. made => z \in Z \/ Certified(G, m.view, m.node)
  <2> SUFFICES ASSUME made, z \notin Z PROVE Certified(G, m.view, m.node)
    OBVIOUS
  <2> HIDE DEF t
  <2>1. PICK q \in SUBSET Replicas :
             /\ Cardinality(q) >= Quorum
             /\ \A i \in q : VoteSafe(Z, C, G, m.type, m.view, m.node, i)
    BY <1>2, QuorumVoted
  <2> QED BY <2>1 DEF VoteSafe, Certified
<1>4. made => z \in Y
  OBVIOUS
<1>5. /\ Z \subseteq Y
      /\ \A v, n : <<v, n>> \in Y =>
           <<v, n>> \in Z \/ (v = m.view /\ n = m.node /\ Certified(G, v, n))
  BY <1>3
<1> HIDE DEF Y
<1>6. GhostOK(P, Y, C, G)
  <2>1. PICK b \in Nat : \A v, n : <<v, n>> \in Z => v <= b
    BY DEF GhostOK
  <2>2. \A v, n : <<v, n>> \in Z => v \in Nat
    BY CertifiedNode
  <2>3. b + m.view \in Nat /\ \A v, n : <<v, n>> \in Y => v <= b + m.view
    BY <1>1, <1>5, <2>1, <2>2
  <2> QED BY <1>5, <2>3 DEF GhostOK
<1>7. StepSafe(Y, C, G, s, x)
  <2>1. StateSafe(Y, C, G, s) /\ MsgSafe(Y, C, G, m)
    BY <1>5, SafeStays
  <2>2. \A v, i, n : <<v, i, n>> \in C => <<v, n>> \in Y
    BY <1>6 DEF GhostOK
  <2>3. m.type = "PREPARE" /\ Formed(Tally(s, VoteQC(m), m.from), VoteQC(m)) => <<m.view, m.node>> \in Y
    BY <1>4
  <2> HIDE DEF made, t, z
  <2> QED BY <1>1, <2>1, <2>2, <2>3, CountSafe
<1>8. live => Kept(Y, C, G, r, x.state)
  <2> HIDE DEF x
  <2>1. /\ s.view \in Nat /\ x.state.view \in Nat /\ s.view <= x.state.view
        /\ s.locked_qc.view \in Nat /\ x.state.locked_qc.view \in Nat
        /\ s.locked_qc.view <= x.state.locked_qc.view
    BY <1>7, StepNats
  <2> QED BY <1>5, <1>6, <2>1, KeptGrows
<1> HIDE DEF x
<1>9. Grown(P, Z, C, G, r, live, s, x)
  BY <1>5, <1>6, <1>7, <1>8 DEF Grown
<1> QED BY <1>9 DEF x

\* on_prepare: a vote is good for what the replica has voted to commit.
LEMMA PrepareGrown ==
  ASSUME NEW P, NEW Z, NEW C, NEW G, GhostOK(P, Z, C, G), NEW r, NEW live, NEW s,
         StateSafe(Z, C, G, s), live => Kept(Z, C, G, r, s),
         NEW m, IsProposal(m), MessageOK(P, r, m), MsgSafe(Z, C, G, m), m.view <= s.view
  PROVE  Grown(P, Z, C, G, r, live, s, OnPrepare(r, s, m))
<1> DEFINE x == OnPrepare(r, s, m)
           safe == IsPrefix(s.locked_qc.node, m.node) \/ m.qc.view > s.locked_qc.view
           H == IF safe /\ <<m.view, m.node>> \notin Z THEN G \cup {<<m.view, r, m.node>>} ELSE G
<1>1. m.view \in Nat \ {0} /\ <<m.view, r, m.node>> \in P
  BY DEF MessageOK, MsgSafe
<1>2. s.locked_qc.view \in Nat /\ <<s.locked_qc.view, s.locked_qc.node>> \in Z
      /\ m.qc.view \in Nat /\ <<m.qc.view, m.qc.node>> \in Z
  BY DEF StateSafe, CertsSafe, QCSafe, MsgSafe, IsProposal, Phases
<1>3. IsNode(m.qc.node) /\ IsNode(s.locked_qc.node)
  BY <1>2, CertifiedNode
<1>4. /\ IsNode(m.node) /\ StrictPrefix(m.qc.node, m.node)
      /\ Len(m.node) > 0 /\ m.node[Len(m.node)][1] = m.view
  <2>1. PICK c : m.node = Append(m.qc.node, <<m.view, c>>)
    BY DEF MsgSafe
  <2>2. <<m.view, c>>[1] = m.view
    OBVIOUS
  <2> DEFINE link == <<m.view, c>>
  <2> HIDE DEF link
  <2>3. m.node = Append(m.qc.node, link) /\ link[1] = m.view
    BY <2>1, <2>2 DEF link
  <2> QED BY <1>3, <2>3, ChildOf
<1>5. \A v, i, n : <<v, i, n>> \in H => \/ <<v, i, n>> \in G
                                        \/ /\ v = m.view /\ i = r /\ n = m.node
                                           /\ safe /\ <<m.view, m.node>> \notin Z
  OBVIOUS
<1>6. G \subseteq H /\ (safe => <<m.view, r, m.node>> \in H \/ <<m.view, m.node>> \in Z)
  OBVIOUS
<1> HIDE DEF H
<1>7. GhostOK(P, Z, C, H)
  <2>1. \A v, n : Certified(G, v, n) => Certified(H, v, n)
    BY <1>6, CertifiedStays
  <2>2. \A v, i, n : <<v, i, n>> \in H => /\ <<v, i, n>> \in P /\ v \in Nat \ {0}
                                          /\ IsNode(n) /\ Len(n) > 0 /\ n[Len(n)][1] = v
    BY <1>1, <1>4, <1>5 DEF GhostOK
  <2> QED BY <2>1, <2>2 DEF GhostOK
<1>8. StepSafe(Z, C, H, s, x)
  <2>1. StateSafe(Z, C, H, s)
    BY <1>6, SafeStays
  <2>2. safe => VoteSafe(Z, C, H, m.type, m.view, m.node, r)
    BY <1>6 DEF VoteSafe, IsProposal
  <2> QED BY <1>1, <2>1, <2>2, PrepareSafe
<1>9. ASSUME live, safe, <<m.view, m.node>> \notin Z PROVE Good(Z, C, r, m.view, m.node)
  <2>1. \A w, b : <<w, r, b>> \in C => w \in Nat /\ w <= s.locked_qc.view
    <3>1. \A w, b : <<w, r, b>> \in C => <<w, b>> \in Z
      BY DEF GhostOK
    <3> QED BY <1>9, <3>1, CertifiedNode DEF Kept
  <2>2. CASE m.qc.view > s.locked_qc.view
    <3>1. \A w, b : <<w, r, b>> \in C /\ w < m.view => w <= m.qc.view
      BY <1>2, <2>1, <2>2
    <3> QED BY <1>2, <1>4, <3>1 DEF Good
  <2>3. CASE IsPrefix(s.locked_qc.node, m.node)
    <3> DEFINE k == s.locked_qc.node
               u == s.locked_qc.view
    <3>1. /\ Len(k) \in Nat /\ Len(m.node) \in Nat /\ Len(k) <= Len(m.node)
          /\ \A j \in 1 .. Len(k) : k[j] = m.node[j]
      BY <1>3, <1>4, <2>3, PrefixIs
    <3>2. Len(k) # Len(m.node)
      <4> SUFFICES ASSUME Len(k) = Len(m.node) PROVE FALSE
        OBVIOUS
      <4>1. u # 0
        <5>1. u = 0 => k = Genesis
          BY <1>2, CertifiedNode
        <5> QED BY <1>4, <5>1, GenesisIsNode
      <4>2. k[Len(k)][1] = u
        BY <1>2, <4>1, CertifiedNode
      <4>3. Len(k) \in 1 .. Len(k)
        BY <1>4, <3>1
      <4>4. u = m.view
        BY <1>4, <3>1, <4>2, <4>3
      <4>5. k = m.node
        <5>1. Ancestor(k, Len(k)) = k /\ Ancestor(m.node, Len(m.node)) = m.node
          BY <1>3, <1>4, WholeNode
        <5>2. Len(k) \in 0 .. Len(k)
          BY <3>1
        <5>3. Ancestor(k, Len(k)) = Ancestor(m.node, Len(k))
          BY <1>3, <1>4, <2>3, <5>2, SameAncestor
        <5> QED BY <5>1, <5>3
      <4> QED BY <1>2, <1>9, <4>4, <4>5
    <3>3. StrictPrefix(k, m.node)
      BY <2>3, <3>1, <3>2 DEF StrictPrefix
    <3> QED BY <1>2, <2>1, <3>3 DEF Good
  <2> QED BY <1>9, <2>2, <2>3
<1>10. live => Kept(Z, C, H, r, x.state)
  <2> SUFFICES ASSUME live PROVE Kept(Z, C, H, r, x.state)
    OBVIOUS
  <2> HIDE DEF x, safe
  <2>1. /\ s.view \in Nat /\ x.state.view \in Nat /\ s.view <= x.state.view
        /\ s.locked_qc.view \in Nat /\ x.state.locked_qc.view \in Nat
        /\ s.locked_qc.view <= x.state.locked_qc.view
    BY <1>8, StepNats
  <2>2. m.view <= x.state.view
    BY <1>1, <2>1
  <2>3. \A v, n : <<v, r, n>> \in H => <<v, r, n>> \in G \/ (v <= x.state.view /\ Good(Z, C, r, v, n))
    BY <1>5, <1>9, <2>2
  <2>4. \A v, n : <<v, r, n>> \in C => <<v, r, n>> \in C
    OBVIOUS
  <2>5. Kept(Z, C, G, r, s)
    OBVIOUS
  <2> QED BY <1>6, <1>7, <2>1, <2>3, <2>4, <2>5, KeptGrows
<1> HIDE DEF x, safe
<1>11. Grown(P, Z, C, G, r, live, s, x)
  BY <1>5, <1>6, <1>7, <1>8, <1>10 DEF Grown
<1> QED BY <1>11 DEF x

\* on_commit: a lock is for no earlier view than any the replica has voted in.
LEMMA CommitGrown ==
  ASSUME NEW P, NEW Z, NEW C, NEW G, GhostOK(P, Z, C, G), NEW r, NEW live, NEW s,
         StateSafe(Z, C, G, s), live => Kept(Z, C, G, r, s),
         NEW m, ~ m.vote, m.type = "COMMIT", m.view \in Nat, MsgSafe(Z, C, G, m), m.view = s.view
  PROVE  Grown(P, Z, C, G, r, live, s, OnCommit(r, s, m))
<1> DEFINE x == OnCommit(r, s, m)
           B == IF Locks(s, m) THEN C \cup {<<m.view, r, m.qc.node>>} ELSE C
<1>1. QCSafe(Z, C, m.qc)
  BY DEF MsgSafe, Phases
<1>2. Locks(s, m) => m.qc.view = m.view /\ <<m.view, m.qc.node>> \in Z
  BY <1>1 DEF Locks, MatchingQC, QCSafe
<1>3. Locks(s, m) => x.state.locked_qc.view = m.view
  <2> DEFINE t == [s EXCEPT !.locked_qc = m.qc]
  <2>1. IsState(s)
    BY SafeNats
  <2>2. t.locked_qc = m.qc
    BY <2>1 DEF IsState, Fields
  <2>3. Locks(s, m) => x = SendVote(r, t, m, m.qc.node)
    BY DEF OnCommit, Locks
  <2> HIDE DEF t, x
  <2>4. Locks(s, m) => x.state = t
    BY <2>3 DEF SendVote, Does
  <2> QED BY <1>2, <2>2, <2>4
<1>4. \A v, i, n : <<v, i, n>> \in B => \/ <<v, i, n>> \in C
                                        \/ v = m.view /\ i = r /\ n = m.qc.node /\ Locks(s, m)
  OBVIOUS
<1>5. C \subseteq B /\ (Locks(s, m) => <<m.view, r, m.qc.node>> \in B)
  OBVIOUS
<1> HIDE DEF B
<1>6. GhostOK(P, Z, B, G)
  <2>1. \A v, i, n : <<v, i, n>> \in B => <<v, n>> \in Z
    BY <1>2, <1>4 DEF GhostOK
  <2> QED BY <2>1 DEF GhostOK
<1>7. StepSafe(Z, B, G, s, x)
  <2>1. StateSafe(Z, B, G, s) /\ MsgSafe(Z, B, G, m)
    BY <1>5, SafeStays
  <2>2. m.view <= s.view /\ s.locked_qc.view <= m.view
    BY SafeNats
  <2> QED BY <1>5, <2>1, <2>2, CommitSafe
<1>8. live => Kept(Z, B, G, r, x.state)
  <2> SUFFICES ASSUME live PROVE Kept(Z, B, G, r, x.state)
    OBVIOUS
  <2> HIDE DEF x
  <2>1. /\ s.view \in Nat /\ x.state.view \in Nat /\ s.view <= x.state.view
        /\ s.locked_qc.view \in Nat /\ x.state.locked_qc.view \in Nat
        /\ s.locked_qc.view <= x.state.locked_qc.view
    BY <1>7, StepNats
  <2>2. \A v, n : <<v, r, n>> \in B =>
          <<v, r, n>> \in C \/ (v <= x.state.locked_qc.view /\ s.view <= v)
    BY <1>3, <1>4, <2>1
  <2>3. Kept(Z, C, G, r, s)
    OBVIOUS
  <2> QED BY <1>6, <2>1, <2>2, <2>3, KeptGrows
<1> HIDE DEF x
<1>9. Grown(P, Z, C, G, r, live, s, x)
  BY <1>4, <1>5, <1>6, <1>7, <1>8 DEF Grown
<1> QED BY <1>9 DEF x

LEMMA ThenGrown ==
  ASSUME NEW P, NEW Z, NEW C, NEW G, NEW r, NEW live, NEW s, NEW t, NEW x, StateSafe(Z, C, G, s),
         StepSafe(Z, C, G, s, Nothing(t)), Grown(P, Z, C, G, r, live, t, x)
  PROVE  Grown(P, Z, C, G, r, live, s, x)
<1>1. PICK Y, B, H :
        /\ Z \subseteq Y /\ C \subseteq B /\ G \subseteq H /\ GhostOK(P, Y, B, H)
        /\ \A v, i, n : i # r => /\ <<v, i, n>> \in B => <<v, i, n>> \in C
                                 /\ <<v, i, n>> \in H => <<v, i, n>> \in G
        /\ StepSafe(Y, B, H, t, x)
        /\ live => Kept(Y, B, H, r, x.state)
  BY DEF Grown
<1>2. Nothing(t).state = t
  BY DEF Nothing, Does
<1>3. StateSafe(Z, C, G, t) /\ s.view <= t.view /\ s.locked_qc.view <= t.locked_qc.view
  BY <1>2 DEF StepSafe
<1>4. StateSafe(Y, B, H, s) /\ StateSafe(Y, B, H, t)
  BY <1>1, <1>3, SafeStays
<1>5. StepSafe(Y, B, H, s, Nothing(t))
  BY <1>3, <1>4, NothingSafe
<1>6. StepSafe(Y, B, H, s, x)
  BY <1>1, <1>4, <1>5, ThenOnlySafe
<1> QED BY <1>1, <1>6 DEF Grown

LEMMA DispatchGrown ==
  ASSUME NEW P, NEW Z, NEW C, NEW G, GhostOK(P, Z, C, G), OneBranch(C), NEW r, NEW live, NEW s,
         StateSafe(Z, C, G, s), live => Kept(Z, C, G, r, s),
         NEW m, MessageOK(P, r, m), MsgSafe(Z, C, G, m),
         ~ m.vote /\ m.type = "COMMIT" => s.view <= m.view
  PROVE  Grown(P, Z, C, G, r, live, s, Dispatch(r, s, m))
<1> DEFINE ahead == m.type \in Phases /\ ~ m.vote /\ m.view > s.view
           t == IF ahead THEN SyncView(s, m.view) ELSE s
           x == Dispatch(r, s, m)
<1>1. m.view \in Nat /\ m.from \in Replicas /\ s.view \in Nat /\ s.locked_qc.view \in Nat
  BY SafeNats DEF MessageOK
<1>2. StepSafe(Z, C, G, s, Nothing(t)) /\ t.view = IF ahead THEN m.view ELSE s.view
  BY <1>1, IdleSafe, SyncViewSafe
<1>3. \/ m.vote /\ x = OnVote(r, t, m)
      \/ ~ m.vote /\ m.type = "NEW_VIEW" /\ x = OnNewView(r, t, m)
      \/ ~ m.vote /\ m.type = "PREPARE" /\ x = OnPrepare(r, t, m)
      \/ ~ m.vote /\ m.type = "PRE_COMMIT" /\ x = OnPreCommit(r, t, m)
      \/ ~ m.vote /\ m.type = "COMMIT" /\ x = OnCommit(r, t, m)
      \/ ~ m.vote /\ m.type = "DECIDE" /\ x = OnDecide(r, t, m)
      \/ ~ m.vote /\ m.type = "SYNC_REQ" /\ x = OnSyncReq(r, t, m)
      \/ ~ m.vote /\ m.type = "SYNC_RESP" /\ x = OnSyncResp(r, t, m)
  <2>1. ~ m.vote => m.type \in {"NEW_VIEW", "SYNC_REQ", "SYNC_RESP", "PREPARE", "PRE_COMMIT",
                                "COMMIT", "DECIDE"}
    BY DEF MessageOK, Phases
  <2> HIDE DEF t
  <2>2. x = IF m.vote THEN OnVote(r, t, m)
            ELSE CASE m.type = "NEW_VIEW"     -> OnNewView(r, t, m)
                   [] m.type = "PREPARE"      -> OnPrepare(r, t, m)
                   [] m.type = "PRE_COMMIT"   -> OnPreCommit(r, t, m)
                   [] m.type = "COMMIT"       -> OnCommit(r, t, m)
                   [] m.type = "DECIDE"       -> OnDecide(r, t, m)
                   [] m.type = "SYNC_REQ"     -> OnSyncReq(r, t, m)
                   [] m.type = "SYNC_RESP"    -> OnSyncResp(r, t, m)
    BY DEF Dispatch, t
  <2> HIDE DEF x
  <2> QED BY <2>1, <2>2
<1>4. ~ m.vote /\ m.type \in Phases => m.view <= t.view
  BY <1>1, <1>2
<1>5. ~ m.vote /\ m.type = "COMMIT" => m.view = t.view
  BY <1>1, <1>2 DEF Phases
<1> HIDE DEF t, x, ahead
<1>6. StateSafe(Z, C, G, t) /\ (live => Kept(Z, C, G, r, t))
  <2>1. Nothing(t).state = t
    BY DEF Nothing, Does
  <2>2. StateSafe(Z, C, G, t) /\ s.view <= t.view /\ s.locked_qc.view <= t.locked_qc.view
    BY <1>2, <2>1 DEF StepSafe
  <2>3. t.view \in Nat /\ t.locked_qc.view \in Nat
    BY <2>2, SafeNats
  <2> QED BY <1>1, <2>2, <2>3, KeptGrows
<1>7. Grown(P, Z, C, G, r, live, t, x)
  <2>1. ASSUME StepSafe(Z, C, G, t, x) PROVE Grown(P, Z, C, G, r, live, t, x)
    BY <1>6, <2>1, SameGrown
  <2>2. ASSUME ~ m.vote, m.type \in Phases PROVE QCSafe(Z, C, m.qc) /\ m.view <= t.view
    BY <1>4, <2>2 DEF MsgSafe
  <2>3. CASE m.vote /\ x = OnVote(r, t, m)
    BY <1>6, <2>3, VoteGrown
  <2>4. CASE ~ m.vote /\ m.type = "NEW_VIEW" /\ x = OnNewView(r, t, m)
    <3>1. PICK b \in Nat : \A v, n : <<v, n>> \in Z => v <= b
      BY DEF GhostOK
    <3>2. IsNewView(m)
      BY <2>4 DEF IsNewView
    <3>3. StepSafe(Z, C, G, t, x)
      BY <1>1, <1>6, <2>4, <3>1, <3>2, NewViewSafe
    <3> QED BY <2>1, <3>3
  <2>5. CASE ~ m.vote /\ m.type = "PREPARE" /\ x = OnPrepare(r, t, m)
    <3>1. IsProposal(m) /\ m.view <= t.view
      BY <1>4, <2>5 DEF IsProposal, Phases
    <3> QED BY <1>6, <2>5, <3>1, PrepareGrown
  <2>6. CASE ~ m.vote /\ m.type = "PRE_COMMIT" /\ x = OnPreCommit(r, t, m)
    <3>1. StepSafe(Z, C, G, t, x)
      BY <1>6, <2>6, PreCommitSafe
    <3> QED BY <2>1, <3>1
  <2>7. CASE ~ m.vote /\ m.type = "COMMIT" /\ x = OnCommit(r, t, m)
    BY <1>1, <1>5, <1>6, <2>7, CommitGrown
  <2>8. CASE ~ m.vote /\ m.type = "DECIDE" /\ x = OnDecide(r, t, m)
    <3>1. QCSafe(Z, C, m.qc) /\ m.view <= t.view
      BY <2>2, <2>8 DEF Phases
    <3>2. StepSafe(Z, C, G, t, x)
      BY <1>1, <1>6, <2>8, <3>1, DecideSafe
    <3> QED BY <2>1, <3>2
  <2>9. CASE ~ m.vote /\ m.type = "SYNC_REQ" /\ x = OnSyncReq(r, t, m)
    <3>1. StepSafe(Z, C, G, t, x)
      BY <1>6, <2>9, SyncReqSafe
    <3> QED BY <2>1, <3>1
  <2>10. CASE ~ m.vote /\ m.type = "SYNC_RESP" /\ x = OnSyncResp(r, t, m)
    <3>1. StepSafe(Z, C, G, t, x)
      BY <1>6, <2>10, SyncRespSafe
    <3> QED BY <2>1, <3>1
  <2> QED BY <1>3, <2>3, <2>4, <2>5, <2>6, <2>7, <2>8, <2>9, <2>10
<1>8. Grown(P, Z, C, G, r, live, s, x)
  BY <1>2, <1>7, ThenGrown
<1> QED BY <1>8 DEF x

LEMMA BootSafe ==
  ASSUME NEW Z, NEW C, NEW G, <<0, Genesis>> \in Z, NEW r
  PROVE  /\ StateSafe(Z, C, G, Boot(r).state)
         /\ \A p \in Boot(r).out : MsgSafe(Z, C, G, p.msg)
<1> DEFINE s == InitialReplica
<1>1. /\ IsState(s) /\ s.view = 0 /\ s.new_view = {} /\ s.votes = {} /\ s.high_qc = {}
      /\ s.deferred = <<>> /\ s.committed = <<>> /\ s.left = {} /\ s.tree = {Genesis}
      /\ s.locked_qc = GenesisQC /\ s.prepare_qc = GenesisQC
  BY DEF InitialReplica, IsState, Fields
<1> HIDE DEF s
<1>2. QCSafe(Z, C, GenesisQC) /\ GenesisQC.view = 0
  BY DEF QCSafe, GenesisQC
<1>3. CertsSafe(Z, C, G, s)
  BY <1>1, <1>2 DEF CertsSafe
<1>4. ViewSafe(s)
  BY <1>1, <1>2 DEF ViewSafe
<1>5. WaitSafe(Z, C, s)
  <2>1. s.deferred \in Seq({})
    BY <1>1
  <2> QED BY <2>1 DEF WaitSafe
<1>6. LogSafe(C, s)
  <2>1. Path(Genesis) = <<>>
    <3>1. 1 .. Len(Genesis) = {}
      BY GenesisIsNode
    <3> QED BY <3>1 DEF Path
  <2> QED BY <1>1, <2>1, GenesisIsNode DEF LogSafe
<1>7. StateSafe(Z, C, G, s)
  BY <1>1, <1>3, <1>4, <1>5, <1>6 DEF StateSafe
<1>8. 0 \in Nat /\ 0 <= s.view
  BY <1>1
<1>9. StepSafe(Z, C, G, s, Boot(r))
  <2>1. Boot(r) = AdvanceFrom(r, s, 0)
    BY DEF Boot, s
  <2> QED BY <1>7, <1>8, <2>1, AdvanceSafe
<1> QED BY <1>9 DEF StepSafe
-----------------------------------------------------------------------------
(* The cluster across views *)

SafeInv(P, Z, C, G) ==
  /\ GhostOK(P, Z, C, G)
  /\ \A r \in Replicas : StateSafe(Z, C, G, rep[r])
  /\ \A r \in Replicas \ failed : Kept(Z, C, G, r, rep[r])
  /\ \A p \in net : MsgSafe(Z, C, G, p.msg)
  /\ Cardinality(failed \cup cfg.byzantine) <= F

StillSafe(P) == \E Z, C, G : SafeInv(P, Z, C, G)

SafetyInv == \E D, P, U : IInv(D, P, U) /\ StillSafe(P)

\* A COMMIT message is on time if its receiver has not left the view.
Punctual(p) == ~ p.msg.vote /\ p.msg.type = "COMMIT" => rep[p.dst].view <= p.msg.view

\* One that is late has no effect.
CommitsOnTime == \A p \in net : Deliver(p) /\ ~ Punctual(p) => Lose(p)

LEMMA InvBranch ==
  ASSUME NEW D, NEW P, NEW U, IInv(D, P, U), NEW Z, NEW C, NEW G, SafeInv(P, Z, C, G)
  PROVE  /\ OneBranch(C) /\ OneAsked(P)
         /\ failed \subseteq Replicas /\ Cardinality(failed) <= F
<1>1. failed \in SUBSET Replicas /\ Cardinality(failed) <= F
  BY DEF IInv, ClusterInv
<1>2. OneAsked(P)
  BY DEF IInv, History, OneAsked
<1>3. GhostOK(P, Z, C, G) /\ \A i \in Replicas \ failed : Kept(Z, C, G, i, rep[i])
  BY DEF SafeInv
<1>4. OneBranch(C)
  BY <1>1, <1>2, <1>3, ChosenBranch
<1> QED BY <1>1, <1>2, <1>4

LEMMA DeliverSafe ==
  ASSUME NEW D, NEW P, NEW U, IInv(D, P, U), StillSafe(P), NEW p \in net, Deliver(p), Punctual(p)
  PROVE  StillSafe(P)'
<1>1. PICK Z, C, G : SafeInv(P, Z, C, G)
  BY DEF StillSafe
<1> DEFINE r == p.dst
           m == p.msg
           x == Dispatch(r, rep[r], m)
           live == r \notin failed
<1>2. /\ r \in Replicas /\ MessageOK(P, r, m) /\ rep = [i \in Replicas |-> rep[i]]
  BY DEF IInv, ClusterInv
<1>3. OneBranch(C)
  BY <1>1, InvBranch
<1>4. /\ GhostOK(P, Z, C, G) /\ StateSafe(Z, C, G, rep[r]) /\ MsgSafe(Z, C, G, m)
      /\ live => Kept(Z, C, G, r, rep[r])
  BY <1>1, <1>2 DEF SafeInv
<1>5. ~ m.vote /\ m.type = "COMMIT" => rep[r].view <= m.view
  BY DEF Punctual
<1>6. /\ rep' = [rep EXCEPT ![r] = x.state] /\ net' = (net \ {p}) \cup Reaches(x.out)
      /\ failed' = failed /\ cfg' = cfg
  BY DEF Deliver, Take
<1> HIDE DEF r, m, live
<1>7. Grown(P, Z, C, G, r, live, rep[r], x)
  BY <1>2, <1>3, <1>4, <1>5, DispatchGrown
<1> HIDE DEF x
<1>8. PICK Y, B, H :
        /\ Z \subseteq Y /\ C \subseteq B /\ G \subseteq H /\ GhostOK(P, Y, B, H)
        /\ \A v, i, n : i # r => /\ <<v, i, n>> \in B => <<v, i, n>> \in C
                                 /\ <<v, i, n>> \in H => <<v, i, n>> \in G
        /\ StepSafe(Y, B, H, rep[r], x)
        /\ live => Kept(Y, B, H, r, x.state)
  BY <1>7 DEF Grown
<1>9. \A i \in Replicas : rep'[i] = IF i = r THEN x.state ELSE rep[i]
  BY <1>2, <1>6
<1>10. \A i \in Replicas : StateSafe(Y, B, H, rep'[i])
  <2>1. StateSafe(Y, B, H, x.state)
    BY <1>8 DEF StepSafe
  <2>2. \A i \in Replicas : StateSafe(Y, B, H, rep[i])
    BY <1>1, <1>8, SafeStays DEF SafeInv
  <2> QED BY <1>9, <2>1, <2>2
<1>11. \A q \in net' : MsgSafe(Y, B, H, q.msg)
  <2>1. \A q \in net : MsgSafe(Y, B, H, q.msg)
    BY <1>1, <1>8, SafeStays DEF SafeInv
  <2>2. \A q \in x.out : MsgSafe(Y, B, H, q.msg)
    BY <1>8 DEF StepSafe
  <2> QED BY <1>6, <2>1, <2>2 DEF Reaches
<1>12. ASSUME NEW i \in Replicas \ failed PROVE Kept(Y, B, H, i, rep'[i])
  <2>1. CASE i = r
    BY <1>8, <1>9, <2>1 DEF live
  <2>2. CASE i # r
    <3>1. Kept(Z, C, G, i, rep[i]) /\ StateSafe(Z, C, G, rep[i])
      BY <1>1 DEF SafeInv
    <3>2. rep[i].view \in Nat /\ rep[i].locked_qc.view \in Nat
      BY <3>1, SafeNats
    <3>3. \A v, n : <<v, i, n>> \in H => <<v, i, n>> \in G
      BY <1>8, <2>2
    <3>4. \A v, n : <<v, i, n>> \in B => <<v, i, n>> \in C
      BY <1>8, <2>2
    <3>5. Kept(Y, B, H, i, rep[i])
      BY <1>8, <3>1, <3>2, <3>3, <3>4, KeptGrows
    <3> QED BY <1>9, <2>2, <3>5
  <2> QED BY <2>1, <2>2
<1>13. SafeInv(P, Y, B, H)'
  BY <1>1, <1>6, <1>8, <1>10, <1>11, <1>12 DEF SafeInv
<1> QED BY <1>13 DEF StillSafe

\* Steps in which no vote is cast
LEMMA MovesSafe ==
  ASSUME NEW P, NEW Z, NEW C, NEW G, SafeInv(P, Z, C, G),
         \A i \in Replicas : \/ rep'[i] = rep[i]
                             \/ \E x : rep'[i] = x.state /\ StepSafe(Z, C, G, rep[i], x),
         \A p \in net' : MsgSafe(Z, C, G, p.msg), failed' = failed, cfg' = cfg
  PROVE  StillSafe(P)'
<1>1. ASSUME NEW i \in Replicas
      PROVE  /\ StateSafe(Z, C, G, rep'[i])
             /\ rep[i].view \in Nat /\ rep'[i].view \in Nat /\ rep[i].view <= rep'[i].view
             /\ rep[i].locked_qc.view \in Nat /\ rep'[i].locked_qc.view \in Nat
             /\ rep[i].locked_qc.view <= rep'[i].locked_qc.view
  <2>1. StateSafe(Z, C, G, rep[i])
    BY DEF SafeInv
  <2>2. rep[i].view \in Nat /\ rep[i].locked_qc.view \in Nat
    BY <2>1, SafeNats
  <2>3. CASE rep'[i] = rep[i]
    BY <2>1, <2>2, <2>3
  <2>4. ASSUME NEW x, rep'[i] = x.state, StepSafe(Z, C, G, rep[i], x)
        PROVE  /\ StateSafe(Z, C, G, rep'[i]) /\ rep'[i].view \in Nat
               /\ rep[i].view <= rep'[i].view /\ rep'[i].locked_qc.view \in Nat
               /\ rep[i].locked_qc.view <= rep'[i].locked_qc.view
    <3>1. StateSafe(Z, C, G, x.state) /\ rep[i].view <= x.state.view
          /\ rep[i].locked_qc.view <= x.state.locked_qc.view
      BY <2>4 DEF StepSafe
    <3> QED BY <2>4, <3>1, SafeNats
  <2> QED BY <2>2, <2>3, <2>4
<1>2. GhostOK(P, Z, C, G)
  BY DEF SafeInv
<1>3. ASSUME NEW i \in Replicas \ failed PROVE Kept(Z, C, G, i, rep'[i])
  <2>1. Kept(Z, C, G, i, rep[i])
    BY DEF SafeInv
  <2> QED BY <1>1, <1>2, <2>1, KeptGrows
<1>4. SafeInv(P, Z, C, G)'
  BY <1>1, <1>2, <1>3 DEF SafeInv
<1> QED BY <1>4 DEF StillSafe

LEMMA LoseSafe ==
  ASSUME NEW P, StillSafe(P), NEW p \in net, Lose(p)
  PROVE  StillSafe(P)'
<1>1. PICK Z, C, G : SafeInv(P, Z, C, G)
  BY DEF StillSafe
<1>2. rep' = rep /\ failed' = failed /\ cfg' = cfg /\ net' \subseteq net
  BY DEF Lose
<1>3. \A q \in net' : MsgSafe(Z, C, G, q.msg)
  BY <1>1, <1>2 DEF SafeInv
<1> QED BY <1>1, <1>2, <1>3, MovesSafe

LEMMA TimeoutSafe ==
  ASSUME NEW D, NEW P, NEW U, IInv(D, P, U), StillSafe(P), NEW r \in Replicas, OnTimeout(r)
  PROVE  StillSafe(P)'
<1>1. PICK Z, C, G : SafeInv(P, Z, C, G)
  BY DEF StillSafe
<1> DEFINE x == AdvanceFrom(r, rep[r], rep[r].view)
<1>2. /\ rep' = [rep EXCEPT ![r] = x.state] /\ net' = net \cup Reaches(x.out)
      /\ failed' = failed /\ cfg' = cfg /\ rep = [i \in Replicas |-> rep[i]]
  BY DEF OnTimeout, Take, IInv, ClusterInv
<1>3. StateSafe(Z, C, G, rep[r])
  BY <1>1 DEF SafeInv
<1>4. StepSafe(Z, C, G, rep[r], x)
  <2>1. rep[r].view \in Nat /\ rep[r].view <= rep[r].view
    BY <1>3, SafeNats
  <2> QED BY <1>3, <2>1, AdvanceSafe
<1> HIDE DEF x
<1>5. \A i \in Replicas : rep'[i] = IF i = r THEN x.state ELSE rep[i]
  BY <1>2
<1>6. \A q \in net' : MsgSafe(Z, C, G, q.msg)
  BY <1>1, <1>2, <1>4 DEF SafeInv, StepSafe, Reaches
<1>7. \A i \in Replicas : \/ rep'[i] = rep[i]
                          \/ \E y : rep'[i] = y.state /\ StepSafe(Z, C, G, rep[i], y)
  BY <1>4, <1>5
<1> QED BY <1>1, <1>2, <1>6, <1>7, MovesSafe

LEMMA SubmitSafe ==
  ASSUME NEW P, StillSafe(P), NEW cmd, Submit(cmd)
  PROVE  StillSafe(P)'
<1>1. PICK Z, C, G : SafeInv(P, Z, C, G)
  BY DEF StillSafe
<1> DEFINE t(r) == [rep[r] EXCEPT !.pending = Append(@, cmd)]
           x(r) == TryPropose(r, t(r), t(r).view)
<1>2. /\ \A k \in Replicas : rep'[k] = IF k \in down THEN rep[k] ELSE x(k).state
      /\ cfg' = cfg /\ failed' = failed
      /\ net' = net \cup UNION {Reaches(x(k).out) : k \in Replicas \ down}
  BY DEF Submit
<1>3. ASSUME NEW r \in Replicas PROVE StepSafe(Z, C, G, rep[r], x(r))
  <2> DEFINE s == rep[r]
             u == t(r)
             y == TryPropose(r, u, u.view)
  <2>1. StateSafe(Z, C, G, s)
    BY <1>1 DEF SafeInv
  <2> HIDE DEF s
  <2>2. IsState(s) /\ s.view \in Nat /\ s.locked_qc.view \in Nat /\ Genesis \in s.tree
    BY <2>1, SafeNats DEF StateSafe, LogSafe
  <2>3. u = [s EXCEPT !.pending = Append(@, cmd)]
    BY DEF s
  <2> HIDE DEF u
  <2>4. IsState(u) /\ \A f \in Fields \ {"pending"} : u[f] = s[f]
    BY <2>2, <2>3 DEF IsState, Fields
  <2>5. /\ u.tree = s.tree /\ u.view = s.view /\ u.locked_qc = s.locked_qc
        /\ \A f \in Watched : u[f] = s[f]
    BY <2>4 DEF Watched, Fields
  <2>6. StateSafe(Z, C, G, u)
    BY <2>1, <2>2, <2>4, <2>5, SameSafe
  <2>7. StepSafe(Z, C, G, s, Nothing(u))
    BY <2>2, <2>5, <2>6, NothingSafe
  <2>8. StepSafe(Z, C, G, u, y)
    BY <2>6, TryProposeSafe
  <2>9. StepSafe(Z, C, G, s, y)
    BY <2>1, <2>7, <2>8, ThenOnlySafe
  <2> QED BY <2>9 DEF s, u
<1> HIDE DEF x, t
<1>4. \A q \in net' : MsgSafe(Z, C, G, q.msg)
  <2>1. \A q \in net : MsgSafe(Z, C, G, q.msg)
    BY <1>1 DEF SafeInv
  <2>2. \A k \in Replicas : \A q \in x(k).out : MsgSafe(Z, C, G, q.msg)
    BY <1>3 DEF StepSafe
  <2> QED BY <1>2, <2>1, <2>2 DEF Reaches
<1>5. \A i \in Replicas : \/ rep'[i] = rep[i]
                          \/ \E y : rep'[i] = y.state /\ StepSafe(Z, C, G, rep[i], y)
  BY <1>2, <1>3
<1> QED BY <1>1, <1>2, <1>4, <1>5, MovesSafe

LEMMA CrashSafe ==
  ASSUME NEW P, StillSafe(P), NEW r \in Replicas, Crash(r)
  PROVE  StillSafe(P)'
<1>1. PICK Z, C, G : SafeInv(P, Z, C, G)
  BY DEF StillSafe
<1>2. /\ rep' = rep /\ net' = net /\ cfg' = cfg /\ failed' = failed \cup {r}
      /\ Cardinality(failed \cup cfg.byzantine \cup {r}) <= F
  BY DEF Crash
<1>3. failed' \cup cfg.byzantine = failed \cup cfg.byzantine \cup {r}
  BY <1>2
<1>4. Cardinality(failed' \cup cfg'.byzantine) <= F
  BY <1>2, <1>3
<1>5. SafeInv(P, Z, C, G)'
  BY <1>1, <1>2, <1>4 DEF SafeInv
<1> QED BY <1>5 DEF StillSafe

LEMMA RestartSafe ==
  ASSUME NEW D, NEW P, NEW U, IInv(D, P, U), StillSafe(P), NEW r \in Replicas, Restart(r)
  PROVE  StillSafe(P)'
<1>1. PICK Z, C, G : SafeInv(P, Z, C, G)
  BY DEF StillSafe
<1>2. /\ rep = [k \in Replicas |-> rep[k]] /\ r \in failed /\ failed' = failed /\ cfg' = cfg
      /\ rep' = [rep EXCEPT ![r] = Boot(r).state]
      /\ \A p \in net' : p \in net \/ p \in Boot(r).out
  BY DEF IInv, ClusterInv, Restart
<1>3. \A k \in Replicas : rep'[k] = IF k = r THEN Boot(r).state ELSE rep[k]
  BY <1>2
<1>4. <<0, Genesis>> \in Z
  BY <1>1 DEF SafeInv, GhostOK
<1>5. /\ StateSafe(Z, C, G, Boot(r).state)
      /\ \A p \in Boot(r).out : MsgSafe(Z, C, G, p.msg)
  BY <1>4, BootSafe
<1>6. \A k \in Replicas : StateSafe(Z, C, G, rep'[k])
  BY <1>1, <1>3, <1>5 DEF SafeInv
<1>7. \A k \in Replicas \ failed : Kept(Z, C, G, k, rep'[k])
  BY <1>1, <1>2, <1>3 DEF SafeInv
<1>8. SafeInv(P, Z, C, G)'
  BY <1>1, <1>2, <1>5, <1>6, <1>7 DEF SafeInv
<1> QED BY <1>8 DEF StillSafe

LEMMA NextSafe ==
  ASSUME NEW D, NEW P, NEW U, IInv(D, P, U), StillSafe(P), [Next]_vars, [CommitsOnTime]_vars
  PROVE  StillSafe(P)'
<1>1. CASE UNCHANGED vars
  <2>1. cfg' = cfg /\ rep' = rep /\ net' = net /\ failed' = failed
    BY <1>1 DEF vars
  <2> QED BY <2>1 DEF StillSafe, SafeInv
<1>2. ASSUME NEW p \in net, Deliver(p), CommitsOnTime PROVE StillSafe(P)'
  <2>1. CASE Punctual(p)
    BY <1>2, <2>1, DeliverSafe
  <2>2. CASE ~ Punctual(p)
    <3>1. Lose(p)
      BY <1>2, <2>2 DEF CommitsOnTime
    <3> QED BY <3>1, LoseSafe
  <2> QED BY <2>1, <2>2
<1>3. ASSUME NEW p \in net, Lose(p) PROVE StillSafe(P)'
  BY <1>3, LoseSafe
<1>4. ASSUME NEW cmd \in Commands, Submit(cmd) PROVE StillSafe(P)'
  BY <1>4, SubmitSafe
<1>5. ASSUME NEW r \in Replicas, OnTimeout(r) PROVE StillSafe(P)'
  BY <1>5, TimeoutSafe
<1>6. ASSUME NEW r \in Replicas, Crash(r) PROVE StillSafe(P)'
  BY <1>6, CrashSafe
<1>7. ASSUME NEW r \in Replicas, Restart(r) PROVE StillSafe(P)'
  BY <1>7, RestartSafe
<1> QED BY <1>1, <1>2, <1>3, <1>4, <1>5, <1>6, <1>7 DEF Next

LEMMA MoreAsked ==
  ASSUME NEW P, NEW Q, P \subseteq Q, NEW Z, NEW C, NEW G, GhostOK(P, Z, C, G)
  PROVE  GhostOK(Q, Z, C, G)
BY DEF GhostOK

LEMMA InitSafety == Init => SafetyInv
<1> SUFFICES ASSUME Init PROVE SafetyInv
  OBVIOUS
<1>1. PICK D, P, U : IInv(D, P, U)
  BY InitInv DEF Inv
<1>2. PICK Z, C : Z = {<<0, Genesis>>} /\ C = {}
  OBVIOUS
<1>3. GhostOK(P, Z, C, C)
  <2>1. \A v, n : <<v, n>> \in Z => v = 0 /\ n = Genesis
    BY <1>2
  <2>2. \A v, i, n : <<v, i, n>> \notin C
    BY <1>2
  <2>3. <<0, Genesis>> \in Z
    BY <1>2
  <2>4. 0 \in Nat /\ \A v, n : <<v, n>> \in Z => v <= 0
    BY <2>1
  <2> QED BY <2>1, <2>2, <2>3, <2>4 DEF GhostOK
<1>4. \A r \in Replicas : rep[r] = Boot(r).state
  BY DEF Init
<1>5. \A p \in net : \E r \in Replicas : p \in Boot(r).out
  BY DEF Init
<1>6. \A r : /\ StateSafe(Z, C, C, Boot(r).state)
             /\ \A p \in Boot(r).out : MsgSafe(Z, C, C, p.msg)
  <2>1. <<0, Genesis>> \in Z
    BY <1>2
  <2> QED BY <2>1, BootSafe
<1>7. \A r : Kept(Z, C, C, r, rep[r])
  BY <1>2 DEF Kept
<1>8. Cardinality(failed \cup cfg.byzantine) <= F
  <2>1. failed = {} /\ cfg \in Configs
    BY DEF Init
  <2>2. failed \cup cfg.byzantine = cfg.byzantine /\ Cardinality(cfg.byzantine) <= F
    BY <2>1, HotStuffAssumption DEF ValidConfig
  <2> QED BY <2>2
<1>9. SafeInv(P, Z, C, C)
  BY <1>3, <1>4, <1>5, <1>6, <1>7, <1>8 DEF SafeInv
<1> QED BY <1>1, <1>9 DEF SafetyInv, StillSafe

LEMMA NextSafety == SafetyInv /\ [Next]_vars /\ [CommitsOnTime]_vars => SafetyInv'
<1> SUFFICES ASSUME SafetyInv, [Next]_vars, [CommitsOnTime]_vars PROVE SafetyInv'
  OBVIOUS
<1>1. PICK D, P, U : IInv(D, P, U) /\ StillSafe(P)
  BY DEF SafetyInv
<1>2. Later(P)' /\ StillSafe(P)'
  BY <1>1, NextKeeps, NextSafe
<1>3. PICK E, Q, V : P \subseteq Q /\ IInv(E, Q, V)'
  BY <1>2 DEF Later
<1>4. PICK Z, C, G : SafeInv(P, Z, C, G)'
  BY <1>2 DEF StillSafe
<1>5. GhostOK(Q, Z, C, G)
  BY <1>3, <1>4, MoreAsked DEF SafeInv
<1>6. SafeInv(Q, Z, C, G)'
  BY <1>4, <1>5 DEF SafeInv
<1>7. StillSafe(Q)'
  BY <1>6 DEF StillSafe
<1> QED BY <1>3, <1>7 DEF SafetyInv

\* What a replica's log says, on the branch of one node
LEMMA LogOf ==
  ASSUME NEW Z, NEW C, NEW G, NEW s, StateSafe(Z, C, G, s)
  PROVE  \E n : /\ IsNode(n) /\ s.committed = Path(n)
                /\ s.committed # <<>> => Last(s.committed) = n
                /\ n = Genesis \/ \E v : Certified(C, v, n)
                /\ n = Genesis => s.committed = <<>>
<1>1. PICK n : /\ IsNode(n) /\ s.committed = Path(n)
               /\ n = Genesis \/ \E v : Certified(C, v, n)
  BY DEF StateSafe, LogSafe
<1>2. Len(n) = 0 => Path(n) = <<>>
  <2>1. Len(n) = 0 => 1 .. Len(n) = {}
    OBVIOUS
  <2> QED BY <2>1 DEF Path
<1>3. s.committed # <<>> => Last(s.committed) = n
  <2> SUFFICES ASSUME s.committed # <<>> PROVE Last(s.committed) = n
    OBVIOUS
  <2>1. Len(Path(n)) = Len(n) /\ Len(n) \in Nat /\ \A k \in 1 .. Len(n) : Path(n)[k] = Ancestor(n, k)
    BY <1>1, PathIs
  <2>2. Len(n) \in 1 .. Len(n)
    BY <1>1, <1>2, <2>1
  <2>3. Path(n)[Len(n)] = n
    BY <1>1, <2>1, <2>2, WholeNode
  <2> QED BY <1>1, <2>1, <2>3 DEF Last
<1>4. n = Genesis => s.committed = <<>>
  BY <1>1, <1>2, GenesisIsNode
<1> QED BY <1>1, <1>3, <1>4

LEMMA PathPrefix ==
  ASSUME NEW a, NEW b, IsNode(a), IsNode(b), IsPrefix(a, b)
  PROVE  IsPrefix(Path(a), Path(b))
<1>1. /\ IsNode(Path(a)) /\ Len(Path(a)) = Len(a) /\ Len(a) \in Nat
      /\ IsNode(Path(b)) /\ Len(Path(b)) = Len(b) /\ Len(b) \in Nat
      /\ \A k \in 1 .. Len(a) : Path(a)[k] = Ancestor(a, k)
      /\ \A k \in 1 .. Len(b) : Path(b)[k] = Ancestor(b, k)
  BY PathIs
<1>2. Len(a) <= Len(b)
  BY PrefixIs
<1>3. ASSUME NEW k \in 1 .. Len(a) PROVE Path(a)[k] = Path(b)[k]
  <2>1. k \in 0 .. Len(a) /\ k \in 1 .. Len(b)
    BY <1>1, <1>2
  <2>2. Ancestor(a, k) = Ancestor(b, k)
    BY <2>1, SameAncestor
  <2> QED BY <1>1, <2>1, <2>2
<1> DEFINE x == Path(a)
           y == Path(b)
<1>4. IsNode(x) /\ IsNode(y) /\ Len(x) <= Len(y) /\ \A k \in 1 .. Len(x) : x[k] = y[k]
  BY <1>1, <1>2, <1>3
<1> HIDE DEF x, y
<1>5. IsPrefix(x, y)
  BY <1>4, PrefixIs
<1> QED BY <1>5 DEF x, y
-----------------------------------------------------------------------------
(* Theorems *)

\* The inductive invariant: there is a history of proposals, one for a view,
\* and every vote and every QC, held or under way, is one for what its
\* signers were proposed (all handlers of replica.py, the crash and the restart
\* of demos/harness.py).
THEOREM HistoryHolds == Spec => []Inv
BY InitInv, NextInv, PTL DEF Spec

\* All QCs that any replica ever forms for a phase of a view name one node, for
\* every N >= 3F + 1 and any number of views, timeouts, slow, lost and late
\* messages, with up to F replicas that equivocate, censor, or crash and
\* come back without their state.
THEOREM OneNodePerView == Spec => []OneQCPerView
<1>1. Inv => OneQCPerView
  <2> SUFFICES ASSUME Inv, NEW a \in Replicas, NEW b \in Replicas, NEW p \in rep[a].qcs,
                      NEW q \in rep[b].qcs, p.type = q.type, p.view = q.view
               PROVE  p = q
    BY DEF OneQCPerView
  <2>1. PICK D, P, U : IInv(D, P, U)
    BY DEF Inv
  <2>2. /\ p = [type |-> p.type, view |-> p.view, node |-> p.node]
        /\ q = [type |-> q.type, view |-> q.view, node |-> q.node]
        /\ Certified(P, p.view, p.node) /\ Certified(P, q.view, q.node)
    BY <2>1 DEF IInv, LocalInv, VotesInv
  <2>3. p.node = q.node
    <3>1. \A v, i, m, n : <<v, i, m>> \in P /\ <<v, i, n>> \in P => m = n
      BY <2>1 DEF IInv, History
    <3> QED BY <2>2, <3>1, CertifiedOnce
  <2> QED BY <2>2, <2>3
<1> QED BY <1>1, HistoryHolds, PTL

\* The inductive invariant of the views together: there is a history of the
\* PREPARE votes, the certified nodes and the COMMIT votes, every QC and every
\* lock is of a certified node, and every vote of a replica that never crashed
\* extends a certified node at least as recent as all it voted to commit
\* before (all handlers of replica.py; a COMMIT of a view that its receiver
\* has left is without effect).
THEOREM SafetyHolds == Spec /\ [][CommitsOnTime]_vars => []SafetyInv
BY InitSafety, NextSafety, PTL DEF Spec

\* No two correct replicas ever commit conflicting branches, whatever is lost,
\* late or timed out, whichever leaders equivocate or replicas come back empty,
\* as long as on_commit does not act on a COMMIT of a view that was left:
\* no other handler needs the check ("Theorem 2" of demos/harness.py).
THEOREM NoForks == Spec /\ [][CommitsOnTime]_vars => []Agreement
<1>1. SafetyInv => Agreement
  <2> SUFFICES ASSUME SafetyInv, NEW a \in Replicas, NEW b \in Replicas
               PROVE  \/ IsPrefix(rep[a].committed, rep[b].committed)
                      \/ IsPrefix(rep[b].committed, rep[a].committed)
    BY DEF Agreement, Correct
  <2>1. PICK D, P, U : IInv(D, P, U) /\ StillSafe(P)
    BY DEF SafetyInv
  <2>2. PICK Z, C, G : SafeInv(P, Z, C, G)
    BY <2>1 DEF StillSafe
  <2>3. StateSafe(Z, C, G, rep[a]) /\ StateSafe(Z, C, G, rep[b])
    BY <2>2 DEF SafeInv
  <2>4. PICK m : /\ IsNode(m) /\ rep[a].committed = Path(m)
                 /\ m = Genesis \/ \E v : Certified(C, v, m)
    BY <2>3, LogOf
  <2>5. PICK n : /\ IsNode(n) /\ rep[b].committed = Path(n)
                 /\ n = Genesis \/ \E v : Certified(C, v, n)
    BY <2>3, LogOf
  <2>6. OneBranch(C)
    BY <2>1, <2>2, InvBranch
  <2>7. IsPrefix(m, n) \/ IsPrefix(n, m)
    BY <2>4, <2>5, <2>6, GenesisFirst DEF OneBranch
  <2> QED BY <2>4, <2>5, <2>7, PathPrefix
<1> QED BY <1>1, SafetyHolds, PTL

\* The log of a replica is one branch without holes from genesis on, for any
\* order in which proposals, decisions and branches reach it (on_decide,
\* _first_missing_ancestor, execute and on_sync_resp).
THEOREM LogsAreBranches == Spec /\ [][CommitsOnTime]_vars => []LogIsBranch
<1>1. SafetyInv => LogIsBranch
  <2> SUFFICES ASSUME SafetyInv, NEW r \in Replicas, NEW k \in DOMAIN rep[r].committed
               PROVE  rep[r].committed[k] = Ancestor(Last(rep[r].committed), k)
    BY DEF LogIsBranch, Correct
  <2>1. PICK D, P, U : IInv(D, P, U) /\ StillSafe(P)
    BY DEF SafetyInv
  <2>2. PICK Z, C, G : SafeInv(P, Z, C, G)
    BY <2>1 DEF StillSafe
  <2>3. StateSafe(Z, C, G, rep[r])
    BY <2>2 DEF SafeInv
  <2>4. PICK n : /\ IsNode(n) /\ rep[r].committed = Path(n)
                 /\ rep[r].committed # <<>> => Last(rep[r].committed) = n
    BY <2>3, LogOf
  <2>5. k \in 1 .. Len(n)
    BY <2>4 DEF Path
  <2>6. rep[r].committed # <<>>
    <3>1. DOMAIN <<>> = {}
      OBVIOUS
    <3> QED BY <3>1
  <2>7. Path(n)[k] = Ancestor(n, k)
    BY <2>4, <2>5, PathIs
  <2> QED BY <2>4, <2>6, <2>7
<1> QED BY <1>1, SafetyHolds, PTL

\* Whatever a correct replica has committed, N - 2F correct replicas that never
\* crashed hold a lock on that branch: their locks move to later views only
\* and stay on it (on_commit, safe_node).
THEOREM CommittedIsLocked == Spec /\ [][CommitsOnTime]_vars => []CommitIsLocked
<1>1. SafetyInv => CommitIsLocked
  <2> DEFINE holders(n) == {k \in Correct \ failed : IsPrefix(n, rep[k].locked_qc.node)}
  <2> SUFFICES ASSUME SafetyInv, NEW r \in Replicas, rep[r].committed # <<>>
               PROVE  Cardinality(holders(Last(rep[r].committed))) >= N - 2 * F
    BY DEF CommitIsLocked, Correct
  <2>1. PICK D, P, U : IInv(D, P, U) /\ StillSafe(P)
    BY DEF SafetyInv
  <2>2. PICK Z, C, G : SafeInv(P, Z, C, G)
    BY <2>1 DEF StillSafe
  <2>3. StateSafe(Z, C, G, rep[r])
    BY <2>2 DEF SafeInv
  <2>4. PICK n : Last(rep[r].committed) = n /\ \E v : Certified(C, v, n)
    BY <2>3, LogOf
  <2>5. PICK v : Certified(C, v, n)
    BY <2>4
  <2>6. PICK q \in SUBSET Replicas : Cardinality(q) >= Quorum /\ \A i \in q : <<v, i, n>> \in C
    BY <2>5 DEF Certified
  <2>7. /\ OneAsked(P) /\ GhostOK(P, Z, C, G) /\ failed \in SUBSET Replicas /\ Cardinality(failed) <= F
        /\ \A i \in Replicas \ failed : Kept(Z, C, G, i, rep[i])
    BY <2>1, <2>2, InvBranch DEF SafeInv
  <2>8. \A w, k : <<w, k>> \in Z /\ v <= w => IsPrefix(n, k)
    BY <2>5, <2>7, ChosenStays
  <2> DEFINE bad == failed \cup cfg.byzantine
             H == holders(n)
  <2>9. ASSUME NEW i \in q \ bad PROVE i \in H
    <3>1. v <= rep[i].locked_qc.view
      BY <2>6, <2>7 DEF Kept
    <3>2. <<rep[i].locked_qc.view, rep[i].locked_qc.node>> \in Z
      BY <2>2 DEF SafeInv, StateSafe, CertsSafe, QCSafe
    <3>3. IsPrefix(n, rep[i].locked_qc.node)
      BY <2>8, <3>1, <3>2
    <3> QED BY <3>3 DEF Correct
  <2>10. H \in SUBSET Replicas /\ q \ bad \subseteq H /\ Cardinality(bad) <= F
    BY <2>2, <2>9 DEF Correct, SafeInv
  <2>11. bad \in SUBSET Replicas
    <3>1. cfg \in Configs
      BY <2>1 DEF IInv, ClusterInv
    <3> QED BY <2>7, <3>1, HotStuffAssumption DEF ValidConfig
  <2> HIDE DEF H, bad
  <2>12. Cardinality(q \ bad) = Cardinality(q) - Cardinality(q \cap bad)
    BY SubsetsCount, FS_Difference
  <2>13. Cardinality(q \cap bad) <= Cardinality(bad) /\ Cardinality(q \ bad) <= Cardinality(H)
    BY <2>10, <2>11, SubsetsCount, FS_Subset
  <2>14. /\ Cardinality(q) \in Nat /\ Cardinality(bad) \in Nat /\ Cardinality(H) \in Nat
         /\ Cardinality(q \cap bad) \in Nat /\ Cardinality(q \ bad) \in Nat
    BY <2>10, <2>11, SubsetsCount
  <2>15. Cardinality(H) >= N - 2 * F
    BY <2>6, <2>10, <2>12, <2>13, <2>14, Replicated
  <2> QED BY <2>4, <2>15 DEF H
<1> QED BY <1>1, SafetyHolds, PTL
=============================================================================
