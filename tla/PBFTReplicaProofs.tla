------------------------- MODULE PBFTReplicaProofs -------------------------
(***************************************************************************)
(* Theorems about PBFTReplica for every F, every assignment of the         *)
(* modelled behaviours to the replicas, every order of deliveries and any  *)
(* number of requests and views.                                           *)
(*                                                                         *)
(* The state of a replica is a record s that its callbacks rewrite step by *)
(* step, so the invariant is stated for such a record: ReplicaInv(r, s)    *)
(* says that s is a good state for replica r while the other replicas are  *)
(* as in rep.                                                              *)
(***************************************************************************)
EXTENDS PBFTReplica, FiniteSetTheorems, TLAPS

Fields ==
  {"current_view", "current_key", "next_sequence_number", "cached", "processed",
   "instances", "prepare_senders", "pending_prepares", "prepare_sent",
   "prepare_scheduled", "prepared", "commit_senders", "pending_commits",
   "commit_sent", "commit_scheduled", "committed", "view_changes",
   "view_change_sent", "new_view_sent", "recovery_sent", "recovery_timers",
   "accepted_new_views", "timeout_view", "manual", "out"}

IsState(s) == s = [f \in Fields |-> s[f]]

\* The state of replica b while r is in state s
StateOf(r, s, b) == IF b = r THEN s ELSE rep[b]

\* The replica in state x has sent PREPARE for q, is PREPARED for q
DidPrepare(x, k, q) == k \in x.prepare_sent /\ k \in DOMAIN x.instances /\ x.instances[k] = q
DidCommit(x, k, q) == k \in x.prepared /\ k \in DOMAIN x.instances /\ x.instances[k] = q

\* A vote that names the correct replica b is a vote of b.
PrepareOK(r, s, b, k, q) == b \in Correct => DidPrepare(StateOf(r, s, b), k, q)
CommitOK(r, s, b, k, q) == b \in Correct => DidCommit(StateOf(r, s, b), k, q)

\* The certificates of a VIEW-CHANGE: what they name, the correct did send.
CertOK(r, s, m) ==
  /\ m.new_view \in Nat
  /\ \A c, d \in m.cert : c = d
  /\ \A c \in m.cert : /\ c.view \in Nat /\ c.seq \in Nat
                       /\ \A b \in c.senders :
                            PrepareOK(r, s, b, <<c.view, c.seq>>, c.req)

MessageOK(r, s, m) ==
  /\ m.type \in {"REQUEST", "PRE-PREPARE", "PREPARE", "COMMIT", "VIEW-CHANGE", "NEW-VIEW"}
  /\ m.type = "REQUEST" => m.view = 0
  /\ m.type \in {"PRE-PREPARE", "PREPARE", "COMMIT"} => m.view \in Nat /\ m.seq \in Nat
  /\ m.type = "PREPARE" => PrepareOK(r, s, m.from, Key(m), m.req)
  /\ m.type = "COMMIT" => CommitOK(r, s, m.from, Key(m), m.req)
  /\ m.type = "VIEW-CHANGE" => CertOK(r, s, m)
  /\ m.type = "NEW-VIEW" => m.new_view \in Nat \ {0} /\ \A c \in m.choice : c.seq \in Nat

\* A vote that r publishes is its own and not of an older view.
Current(r, s, m) ==
  (m.type \in {"PREPARE", "COMMIT"} /\ m.from \in Replicas)
    => m.from = r /\ m.view \in Nat /\ m.view >= s.current_view

\* What a replica votes, has scheduled and executes is an instance it knows.
KeysInv(s) ==
  /\ IsState(s)
  /\ s.current_view \in Nat /\ s.next_sequence_number \in Nat
  /\ DOMAIN s.instances \subseteq Nat \X Nat
  /\ s.prepare_sent \subseteq DOMAIN s.instances
  /\ s.prepared \subseteq DOMAIN s.instances
  /\ s.recovery_timers \subseteq DOMAIN s.instances
  /\ s.prepare_scheduled \subseteq {k \in DOMAIN s.instances : k[1] >= s.current_view}
  /\ s.commit_scheduled \subseteq {k \in DOMAIN s.instances : k[1] >= s.current_view}
  /\ s.committed \subseteq s.prepared

\* The votes a replica has counted or keeps for later are votes of their senders.
SendersInv(r, s) ==
  /\ \A p \in s.prepare_senders :
       /\ p[1] \in DOMAIN s.instances
       /\ PrepareOK(r, s, p[2], p[1], s.instances[p[1]])
  /\ \A p \in s.commit_senders :
       /\ p[1] \in DOMAIN s.instances /\ p[2] \in Replicas
       /\ CommitOK(r, s, p[2], p[1], s.instances[p[1]])
  /\ \A m \in s.pending_prepares : PrepareOK(r, s, m.from, Key(m), m.req)
  /\ \A m \in s.pending_commits :
       m.from \in Replicas /\ CommitOK(r, s, m.from, Key(m), m.req)

CommittedInv(s) ==
  \A k \in s.committed :
    \E quorum \in SUBSET SendersOf(s.commit_senders, k) : Cardinality(quorum) >= CommitThreshold

ViewsInv(r, s) ==
  /\ IsFiniteSet(s.cached) /\ IsFiniteSet(s.view_changes)
  /\ \A m \in s.view_changes :
       /\ CertOK(r, s, m)
       /\ \A c \in m.cert : Cardinality(c.senders) >= PrepareThreshold

OutInv(r, s) == \A o \in s.out : MessageOK(r, s, o[2]) /\ Current(r, s, o[2])

ReplicaInv(r, s) ==
  KeysInv(s) /\ SendersInv(r, s) /\ CommittedInv(s) /\ ViewsInv(r, s) /\ OutInv(r, s)

\* A replica, a PRE-PREPARE or a NEW-VIEW says that q has the key k.
Claimed(k, q) ==
  \/ \E r \in Replicas : k \in DOMAIN rep[r].instances /\ rep[r].instances[k] = q
  \/ \E r \in Replicas : \E m \in inbox[r] :
       m.type = "PRE-PREPARE" /\ k = Key(m) /\ q = m.req
  \/ \E r \in Replicas : \E m \in inbox[r] :
       m.type = "NEW-VIEW" /\ \E c \in m.choice : k = <<m.new_view, c.seq>> /\ q = c.req

\* In view 0 the primary numbers the requests, each later view has the one
\* request of its NEW-VIEW, and nobody says otherwise.
ClaimInv ==
  \A k, q : Claimed(k, q) =>
    /\ k \in Nat \X Nat
    /\ k[1] = 0 => /\ k \in DOMAIN rep[0].instances /\ rep[0].instances[k] = q
                   /\ k[2] < rep[0].next_sequence_number
    /\ k[1] > 0 => /\ k[1] \in rep[PrimaryForView(k[1])].new_view_sent
                   /\ \A j, p : Claimed(j, p) /\ j[1] = k[1] => j = k /\ p = q

IInv ==
  /\ param \in [Replicas -> Parameters]
  /\ rep = [r \in Replicas |-> rep[r]]
  /\ inbox = [r \in Replicas |-> inbox[r]]
  /\ \A r \in Replicas :
       /\ ReplicaInv(r, rep[r]) /\ rep[r].out = {}
       /\ \A m \in inbox[r] : MessageOK(r, rep[r], m)
  /\ ClaimInv
-----------------------------------------------------------------------------
(* The vote layer *)

\* From s to t only votes, timers and publications have changed.
VoteStep(s, t) ==
  /\ IsState(t)
  /\ t.current_view = s.current_view /\ t.next_sequence_number = s.next_sequence_number
  /\ t.cached = s.cached /\ t.processed = s.processed /\ t.instances = s.instances
  /\ t.view_changes = s.view_changes /\ t.new_view_sent = s.new_view_sent
  /\ t.recovery_timers = s.recovery_timers
  /\ s.prepare_sent \subseteq t.prepare_sent
  /\ s.prepared \subseteq t.prepared
  /\ s.commit_senders \subseteq t.commit_senders
  /\ \A o \in t.out : o \in s.out \/ o[2].type \in {"PREPARE", "COMMIT"}

LEMMA VoteStepTrans ==
  ASSUME NEW s, NEW t, NEW u, VoteStep(s, t), VoteStep(t, u) PROVE VoteStep(s, u)
BY DEF VoteStep

LEMMA EvidenceStays ==
  ASSUME NEW r, NEW s, NEW t, VoteStep(s, t)
  PROVE  /\ \A b, k, q : PrepareOK(r, s, b, k, q) => PrepareOK(r, t, b, k, q)
         /\ \A b, k, q : CommitOK(r, s, b, k, q) => CommitOK(r, t, b, k, q)
BY DEF VoteStep, PrepareOK, CommitOK, DidPrepare, DidCommit, StateOf

LEMMA MessagesStay ==
  ASSUME NEW r, NEW s, NEW t, VoteStep(s, t), NEW m
  PROVE  /\ MessageOK(r, s, m) => MessageOK(r, t, m)
         /\ CertOK(r, s, m) => CertOK(r, t, m)
         /\ Current(r, s, m) => Current(r, t, m)
<1>1. CertOK(r, s, m) => CertOK(r, t, m)
  BY EvidenceStays DEF CertOK
<1>2. MessageOK(r, s, m) => MessageOK(r, t, m)
  BY <1>1, EvidenceStays DEF MessageOK
<1>3. Current(r, s, m) => Current(r, t, m)
  BY DEF Current, VoteStep
<1> QED BY <1>1, <1>2, <1>3

\* A vote step keeps the invariant if what it adds is good.
LEMMA Carry ==
  ASSUME NEW r, NEW s, NEW t, ReplicaInv(r, s), VoteStep(s, t),
         t.prepare_sent \subseteq DOMAIN t.instances,
         t.prepared \subseteq DOMAIN t.instances,
         \A k \in t.prepare_scheduled : \/ k \in s.prepare_scheduled
                                        \/ k \in DOMAIN t.instances /\ k[1] >= t.current_view,
         \A k \in t.commit_scheduled : \/ k \in s.commit_scheduled
                                       \/ k \in DOMAIN t.instances /\ k[1] >= t.current_view,
         \A p \in t.prepare_senders : \/ p \in s.prepare_senders
                                      \/ /\ p[1] \in DOMAIN t.instances
                                         /\ PrepareOK(r, t, p[2], p[1], t.instances[p[1]]),
         \A p \in t.commit_senders : \/ p \in s.commit_senders
                                     \/ /\ p[1] \in DOMAIN t.instances /\ p[2] \in Replicas
                                        /\ CommitOK(r, t, p[2], p[1], t.instances[p[1]]),
         \A m \in t.pending_prepares : \/ m \in s.pending_prepares
                                       \/ PrepareOK(r, t, m.from, Key(m), m.req),
         \A m \in t.pending_commits :
            \/ m \in s.pending_commits
            \/ m.from \in Replicas /\ CommitOK(r, t, m.from, Key(m), m.req),
         \A k \in t.committed :
            \/ k \in s.committed
            \/ /\ k \in t.prepared
               /\ Cardinality(SendersOf(t.commit_senders, k)) >= CommitThreshold,
         \A o \in t.out : o \in s.out \/ (MessageOK(r, t, o[2]) /\ Current(r, t, o[2]))
  PROVE  ReplicaInv(r, t)
<1> USE DEF ReplicaInv
<1>1. KeysInv(t)
  BY DEF KeysInv, VoteStep
<1>2. SendersInv(r, t)
  BY EvidenceStays DEF SendersInv, VoteStep
<1>3. CommittedInv(t)
  <2> SUFFICES ASSUME NEW k \in t.committed
               PROVE  \E quorum \in SUBSET SendersOf(t.commit_senders, k) :
                        Cardinality(quorum) >= CommitThreshold
    BY DEF CommittedInv
  <2>1. SendersOf(s.commit_senders, k) \subseteq SendersOf(t.commit_senders, k)
    BY DEF VoteStep, SendersOf
  <2>2. CASE k \in s.committed
    BY <2>1, <2>2 DEF CommittedInv
  <2>3. CASE Cardinality(SendersOf(t.commit_senders, k)) >= CommitThreshold
    BY <2>3
  <2> QED BY <2>2, <2>3
<1>4. ViewsInv(r, t)
  <2>1. /\ t.cached = s.cached /\ t.view_changes = s.view_changes
    BY DEF VoteStep
  <2> QED BY <2>1, MessagesStay DEF ViewsInv
<1>5. OutInv(r, t)
  BY MessagesStay DEF OutInv
<1> QED BY <1>1, <1>2, <1>3, <1>4, <1>5

\* What every operation of the vote layer shows of its result
Voted(r, s, t) == ReplicaInv(r, t) /\ VoteStep(s, t)

LEMMA VotedTrans ==
  ASSUME NEW r, NEW s, NEW t, NEW u, Voted(r, s, t), Voted(r, t, u) PROVE Voted(r, s, u)
BY VoteStepTrans DEF Voted

LEMMA VotedSame == ASSUME NEW r, NEW s, ReplicaInv(r, s) PROVE Voted(r, s, s)
BY DEF Voted, VoteStep, ReplicaInv, KeysInv

\* Fields that the invariant does not speak of
LEMMA TimersVoted ==
  ASSUME NEW r, NEW s, ReplicaInv(r, s), NEW x
  PROVE  /\ Voted(r, s, [s EXCEPT !.timeout_view = x])
         /\ Voted(r, s, [s EXCEPT !.current_key = x])
         /\ Voted(r, s, [s EXCEPT !.commit_sent = x])
<1>1. ASSUME NEW t, IsState(t),
             \A f \in Fields \ {"timeout_view", "current_key", "commit_sent"} : t[f] = s[f]
      PROVE  Voted(r, s, t)
  <2>1. /\ t.current_view = s.current_view /\ t.next_sequence_number = s.next_sequence_number
        /\ t.cached = s.cached /\ t.processed = s.processed /\ t.instances = s.instances
        /\ t.view_changes = s.view_changes /\ t.new_view_sent = s.new_view_sent
        /\ t.recovery_timers = s.recovery_timers
        /\ t.prepare_sent = s.prepare_sent /\ t.prepared = s.prepared
        /\ t.prepare_scheduled = s.prepare_scheduled
        /\ t.commit_scheduled = s.commit_scheduled
        /\ t.prepare_senders = s.prepare_senders /\ t.commit_senders = s.commit_senders
        /\ t.pending_prepares = s.pending_prepares /\ t.pending_commits = s.pending_commits
        /\ t.committed = s.committed /\ t.out = s.out
    BY <1>1 DEF Fields
  <2>2. VoteStep(s, t)
    BY <1>1, <2>1 DEF VoteStep
  <2>3. ReplicaInv(r, t)
    BY <2>1, <2>2, Carry DEF ReplicaInv, KeysInv
  <2> QED BY <2>2, <2>3 DEF Voted
<1>2. IsState(s)
  BY DEF ReplicaInv, KeysInv
<1>3. \A f \in {"timeout_view", "current_key", "commit_sent"} :
        /\ IsState([s EXCEPT ![f] = x])
        /\ \A g \in Fields \ {f} : [s EXCEPT ![f] = x][g] = s[g]
  BY <1>2 DEF IsState, Fields
<1> QED BY <1>1, <1>3

LEMMA ArmVoted == ASSUME NEW r, NEW s, ReplicaInv(r, s) PROVE Voted(r, s, Arm(s, r))
BY TimersVoted, VotedSame DEF Arm

LEMMA BufferEarlyCommitsVoted ==
  ASSUME NEW r, NEW s, ReplicaInv(r, s), NEW k, NEW ms,
         \A m \in ms : m.from \in Replicas /\ CommitOK(r, s, m.from, Key(m), m.req)
  PROVE  Voted(r, s, BufferEarlyCommits(s, k, ms))
<1> DEFINE new == {m \in ms : \A p \in Pending(s.pending_commits, k) : p.from # m.from}
           key == IF new # {} /\ k \in DOMAIN s.instances THEN k ELSE s.current_key
           t == [s EXCEPT !.pending_commits = s.pending_commits \cup new]
           u == [t EXCEPT !.current_key = key]
<1>0. IsState(s)
  BY DEF ReplicaInv, KeysInv
<1>1. /\ IsState(t)
      /\ t.pending_commits = s.pending_commits \cup new
      /\ \A f \in Fields \ {"pending_commits"} : t[f] = s[f]
  BY <1>0 DEF IsState, Fields
<1>2. new \subseteq ms
  OBVIOUS
<1> HIDE DEF new, t
<1>3. VoteStep(s, t)
  BY <1>1 DEF VoteStep, Fields
<1>4. \A m \in new : CommitOK(r, t, m.from, Key(m), m.req) /\ m.from \in Replicas
  BY <1>2, <1>3, EvidenceStays
<1>5. ReplicaInv(r, t)
  <2>1. /\ t.prepare_sent = s.prepare_sent /\ t.prepared = s.prepared
        /\ t.prepare_scheduled = s.prepare_scheduled
        /\ t.commit_scheduled = s.commit_scheduled
        /\ t.prepare_senders = s.prepare_senders /\ t.commit_senders = s.commit_senders
        /\ t.pending_prepares = s.pending_prepares /\ t.instances = s.instances
        /\ t.committed = s.committed /\ t.out = s.out
    BY <1>1 DEF Fields
  <2> QED BY <1>1, <1>3, <1>4, <2>1, Carry DEF ReplicaInv, KeysInv
<1>6. Voted(r, t, u)
  BY <1>5, TimersVoted
<1>7. BufferEarlyCommits(s, k, ms) = u
  BY DEF BufferEarlyCommits, new, t
<1> QED BY <1>3, <1>5, <1>6, <1>7, VotedTrans DEF Voted

\* From s to t only the fields in D have changed.
OnlyIn(D, s, t) == IsState(t) /\ \A f \in Fields \ D : t[f] = s[f]

LEMMA SetField ==
  ASSUME NEW s, IsState(s), NEW f \in Fields, NEW x
  PROVE  OnlyIn({f}, s, [s EXCEPT ![f] = x]) /\ [s EXCEPT ![f] = x][f] = x
BY DEF IsState, OnlyIn

LEMMA EvaluateCommittedVoted ==
  ASSUME NEW r, NEW s, ReplicaInv(r, s), NEW k
  PROVE  Voted(r, s, EvaluateCommitted(s, k))
<1> DEFINE go == /\ k \notin s.committed
                 /\ k \in s.prepared
                 /\ Cardinality(SendersOf(s.commit_senders, k)) >= CommitThreshold
           t == CancelTimeout(s)
           x == t.committed \cup {k}
           u == [t EXCEPT !.committed = x]
           v == [u EXCEPT !.current_key = k]
<1>1. CASE ~ go
  BY <1>1, VotedSame DEF EvaluateCommitted
<1>2. CASE go
  <2>1. Voted(r, s, t)
    BY TimersVoted DEF CancelTimeout
  <2>2. IsState(t) /\ t.commit_senders = s.commit_senders /\ t.prepared = s.prepared
    <3>1. IsState(s)
      BY DEF ReplicaInv, KeysInv
    <3> QED BY <3>1, SetField DEF CancelTimeout, OnlyIn, Fields
  <2>3. OnlyIn({"committed"}, t, u) /\ u.committed = x
    BY <2>2, SetField DEF Fields
  <2>4. EvaluateCommitted(s, k) = v
    BY <1>2 DEF EvaluateCommitted
  <2> HIDE DEF t, u
  <2>5. VoteStep(t, u)
    BY <2>3 DEF VoteStep, OnlyIn, Fields
  <2>6. ReplicaInv(r, u)
    BY <1>2, <2>1, <2>2, <2>3, <2>5, Carry DEF OnlyIn, Fields, Voted, ReplicaInv, KeysInv
  <2>7. Voted(r, u, v)
    BY <2>6, TimersVoted
  <2> QED BY <2>1, <2>4, <2>5, <2>6, <2>7, VotedTrans DEF Voted
<1> QED BY <1>1, <1>2

LEMMA AcceptCommitsVoted ==
  ASSUME NEW r, NEW s, ReplicaInv(r, s), NEW k, NEW ms,
         \A m \in ms : /\ Key(m) = k /\ m.from \in Replicas
                       /\ CommitOK(r, s, m.from, k, m.req)
  PROVE  Voted(r, s, AcceptCommits(s, k, ms))
<1> DEFINE good == {m \in ms : Matches(s, m)}
           new == {m.from : m \in good} \ SendersOf(s.commit_senders, k)
           x == s.commit_senders \cup {<<k, a>> : a \in new}
           t == [s EXCEPT !.commit_senders = x]
           u == [t EXCEPT !.current_key = k]
<1>0. IsState(s)
  BY DEF ReplicaInv, KeysInv
<1>1. CASE k \notin s.prepared
  <2>1. AcceptCommits(s, k, ms) = BufferEarlyCommits(s, k, good)
    BY <1>1 DEF AcceptCommits
  <2> QED BY <2>1, BufferEarlyCommitsVoted
<1>2. CASE k \in s.prepared /\ new = {}
  BY <1>2, VotedSame DEF AcceptCommits
<1>3. CASE k \in s.prepared /\ new # {}
  <2>1. AcceptCommits(s, k, ms) = EvaluateCommitted(u, k)
    BY <1>3 DEF AcceptCommits
  <2>2. OnlyIn({"commit_senders"}, s, t) /\ t.commit_senders = x
    BY <1>0, SetField DEF Fields
  <2>3. \A p \in x : \/ p \in s.commit_senders
                     \/ /\ p[1] = k /\ k \in DOMAIN s.instances /\ p[2] \in Replicas
                        /\ CommitOK(r, s, p[2], k, s.instances[k])
    BY DEF Matches
  <2>4. s.commit_senders \subseteq x
    OBVIOUS
  <2> HIDE DEF x, t
  <2>5. VoteStep(s, t)
    BY <2>2, <2>4 DEF VoteStep, OnlyIn, Fields
  <2>6. \A p \in x : \/ p \in s.commit_senders
                     \/ /\ p[1] \in DOMAIN t.instances /\ p[2] \in Replicas
                        /\ CommitOK(r, t, p[2], p[1], t.instances[p[1]])
    BY <2>3, <2>5, EvidenceStays DEF VoteStep
  <2>7. ReplicaInv(r, t)
    BY <2>2, <2>5, <2>6, Carry DEF OnlyIn, Fields, ReplicaInv, KeysInv
  <2>8. Voted(r, t, u)
    BY <2>7, TimersVoted
  <2>9. Voted(r, u, EvaluateCommitted(u, k))
    BY <2>8, EvaluateCommittedVoted DEF Voted
  <2> QED BY <2>1, <2>5, <2>7, <2>8, <2>9, VotedTrans DEF Voted
<1> QED BY <1>1, <1>2, <1>3

\* Keys that a replica may vote for: not of an older view
Recent(s, k) == k \in Nat \X Nat /\ k[1] >= s.current_view

\* The vote of r for an instance it knows
LEMMA OutgoingOK ==
  ASSUME NEW r \in Replicas, NEW s, ReplicaInv(r, s), NEW k \in DOMAIN s.instances,
         Recent(s, k), NEW type \in {"PREPARE", "COMMIT"},
         type = "PREPARE" => k \in s.prepare_sent, type = "COMMIT" => k \in s.prepared \/ ~ Is(r, "none")
  PROVE  LET m == Outgoing(type, r, k, s.instances[k])
         IN  /\ m.type = type /\ m.view \in Nat /\ m.seq \in Nat /\ Recent(s, Key(m))
             /\ ~ Is(r, "invalid_sender") => m.from = r
             /\ type = "PREPARE" => PrepareOK(r, s, m.from, Key(m), m.req)
             /\ type = "COMMIT" => CommitOK(r, s, m.from, Key(m), m.req)
             /\ MessageOK(r, s, m) /\ Current(r, s, m)
<1> DEFINE m == Outgoing(type, r, k, s.instances[k])
           view == IF Is(r, "wrong_view") THEN k[1] + 1 ELSE k[1]
           seq == IF Is(r, "wrong_sequence") THEN 0 ELSE k[2]
           from == IF Is(r, "invalid_sender") THEN N ELSE r
<1>1. m.type = type /\ m.from = from /\ m.view = view /\ m.seq = seq /\ m.req = s.instances[k]
  BY DEF Outgoing, Vote
<1>2. /\ k[1] \in Nat /\ k[2] \in Nat /\ k = <<k[1], k[2]>> /\ s.current_view \in Nat
      /\ k[1] >= s.current_view
  BY DEF Recent, ReplicaInv, KeysInv
<1>3. view \in Nat /\ seq \in Nat /\ view >= s.current_view
  BY <1>2
<1>4. Key(m) = <<view, seq>>
  BY <1>1 DEF Key
<1>5. Recent(s, Key(m))
  BY <1>2, <1>3, <1>4 DEF Recent
<1>6. from \in Correct => from = r /\ Key(m) = k /\ Is(r, "none")
  <2>1. N \notin Replicas
    BY PBFTAssumption DEF Replicas, N
  <2> QED BY <1>2, <1>4, <2>1 DEF Correct, Is
<1>7. type = "PREPARE" => PrepareOK(r, s, m.from, Key(m), m.req)
  BY <1>1, <1>6 DEF PrepareOK, DidPrepare, StateOf
<1>8. type = "COMMIT" => CommitOK(r, s, m.from, Key(m), m.req)
  BY <1>1, <1>6 DEF CommitOK, DidCommit, StateOf
<1>9. from \in Replicas => from = r
  BY PBFTAssumption DEF Replicas, N
<1> HIDE DEF m, view, seq, from
<1>10. MessageOK(r, s, m)
  BY <1>1, <1>3, <1>7, <1>8 DEF MessageOK
<1>11. Current(r, s, m)
  BY <1>1, <1>3, <1>9 DEF Current
<1> QED BY <1>1, <1>3, <1>5, <1>7, <1>8, <1>10, <1>11 DEF m, from

\* Adding good votes to out
LEMMA OutVoted ==
  ASSUME NEW r, NEW s, ReplicaInv(r, s), NEW new,
         \A o \in new : /\ o[2].type \in {"PREPARE", "COMMIT"}
                        /\ MessageOK(r, s, o[2]) /\ Current(r, s, o[2])
  PROVE  Voted(r, s, [s EXCEPT !.out = s.out \cup new])
<1> DEFINE x == s.out \cup new
           t == [s EXCEPT !.out = x]
<1>0. IsState(s) /\ "out" \in Fields
  BY DEF ReplicaInv, KeysInv, Fields
<1>1. OnlyIn({"out"}, s, t) /\ t.out = x
  BY ONLY <1>0, SetField, Zenon
<1>2. \A o \in x : o \in s.out \/ o \in new
  OBVIOUS
<1> HIDE DEF t, x
<1>3. VoteStep(s, t)
  BY <1>1, <1>2 DEF VoteStep, OnlyIn, Fields
<1>4. \A o \in new : MessageOK(r, t, o[2]) /\ Current(r, t, o[2])
  BY <1>3, MessagesStay
<1>5. ReplicaInv(r, t)
  BY <1>1, <1>2, <1>3, <1>4, Carry DEF OnlyIn, Fields, ReplicaInv, KeysInv
<1> QED BY <1>3, <1>5 DEF Voted, t, x

LEMMA PublishVoted ==
  ASSUME NEW r, NEW s, ReplicaInv(r, s), NEW dests, NEW m,
         m.type \in {"PREPARE", "COMMIT"}, MessageOK(r, s, m), Current(r, s, m)
  PROVE  Voted(r, s, Publish(s, dests, m))
<1> DEFINE new == {<<d, m>> : d \in dests}
<1>1. \A o \in new : o[2] = m
  OBVIOUS
<1>2. Publish(s, dests, m) = [s EXCEPT !.out = s.out \cup new]
  BY DEF Publish
<1> HIDE DEF new
<1> QED BY <1>1, <1>2, OutVoted

LEMMA EquivocateVoted ==
  ASSUME NEW r \in Replicas, NEW s, ReplicaInv(r, s), NEW k, Recent(s, k),
         NEW type \in {"PREPARE", "COMMIT"}, Is(r, "equivocation")
  PROVE  Voted(r, s, Equivocate(s, type, r, k))
<1> DEFINE dests == Replicas \ {r}
           victim == IF 1 \in dests THEN 1 ELSE 0
           q(d) == IF d = victim THEN Conflicting(s.instances[k]) ELSE s.instances[k]
           new == {<<d, Vote(type, r, k, q(d), TRUE)>> : d \in dests}
<1>1. Equivocate(s, type, r, k) = [s EXCEPT !.out = s.out \cup new]
  BY DEF Equivocate
<1>2. r \notin Correct
  BY DEF Is, Correct
<1>3. k[1] \in Nat /\ k[2] \in Nat /\ k[1] >= s.current_view
  BY DEF Recent
<1>4. ASSUME NEW o \in new
      PROVE  /\ o[2].type = type /\ o[2].from = r /\ o[2].view = k[1] /\ o[2].seq = k[2]
  BY DEF Vote
<1> HIDE DEF new
<1>5. ASSUME NEW o \in new PROVE MessageOK(r, s, o[2]) /\ Current(r, s, o[2])
  BY <1>2, <1>3, <1>4 DEF MessageOK, Current, PrepareOK, CommitOK
<1>6. \A o \in new : /\ o[2].type \in {"PREPARE", "COMMIT"}
                     /\ MessageOK(r, s, o[2]) /\ Current(r, s, o[2])
  BY <1>4, <1>5
<1>7. Voted(r, s, [s EXCEPT !.out = s.out \cup new])
  BY <1>6, OutVoted
<1> QED BY <1>1, <1>7

LEMMA SendCommitVoted ==
  ASSUME NEW r \in Replicas, NEW s, ReplicaInv(r, s), NEW k, Recent(s, k), NEW bypass \in BOOLEAN
  PROVE  Voted(r, s, SendCommit(s, r, k, bypass))
<1>0. IsState(s) /\ s.prepared \subseteq DOMAIN s.instances
  BY DEF ReplicaInv, KeysInv
<1>1. CASE Is(r, "silent") \/ k \in s.commit_sent \/ k \notin s.prepared
  BY <1>1, VotedSame DEF SendCommit
<1>2. CASE ~ (Is(r, "silent") \/ k \in s.commit_sent \/ k \notin s.prepared)
  <2>1. k \in s.prepared /\ k \in DOMAIN s.instances
    BY <1>0, <1>2
  <2>2. CASE Is(r, "delayed_commit") /\ ~ bypass
    <3> DEFINE x == s.commit_scheduled \cup {k}
               t == [s EXCEPT !.commit_scheduled = x]
    <3>1. SendCommit(s, r, k, bypass) = t
      BY <1>2, <2>2 DEF SendCommit, ScheduleDelayedCommit
    <3>2. OnlyIn({"commit_scheduled"}, s, t) /\ t.commit_scheduled = x
      BY <1>0, SetField DEF Fields
    <3> HIDE DEF t
    <3>3. VoteStep(s, t)
      BY <3>2 DEF VoteStep, OnlyIn, Fields
    <3>4. ReplicaInv(r, t)
      BY <2>1, <3>2, <3>3, Carry DEF OnlyIn, Fields, ReplicaInv, KeysInv, Recent
    <3> QED BY <3>1, <3>3, <3>4 DEF Voted
  <2>3. CASE ~ (Is(r, "delayed_commit") /\ ~ bypass) /\ Is(r, "skip_commit")
    BY <1>2, <2>3, VotedSame DEF SendCommit
  <2>4. CASE ~ (Is(r, "delayed_commit") /\ ~ bypass) /\ ~ Is(r, "skip_commit")
    <3> DEFINE x == s.commit_sent \cup {k}
               sent == [s EXCEPT !.commit_sent = x]
               m == Outgoing("COMMIT", r, k, s.instances[k])
               t == IF Is(r, "invalid_sender") THEN sent ELSE AcceptCommits(sent, Key(m), {m})
    <3>1. Voted(r, s, sent)
      BY TimersVoted
    <3>2. /\ sent.instances = s.instances /\ k \in sent.prepared /\ Recent(sent, k)
          /\ ReplicaInv(r, sent)
      BY <2>1, <3>1 DEF Voted, VoteStep, Recent
    <3>3. /\ m.type = "COMMIT"
          /\ ~ Is(r, "invalid_sender") => m.from = r
          /\ CommitOK(r, sent, m.from, Key(m), m.req)
          /\ MessageOK(r, sent, m) /\ Current(r, sent, m)
      BY <2>1, <3>2, OutgoingOK
    <3>4. CASE Is(r, "equivocation")
      <4>1. SendCommit(s, r, k, bypass) = Equivocate(sent, "COMMIT", r, k)
        BY <1>2, <2>4, <3>4 DEF SendCommit
      <4>2. Voted(r, sent, Equivocate(sent, "COMMIT", r, k))
        BY <3>2, <3>4, EquivocateVoted
      <4> QED BY <3>1, <4>1, <4>2, VotedTrans
    <3>5. CASE ~ Is(r, "equivocation")
      <4>1. SendCommit(s, r, k, bypass) = Publish(t, Audience(r), m)
        BY <1>2, <2>4, <3>5 DEF SendCommit
      <4> HIDE DEF m, sent
      <4>2. Voted(r, sent, t)
        <5>1. CASE Is(r, "invalid_sender")
          BY <3>2, <5>1, VotedSame
        <5>2. CASE ~ Is(r, "invalid_sender")
          <6>1. \A n \in {m} : /\ Key(n) = Key(m) /\ n.from \in Replicas
                               /\ CommitOK(r, sent, n.from, Key(m), n.req)
            BY <3>3, <5>2
          <6> QED BY <3>2, <5>2, <6>1, AcceptCommitsVoted
        <5> QED BY <5>1, <5>2
      <4> HIDE DEF t
      <4>3. ReplicaInv(r, t) /\ MessageOK(r, t, m) /\ Current(r, t, m)
        BY <3>3, <4>2, MessagesStay DEF Voted
      <4>4. Voted(r, t, Publish(t, Audience(r), m))
        BY <3>3, <4>3, PublishVoted
      <4> QED BY <3>1, <4>1, <4>2, <4>4, VotedTrans
    <3> QED BY <3>4, <3>5
  <2> QED BY <2>2, <2>3, <2>4
<1> QED BY <1>1, <1>2

LEMMA CommitCallbackVoted ==
  ASSUME NEW r \in Replicas, NEW s, ReplicaInv(r, s), NEW m, m.type = "COMMIT",
         MessageOK(r, s, m)
  PROVE  Voted(r, s, CommitCallback(s, r, m))
<1> DEFINE drop == \/ Is(r, "silent")
                   \/ m.view # s.current_view
                   \/ m.seq = 0
                   \/ m.from \notin Replicas
                   \/ ~ m.valid
           early == Key(m) \notin DOMAIN s.instances \/ Key(m) \notin s.prepared
<1>1. CommitOK(r, s, m.from, Key(m), m.req)
  BY DEF MessageOK
<1>2. CASE drop
  BY <1>2, VotedSame DEF CommitCallback
<1>3. CASE ~ drop /\ early
  <2>1. CommitCallback(s, r, m) = BufferEarlyCommits(s, Key(m), {m})
    BY <1>3 DEF CommitCallback
  <2> QED BY <1>1, <1>3, <2>1, BufferEarlyCommitsVoted
<1>4. CASE ~ drop /\ ~ early
  <2>1. CommitCallback(s, r, m) = AcceptCommits(s, Key(m), {m})
    BY <1>4 DEF CommitCallback
  <2> QED BY <1>1, <1>4, <2>1, AcceptCommitsVoted
<1> QED BY <1>2, <1>3, <1>4

LEMMA ProcessPendingCommitsVoted ==
  ASSUME NEW r, NEW s, ReplicaInv(r, s), NEW k
  PROVE  Voted(r, s, ProcessPendingCommits(s, k))
<1> DEFINE ms == Pending(s.pending_commits, k)
           x == s.pending_commits \ ms
           t == [s EXCEPT !.pending_commits = x]
<1>0. IsState(s) /\ "pending_commits" \in Fields
  BY DEF ReplicaInv, KeysInv, Fields
<1>1. OnlyIn({"pending_commits"}, s, t) /\ t.pending_commits = x
  BY ONLY <1>0, SetField, Zenon
<1>2. \A m \in ms : m \in s.pending_commits /\ Key(m) = k
  BY DEF Pending
<1>3. ProcessPendingCommits(s, k) = AcceptCommits(t, k, ms)
  BY DEF ProcessPendingCommits
<1>4. x \subseteq s.pending_commits
  OBVIOUS
<1> HIDE DEF t, x, ms
<1>5. VoteStep(s, t)
  BY <1>1 DEF VoteStep, OnlyIn, Fields
<1>6. ReplicaInv(r, t)
  BY <1>1, <1>4, <1>5, Carry DEF OnlyIn, Fields, ReplicaInv, KeysInv
<1>7. \A m \in ms : /\ Key(m) = k /\ m.from \in Replicas
                    /\ CommitOK(r, t, m.from, k, m.req)
  BY <1>2, <1>5, EvidenceStays DEF ReplicaInv, SendersInv
<1>8. Voted(r, t, AcceptCommits(t, k, ms))
  BY <1>6, <1>7, AcceptCommitsVoted
<1> QED BY <1>3, <1>5, <1>6, <1>8, VotedTrans DEF Voted

LEMMA EvaluatePreparedVoted ==
  ASSUME NEW r \in Replicas, NEW s, ReplicaInv(r, s), NEW k,
         k \in DOMAIN s.instances, Recent(s, k)
  PROVE  Voted(r, s, EvaluatePrepared(s, r, k))
<1> DEFINE stop == \/ k \in s.prepared
                   \/ Cardinality(SendersOf(s.prepare_senders, k)) < PrepareThreshold
           x == s.prepared \cup {k}
           t == [s EXCEPT !.prepared = x]
           u == [t EXCEPT !.current_key = k]
           v == Arm(u, r)
           w == ProcessPendingCommits(v, k)
<1>0. IsState(s) /\ "prepared" \in Fields
  BY DEF ReplicaInv, KeysInv, Fields
<1>1. CASE stop
  BY <1>1, VotedSame DEF EvaluatePrepared
<1>2. CASE ~ stop
  <2>1. EvaluatePrepared(s, r, k) = SendCommit(w, r, k, FALSE)
    BY <1>2 DEF EvaluatePrepared
  <2> HIDE DEF x
  <2>2. OnlyIn({"prepared"}, s, t) /\ t.prepared = x
    BY ONLY <1>0, SetField, Zenon
  <2> USE DEF x
  <2>3. s.prepared \subseteq x /\ \A j \in x : j \in s.prepared \/ j = k
    OBVIOUS
  <2> HIDE DEF t, x
  <2>4. VoteStep(s, t)
    BY <2>2, <2>3 DEF VoteStep, OnlyIn, Fields
  <2>5. ReplicaInv(r, t)
    BY <2>2, <2>3, <2>4, Carry DEF OnlyIn, Fields, ReplicaInv, KeysInv
  <2>6. Voted(r, s, t) /\ Voted(r, t, u)
    BY <2>4, <2>5, TimersVoted DEF Voted
  <2> HIDE DEF u
  <2>7. Voted(r, u, v)
    BY <2>6, ArmVoted DEF Voted
  <2> HIDE DEF v
  <2>8. Voted(r, v, w)
    BY <2>7, ProcessPendingCommitsVoted DEF Voted
  <2> HIDE DEF w
  <2>9. Voted(r, s, w)
    BY <2>6, <2>7, <2>8, VotedTrans
  <2>10. Voted(r, w, SendCommit(w, r, k, FALSE))
    BY <2>9, SendCommitVoted DEF Voted, VoteStep, Recent
  <2> QED BY <2>1, <2>9, <2>10, VotedTrans
<1> QED BY <1>1, <1>2

LEMMA AcceptPreparesVoted ==
  ASSUME NEW r \in Replicas, NEW s, ReplicaInv(r, s), NEW k, Recent(s, k), NEW ms,
         \A m \in ms : Key(m) = k /\ PrepareOK(r, s, m.from, k, m.req)
  PROVE  Voted(r, s, AcceptPrepares(s, r, k, ms))
<1> DEFINE good == {x \in ms : Matches(s, x)}
           new == {m.from : m \in good} \ SendersOf(s.prepare_senders, k)
           x == s.prepare_senders \cup {<<k, a>> : a \in new}
           t == [s EXCEPT !.prepare_senders = x]
           u == [t EXCEPT !.current_key = k]
<1>0. IsState(s) /\ "prepare_senders" \in Fields
  BY DEF ReplicaInv, KeysInv, Fields
<1>1. CASE new = {}
  BY <1>1, VotedSame DEF AcceptPrepares
<1>2. CASE new # {}
  <2>1. AcceptPrepares(s, r, k, ms) = EvaluatePrepared(u, r, k)
    BY <1>2 DEF AcceptPrepares
  <2>2. OnlyIn({"prepare_senders"}, s, t) /\ t.prepare_senders = x
    BY ONLY <1>0, SetField, Zenon
  <2>3. \A p \in x : \/ p \in s.prepare_senders
                     \/ /\ p[1] = k /\ k \in DOMAIN s.instances
                        /\ PrepareOK(r, s, p[2], k, s.instances[k])
    BY DEF Matches
  <2>4. k \in DOMAIN s.instances
    BY <1>2 DEF Matches
  <2> HIDE DEF x, t
  <2>5. VoteStep(s, t)
    BY <2>2 DEF VoteStep, OnlyIn, Fields
  <2>6. \A p \in x : \/ p \in s.prepare_senders
                     \/ /\ p[1] \in DOMAIN t.instances
                        /\ PrepareOK(r, t, p[2], p[1], t.instances[p[1]])
    BY <2>3, <2>5, EvidenceStays DEF VoteStep
  <2>7. ReplicaInv(r, t)
    BY <2>2, <2>5, <2>6, Carry DEF OnlyIn, Fields, ReplicaInv, KeysInv
  <2>8. Voted(r, s, t) /\ Voted(r, t, u)
    BY <2>5, <2>7, TimersVoted DEF Voted
  <2>9. Voted(r, s, u)
    BY <2>8, VotedTrans
  <2> HIDE DEF u
  <2>10. Voted(r, u, EvaluatePrepared(u, r, k))
    BY <2>4, <2>9, EvaluatePreparedVoted DEF Voted, VoteStep, Recent
  <2> QED BY <2>1, <2>9, <2>10, VotedTrans
<1> QED BY <1>1, <1>2

LEMMA ProcessPendingPreparesVoted ==
  ASSUME NEW r \in Replicas, NEW s, ReplicaInv(r, s), NEW k, Recent(s, k)
  PROVE  Voted(r, s, ProcessPendingPrepares(s, r, k))
<1> DEFINE ms == Pending(s.pending_prepares, k)
           x == s.pending_prepares \ ms
           t == [s EXCEPT !.pending_prepares = x]
<1>0. IsState(s) /\ "pending_prepares" \in Fields
  BY DEF ReplicaInv, KeysInv, Fields
<1>1. OnlyIn({"pending_prepares"}, s, t) /\ t.pending_prepares = x
  BY ONLY <1>0, SetField, Zenon
<1>2. \A m \in ms : m \in s.pending_prepares /\ Key(m) = k
  BY DEF Pending
<1>3. ProcessPendingPrepares(s, r, k) = AcceptPrepares(t, r, k, ms)
  BY DEF ProcessPendingPrepares
<1>4. x \subseteq s.pending_prepares
  OBVIOUS
<1> HIDE DEF t, x, ms
<1>5. VoteStep(s, t)
  BY <1>1 DEF VoteStep, OnlyIn, Fields
<1>6. ReplicaInv(r, t)
  BY <1>1, <1>4, <1>5, Carry DEF OnlyIn, Fields, ReplicaInv, KeysInv
<1>7. \A m \in ms : Key(m) = k /\ PrepareOK(r, t, m.from, k, m.req)
  BY <1>2, <1>5, EvidenceStays DEF ReplicaInv, SendersInv
<1>8. Recent(t, k)
  BY <1>5 DEF VoteStep, Recent
<1>9. Voted(r, t, AcceptPrepares(t, r, k, ms))
  BY <1>6, <1>7, <1>8, AcceptPreparesVoted
<1> QED BY <1>3, <1>5, <1>6, <1>9, VotedTrans DEF Voted

LEMMA SendPrepareVoted ==
  ASSUME NEW r \in Replicas, NEW s, ReplicaInv(r, s), NEW k,
         k \in DOMAIN s.instances, Recent(s, k), NEW bypass \in BOOLEAN
  PROVE  Voted(r, s, SendPrepare(s, r, k, bypass))
<1>0. IsState(s) /\ "prepare_scheduled" \in Fields /\ "prepare_sent" \in Fields
  BY DEF ReplicaInv, KeysInv, Fields
<1>1. CASE Is(r, "silent") \/ k \in s.prepare_sent
  BY <1>1, VotedSame DEF SendPrepare
<1>2. CASE ~ (Is(r, "silent") \/ k \in s.prepare_sent)
  <2>1. CASE Is(r, "delayed_prepare") /\ ~ bypass
    <3> DEFINE x == s.prepare_scheduled \cup {k}
               t == [s EXCEPT !.prepare_scheduled = x]
    <3>1. SendPrepare(s, r, k, bypass) = t
      BY <1>2, <2>1 DEF SendPrepare, ScheduleDelayedPrepare
    <3> HIDE DEF x
    <3>2. OnlyIn({"prepare_scheduled"}, s, t) /\ t.prepare_scheduled = x
      BY ONLY <1>0, SetField, Zenon
    <3> USE DEF x
    <3> HIDE DEF t
    <3>3. VoteStep(s, t)
      BY <3>2 DEF VoteStep, OnlyIn, Fields
    <3>4. ReplicaInv(r, t)
      BY <3>2, <3>3, Carry DEF OnlyIn, Fields, ReplicaInv, KeysInv, Recent
    <3> QED BY <3>1, <3>3, <3>4 DEF Voted
  <2>2. CASE ~ (Is(r, "delayed_prepare") /\ ~ bypass)
    <3> DEFINE x == s.prepare_sent \cup {k}
               sent == [s EXCEPT !.prepare_sent = x]
               m == Outgoing("PREPARE", r, k, s.instances[k])
               t == IF Is(r, "invalid_sender") THEN sent
                    ELSE AcceptPrepares(sent, r, Key(m), {m})
    <3> HIDE DEF x
    <3>1. OnlyIn({"prepare_sent"}, s, sent) /\ sent.prepare_sent = x
      BY ONLY <1>0, SetField, Zenon
    <3> USE DEF x
    <3>2. VoteStep(s, sent)
      BY <3>1 DEF VoteStep, OnlyIn, Fields
    <3>3. ReplicaInv(r, sent)
      <4> HIDE DEF sent
      <4> QED BY <3>1, <3>2, Carry DEF OnlyIn, Fields, ReplicaInv, KeysInv
    <3>4. /\ sent.instances = s.instances /\ k \in sent.prepare_sent /\ Recent(sent, k)
          /\ Voted(r, s, sent)
      BY <3>1, <3>2, <3>3 DEF Voted, VoteStep, Recent
    <3>5. /\ m.type = "PREPARE"
          /\ Recent(sent, Key(m))
          /\ PrepareOK(r, sent, m.from, Key(m), m.req)
          /\ MessageOK(r, sent, m) /\ Current(r, sent, m)
      <4> HIDE DEF sent
      <4>1. k \in DOMAIN sent.instances /\ m = Outgoing("PREPARE", r, k, sent.instances[k])
        BY <3>4
      <4> QED BY <3>3, <3>4, <4>1, OutgoingOK
    <3>6. CASE Is(r, "skip_prepare")
      BY <1>2, <2>2, <3>4, <3>6 DEF SendPrepare
    <3>7. CASE ~ Is(r, "skip_prepare") /\ Is(r, "equivocation")
      <4>1. SendPrepare(s, r, k, bypass) = Equivocate(sent, "PREPARE", r, k)
        BY <1>2, <2>2, <3>7 DEF SendPrepare
      <4>2. Voted(r, sent, Equivocate(sent, "PREPARE", r, k))
        BY <3>3, <3>4, <3>7, EquivocateVoted
      <4> QED BY <3>4, <4>1, <4>2, VotedTrans
    <3>8. CASE ~ Is(r, "skip_prepare") /\ ~ Is(r, "equivocation")
      <4>1. SendPrepare(s, r, k, bypass) = Publish(t, Audience(r), m)
        BY <1>2, <2>2, <3>8 DEF SendPrepare
      <4> HIDE DEF m, sent
      <4>2. Voted(r, sent, t)
        <5>1. CASE Is(r, "invalid_sender")
          BY <3>3, <5>1, VotedSame
        <5>2. CASE ~ Is(r, "invalid_sender")
          <6>1. \A n \in {m} : Key(n) = Key(m) /\ PrepareOK(r, sent, n.from, Key(m), n.req)
            BY <3>5
          <6> QED BY <3>3, <3>5, <5>2, <6>1, AcceptPreparesVoted
        <5> QED BY <5>1, <5>2
      <4> HIDE DEF t
      <4>3. ReplicaInv(r, t) /\ MessageOK(r, t, m) /\ Current(r, t, m)
        BY <3>5, <4>2, MessagesStay DEF Voted
      <4>4. Voted(r, t, Publish(t, Audience(r), m))
        BY <3>5, <4>3, PublishVoted
      <4> QED BY <3>4, <4>1, <4>2, <4>4, VotedTrans
    <3> QED BY <3>6, <3>7, <3>8
  <2> QED BY <2>1, <2>2
<1> QED BY <1>1, <1>2

LEMMA PrepareCallbackVoted ==
  ASSUME NEW r \in Replicas, NEW s, ReplicaInv(r, s), NEW m, m.type = "PREPARE",
         MessageOK(r, s, m)
  PROVE  Voted(r, s, PrepareCallback(s, r, m))
<1> DEFINE drop == \/ Is(r, "silent")
                   \/ m.view # s.current_view
                   \/ m.seq = 0
                   \/ m.from \notin Replicas
                   \/ m.from = PrimaryForView(s.current_view)
                   \/ ~ m.valid
           known == Key(m) \in DOMAIN s.instances
<1>0. IsState(s) /\ "pending_prepares" \in Fields
  BY DEF ReplicaInv, KeysInv, Fields
<1>1. PrepareOK(r, s, m.from, Key(m), m.req) /\ m.view \in Nat /\ m.seq \in Nat
  BY DEF MessageOK
<1>2. CASE drop
  BY <1>2, VotedSame DEF PrepareCallback
<1>3. CASE ~ drop /\ known
  <2>1. PrepareCallback(s, r, m) = AcceptPrepares(s, r, Key(m), {m})
    BY <1>3 DEF PrepareCallback
  <2>2. Recent(s, Key(m))
    BY <1>1, <1>3 DEF Recent, Key
  <2> QED BY <1>1, <2>1, <2>2, AcceptPreparesVoted
<1>4. CASE ~ drop /\ ~ known
  <2>1. PrepareCallback(s, r, m) = BufferEarlyPrepare(s, m)
    BY <1>4 DEF PrepareCallback
  <2>2. CASE \E p \in Pending(s.pending_prepares, Key(m)) : p.from = m.from
    BY <2>1, <2>2, VotedSame DEF BufferEarlyPrepare
  <2>3. CASE ~ \E p \in Pending(s.pending_prepares, Key(m)) : p.from = m.from
    <3> DEFINE x == s.pending_prepares \cup {m}
               t == [s EXCEPT !.pending_prepares = x]
    <3>1. BufferEarlyPrepare(s, m) = t
      BY <2>3 DEF BufferEarlyPrepare
    <3> HIDE DEF x
    <3>2. OnlyIn({"pending_prepares"}, s, t) /\ t.pending_prepares = x
      BY ONLY <1>0, SetField, Zenon
    <3> USE DEF x
    <3> HIDE DEF t
    <3>3. VoteStep(s, t)
      BY <3>2 DEF VoteStep, OnlyIn, Fields
    <3>4. PrepareOK(r, t, m.from, Key(m), m.req)
      BY <1>1, <3>3, EvidenceStays
    <3>5. ReplicaInv(r, t)
      BY <3>2, <3>3, <3>4, Carry DEF OnlyIn, Fields, ReplicaInv, KeysInv
    <3> QED BY <2>1, <3>1, <3>3, <3>5 DEF Voted
  <2> QED BY <2>2, <2>3
<1> QED BY <1>2, <1>3, <1>4

LEMMA SendEarlyCommitVoted ==
  ASSUME NEW r \in Replicas, NEW s, ReplicaInv(r, s), NEW k,
         k \in DOMAIN s.instances, Recent(s, k), Is(r, "early_commit")
  PROVE  Voted(r, s, SendEarlyCommit(s, r, k))
<1> DEFINE x == s.commit_sent \cup {k}
           sent == [s EXCEPT !.commit_sent = x]
           m == Outgoing("COMMIT", r, k, s.instances[k])
           t == BufferEarlyCommits(sent, k, {m})
<1>1. CASE k \in s.commit_sent
  BY <1>1, VotedSame DEF SendEarlyCommit
<1>2. CASE k \notin s.commit_sent
  <2>1. SendEarlyCommit(s, r, k) = Publish(t, Audience(r), m)
    BY <1>2 DEF SendEarlyCommit
  <2>2. Voted(r, s, sent)
    BY TimersVoted
  <2> HIDE DEF sent
  <2>3. /\ sent.instances = s.instances /\ Recent(sent, k) /\ ReplicaInv(r, sent)
        /\ k \in DOMAIN sent.instances
    BY <2>2 DEF Voted, VoteStep, Recent
  <2>4. ~ Is(r, "none") /\ ~ Is(r, "invalid_sender")
    BY DEF Is
  <2>5. /\ m.type = "COMMIT" /\ m.from = r
        /\ CommitOK(r, sent, m.from, Key(m), m.req)
        /\ MessageOK(r, sent, m) /\ Current(r, sent, m)
    BY <2>3, <2>4, OutgoingOK
  <2> HIDE DEF m
  <2>6. Voted(r, sent, t)
    <3>1. \A n \in {m} : n.from \in Replicas /\ CommitOK(r, sent, n.from, Key(n), n.req)
      BY <2>5
    <3> QED BY <2>3, <3>1, BufferEarlyCommitsVoted
  <2> HIDE DEF t
  <2>7. ReplicaInv(r, t) /\ MessageOK(r, t, m) /\ Current(r, t, m)
    BY <2>5, <2>6, MessagesStay DEF Voted
  <2>8. Voted(r, t, Publish(t, Audience(r), m))
    BY <2>5, <2>7, PublishVoted
  <2> QED BY <2>1, <2>2, <2>6, <2>8, VotedTrans
<1> QED BY <1>1, <1>2

LEMMA DelayedVoted ==
  ASSUME NEW r \in Replicas, NEW s, ReplicaInv(r, s), NEW k
  PROVE  /\ k \in s.prepare_scheduled =>
              Voted(r, s, SendPrepare([s EXCEPT !.prepare_scheduled = @ \ {k}], r, k, TRUE))
         /\ k \in s.commit_scheduled =>
              Voted(r, s, SendCommit([s EXCEPT !.commit_scheduled = @ \ {k}], r, k, TRUE))
<1>0. IsState(s) /\ "prepare_scheduled" \in Fields /\ "commit_scheduled" \in Fields
  BY DEF ReplicaInv, KeysInv, Fields
<1>1. ASSUME k \in s.prepare_scheduled
      PROVE  Voted(r, s, SendPrepare([s EXCEPT !.prepare_scheduled = @ \ {k}], r, k, TRUE))
  <2> DEFINE x == s.prepare_scheduled \ {k}
             t == [s EXCEPT !.prepare_scheduled = x]
  <2>1. OnlyIn({"prepare_scheduled"}, s, t) /\ t.prepare_scheduled = x
    <3> HIDE DEF x
    <3> QED BY ONLY <1>0, SetField, Zenon
  <2> HIDE DEF t
  <2>2. VoteStep(s, t)
    BY <2>1 DEF VoteStep, OnlyIn, Fields
  <2>3. ReplicaInv(r, t)
    BY <2>1, <2>2, Carry DEF OnlyIn, Fields, ReplicaInv, KeysInv
  <2>4. k \in DOMAIN s.instances /\ Recent(s, k)
    BY <1>1 DEF ReplicaInv, KeysInv, Recent
  <2>5. k \in DOMAIN t.instances /\ Recent(t, k)
    BY <2>2, <2>4 DEF VoteStep, Recent
  <2>6. Voted(r, t, SendPrepare(t, r, k, TRUE))
    BY <2>3, <2>5, SendPrepareVoted
  <2>7. Voted(r, s, SendPrepare(t, r, k, TRUE))
    BY <2>2, <2>3, <2>6, VotedTrans DEF Voted
  <2> QED BY <2>7 DEF t
<1>2. ASSUME k \in s.commit_scheduled
      PROVE  Voted(r, s, SendCommit([s EXCEPT !.commit_scheduled = @ \ {k}], r, k, TRUE))
  <2> DEFINE x == s.commit_scheduled \ {k}
             t == [s EXCEPT !.commit_scheduled = x]
  <2>1. OnlyIn({"commit_scheduled"}, s, t) /\ t.commit_scheduled = x
    <3> HIDE DEF x
    <3> QED BY ONLY <1>0, SetField, Zenon
  <2> HIDE DEF t
  <2>2. VoteStep(s, t)
    BY <2>1 DEF VoteStep, OnlyIn, Fields
  <2>3. ReplicaInv(r, t)
    BY <2>1, <2>2, Carry DEF OnlyIn, Fields, ReplicaInv, KeysInv
  <2>4. Recent(s, k)
    BY <1>2 DEF ReplicaInv, KeysInv, Recent
  <2>5. Recent(t, k)
    BY <2>2, <2>4 DEF VoteStep, Recent
  <2>6. Voted(r, t, SendCommit(t, r, k, TRUE))
    BY <2>3, <2>5, SendCommitVoted
  <2>7. Voted(r, s, SendCommit(t, r, k, TRUE))
    BY <2>2, <2>3, <2>6, VotedTrans DEF Voted
  <2> QED BY <2>7 DEF t
<1> QED BY <1>1, <1>2
-----------------------------------------------------------------------------
(* Instances *)

\* From s to t nothing that others may have seen of the replica is undone.
Grows(s, t) ==
  /\ IsState(t)
  /\ t.next_sequence_number \in Nat /\ t.next_sequence_number >= s.next_sequence_number
  /\ s.new_view_sent \subseteq t.new_view_sent
  /\ s.prepare_sent \subseteq t.prepare_sent
  /\ s.prepared \subseteq t.prepared
  /\ \A k \in DOMAIN s.instances : k \in DOMAIN t.instances /\ t.instances[k] = s.instances[k]

\* What state s says of the key k
Says(s, k, q) ==
  \/ k \in DOMAIN s.instances /\ s.instances[k] = q
  \/ \E o \in s.out : o[2].type = "PRE-PREPARE" /\ k = Key(o[2]) /\ q = o[2].req
  \/ \E o \in s.out : /\ o[2].type = "NEW-VIEW"
                      /\ \E c \in o[2].choice : k = <<o[2].new_view, c.seq>> /\ q = c.req

LEMMA VoteStepGrows ==
  ASSUME NEW r, NEW s, NEW t, ReplicaInv(r, s), VoteStep(s, t)
  PROVE  Grows(s, t) /\ \A k, q : Says(t, k, q) => Says(s, k, q)
<1>1. Grows(s, t)
  BY DEF VoteStep, Grows, ReplicaInv, KeysInv
<1>2. ASSUME NEW k, NEW q, Says(t, k, q) PROVE Says(s, k, q)
  BY <1>2 DEF VoteStep, Says
<1> QED BY <1>1, <1>2

LEMMA GrowsTrans ==
  ASSUME NEW s, NEW t, NEW u, s.next_sequence_number \in Nat, Grows(s, t), Grows(t, u)
  PROVE  Grows(s, u)
BY DEF Grows

LEMMA GrowsKeepsEvidence ==
  ASSUME NEW r, NEW s, NEW t, Grows(s, t)
  PROVE  /\ \A b, k, q : PrepareOK(r, s, b, k, q) => PrepareOK(r, t, b, k, q)
         /\ \A b, k, q : CommitOK(r, s, b, k, q) => CommitOK(r, t, b, k, q)
         /\ \A m : CertOK(r, s, m) => CertOK(r, t, m)
         /\ \A m : MessageOK(r, s, m) => MessageOK(r, t, m)
<1>1. /\ \A b, k, q : PrepareOK(r, s, b, k, q) => PrepareOK(r, t, b, k, q)
      /\ \A b, k, q : CommitOK(r, s, b, k, q) => CommitOK(r, t, b, k, q)
  BY DEF Grows, PrepareOK, CommitOK, DidPrepare, DidCommit, StateOf
<1>2. \A m : CertOK(r, s, m) => CertOK(r, t, m)
  BY <1>1 DEF CertOK
<1>3. \A m : MessageOK(r, s, m) => MessageOK(r, t, m)
  BY <1>1, <1>2 DEF MessageOK
<1> QED BY <1>1, <1>2, <1>3

Added(s, k, q) == [s EXCEPT !.instances = With(@, k, q)]

\* A new instance, or one that is known already
LEMMA AddInstance ==
  ASSUME NEW r, NEW s, ReplicaInv(r, s), NEW k \in Nat \X Nat, NEW q,
         k \in DOMAIN s.instances => s.instances[k] = q,
         NEW t, t = Added(s, k, q)
  PROVE  /\ ReplicaInv(r, t) /\ Grows(s, t) /\ OnlyIn({"instances"}, s, t)
         /\ k \in DOMAIN t.instances /\ t.instances[k] = q
         /\ \A j, p : Says(t, j, p) => Says(s, j, p) \/ (j = k /\ p = q)
<1> DEFINE x == With(s.instances, k, q)
<1>0. IsState(s) /\ "instances" \in Fields
  BY DEF ReplicaInv, KeysInv, Fields
<1>1. OnlyIn({"instances"}, s, t) /\ t.instances = x
  <2>1. t = [s EXCEPT !.instances = x]
    BY DEF Added
  <2> HIDE DEF x
  <2> QED BY ONLY <1>0, <2>1, SetField, Zenon
<1>2. /\ DOMAIN x = DOMAIN s.instances \cup {k} /\ x[k] = q
      /\ \A j \in DOMAIN s.instances : x[j] = s.instances[j]
  BY DEF With
<1> HIDE DEF x
<1>3. Grows(s, t)
  BY <1>1, <1>2 DEF Grows, OnlyIn, Fields, ReplicaInv, KeysInv
<1>4. KeysInv(t)
  BY <1>1, <1>2 DEF OnlyIn, Fields, ReplicaInv, KeysInv
<1>5. SendersInv(r, t)
  <2>1. /\ t.prepare_senders = s.prepare_senders /\ t.commit_senders = s.commit_senders
        /\ t.pending_prepares = s.pending_prepares /\ t.pending_commits = s.pending_commits
    BY <1>1 DEF OnlyIn, Fields
  <2> QED BY <1>1, <1>2, <1>3, <2>1, GrowsKeepsEvidence DEF ReplicaInv, SendersInv
<1>6. CommittedInv(t)
  BY <1>1 DEF OnlyIn, Fields, ReplicaInv, CommittedInv
<1>7. ViewsInv(r, t)
  <2>1. t.cached = s.cached /\ t.view_changes = s.view_changes
    BY <1>1 DEF OnlyIn, Fields
  <2> QED BY <1>3, <2>1, GrowsKeepsEvidence DEF ReplicaInv, ViewsInv
<1>8. OutInv(r, t)
  <2>1. t.out = s.out /\ t.current_view = s.current_view
    BY <1>1 DEF OnlyIn, Fields
  <2> QED BY <1>3, <2>1, GrowsKeepsEvidence DEF ReplicaInv, OutInv, Current
<1>9. ASSUME NEW j, NEW p, Says(t, j, p) PROVE Says(s, j, p) \/ (j = k /\ p = q)
  <2>1. t.out = s.out
    BY <1>1 DEF OnlyIn, Fields
  <2> QED BY <1>1, <1>2, <1>9, <2>1 DEF Says
<1> QED BY <1>1, <1>2, <1>3, <1>4, <1>5, <1>6, <1>7, <1>8, <1>9 DEF ReplicaInv
-----------------------------------------------------------------------------
(* PRE-PREPARE *)

\* From s to t the invariant is kept, nothing is undone, and t says nothing
\* of a key that s did not say, but for the pairs of C.
Moved(r, s, t, C) ==
  /\ ReplicaInv(r, t) /\ Grows(s, t)
  /\ \A k, q : Says(t, k, q) => Says(s, k, q) \/ <<k, q>> \in C

LEMMA VotedMoved ==
  ASSUME NEW r, NEW s, NEW t, NEW C, ReplicaInv(r, s), Voted(r, s, t)
  PROVE  Moved(r, s, t, C)
BY VoteStepGrows DEF Voted, Moved

LEMMA MovedTrans ==
  ASSUME NEW r, NEW s, NEW t, NEW u, NEW C, ReplicaInv(r, s),
         Moved(r, s, t, C), Moved(r, t, u, C)
  PROVE  Moved(r, s, u, C)
<1>1. s.next_sequence_number \in Nat
  BY DEF ReplicaInv, KeysInv
<1>2. Grows(s, u)
  BY <1>1, GrowsTrans DEF Moved
<1> QED BY <1>2 DEF Moved

LEMMA PrePrepareCallbackMoved ==
  ASSUME NEW r \in Replicas, NEW s, ReplicaInv(r, s), NEW m, m.type = "PRE-PREPARE",
         MessageOK(r, s, m)
  PROVE  Moved(r, s, PrePrepareCallback(s, r, m), {<<Key(m), m.req>>})
<1> DEFINE k == Key(m)
           C == {<<k, m.req>>}
           new == k \notin DOMAIN s.instances
           added == [s EXCEPT !.instances = With(@, k, m.req)]
           t == IF new THEN Arm(added, r) ELSE s
           u == [t EXCEPT !.current_key = k]
           v == ProcessPendingPrepares(u, r, k)
           w == IF Is(r, "early_commit") THEN SendEarlyCommit(v, r, k) ELSE v
           x == SendPrepare(w, r, k, FALSE)
           drop == \/ m.from # PrimaryForView(s.current_view)
                   \/ m.view # s.current_view
                   \/ m.seq = 0 \/ ~ m.valid
                   \/ ~ new /\ s.instances[k] # m.req
<1>1. CASE drop
  BY <1>1, VotedSame, VotedMoved DEF PrePrepareCallback
<1>2. CASE ~ drop
  <2>0. PrePrepareCallback(s, r, m) \in {u, w, x}
    BY <1>2 DEF PrePrepareCallback
  <2>1. k \in Nat \X Nat /\ Recent(s, k)
    BY <1>2 DEF MessageOK, Key, Recent
  <2>2. Moved(r, s, t, C) /\ k \in DOMAIN t.instances /\ Recent(t, k)
    <3>1. CASE new
      <4>1. /\ ReplicaInv(r, added) /\ Grows(s, added) /\ OnlyIn({"instances"}, s, added)
            /\ k \in DOMAIN added.instances
            /\ \A j, p : Says(added, j, p) => Says(s, j, p) \/ (j = k /\ p = m.req)
        <5>1. added = Added(s, k, m.req)
          BY DEF Added
        <5>2. k \in DOMAIN s.instances => s.instances[k] = m.req
          BY <3>1
        <5> HIDE DEF k, added
        <5> QED BY <2>1, <5>1, <5>2, AddInstance
      <4> HIDE DEF added, k
      <4>2. Moved(r, s, added, C) /\ Recent(added, k)
        BY <2>1, <4>1 DEF Moved, Recent, OnlyIn, Fields
      <4>3. Voted(r, added, t)
        BY <3>1, <4>1, ArmVoted
      <4> HIDE DEF t
      <4>4. Moved(r, added, t, C)
        BY <4>1, <4>3, VotedMoved
      <4>5. Moved(r, s, t, C)
        BY <4>2, <4>4, MovedTrans
      <4> QED BY <4>1, <4>2, <4>3, <4>5 DEF Voted, VoteStep, Recent
    <3>2. CASE ~ new
      BY <2>1, <3>2, VotedSame, VotedMoved
    <3> QED BY <3>1, <3>2
  <2> HIDE DEF t, k
  <2>3. ReplicaInv(r, t)
    BY <2>2 DEF Moved
  <2>4. Voted(r, t, u)
    BY <2>3, TimersVoted
  <2> HIDE DEF u
  <2>5. ReplicaInv(r, u) /\ k \in DOMAIN u.instances /\ Recent(u, k)
    BY <2>2, <2>4 DEF Voted, VoteStep, Recent
  <2>6. Voted(r, u, v)
    BY <2>5, ProcessPendingPreparesVoted
  <2> HIDE DEF v
  <2>7. ReplicaInv(r, v) /\ k \in DOMAIN v.instances /\ Recent(v, k)
    BY <2>5, <2>6 DEF Voted, VoteStep, Recent
  <2>8. Voted(r, v, w)
    BY <2>7, SendEarlyCommitVoted, VotedSame
  <2> HIDE DEF w
  <2>9. ReplicaInv(r, w) /\ k \in DOMAIN w.instances /\ Recent(w, k)
    BY <2>7, <2>8 DEF Voted, VoteStep, Recent
  <2>10. Voted(r, w, x)
    BY <2>9, SendPrepareVoted
  <2> HIDE DEF x
  <2>11. Voted(r, t, w)
    BY <2>4, <2>6, <2>8, VotedTrans
  <2>12. Voted(r, t, x)
    BY <2>10, <2>11, VotedTrans
  <2>13. Moved(r, t, u, C) /\ Moved(r, t, w, C) /\ Moved(r, t, x, C)
    BY <2>3, <2>4, <2>11, <2>12, VotedMoved
  <2>14. Moved(r, s, u, C) /\ Moved(r, s, w, C) /\ Moved(r, s, x, C)
    BY <2>2, <2>13, MovedTrans
  <2> QED BY <2>0, <2>14 DEF k
<1> QED BY <1>1, <1>2
-----------------------------------------------------------------------------
(* Requests and the installation of a view *)

\* The counterpart of Carry for steps outside the vote layer
LEMMA Keep ==
  ASSUME NEW r, NEW s, NEW t, ReplicaInv(r, s), Grows(s, t), KeysInv(t),
         t.prepare_senders = s.prepare_senders, t.commit_senders = s.commit_senders,
         t.pending_prepares \subseteq s.pending_prepares,
         t.pending_commits \subseteq s.pending_commits, t.committed = s.committed,
         IsFiniteSet(t.cached), IsFiniteSet(t.view_changes),
         \A m \in t.view_changes :
            \/ m \in s.view_changes
            \/ CertOK(r, t, m) /\ \A c \in m.cert : Cardinality(c.senders) >= PrepareThreshold,
         \A o \in t.out : /\ o \in s.out \/ MessageOK(r, t, o[2])
                          /\ Current(r, t, o[2])
  PROVE  ReplicaInv(r, t)
<1> USE DEF ReplicaInv
<1>1. SendersInv(r, t)
  BY GrowsKeepsEvidence DEF SendersInv, Grows
<1>2. CommittedInv(t)
  BY DEF CommittedInv
<1>3. ViewsInv(r, t)
  BY GrowsKeepsEvidence DEF ViewsInv
<1>4. OutInv(r, t)
  BY GrowsKeepsEvidence DEF OutInv
<1> QED BY <1>1, <1>2, <1>3, <1>4

Unseen == {"current_key", "timeout_view", "processed", "view_change_sent", "commit_sent",
           "accepted_new_views", "recovery_sent", "manual"}

LEMMA UnseenMoved ==
  ASSUME NEW r, NEW s, NEW t, NEW C, ReplicaInv(r, s), OnlyIn(Unseen, s, t)
  PROVE  Moved(r, s, t, C) /\ t.out = s.out /\ t.instances = s.instances
         /\ t.current_view = s.current_view /\ t.new_view_sent = s.new_view_sent
         /\ t.next_sequence_number = s.next_sequence_number
<1>1. /\ IsState(t) /\ t.current_view = s.current_view
      /\ t.next_sequence_number = s.next_sequence_number
      /\ t.cached = s.cached /\ t.instances = s.instances
      /\ t.view_changes = s.view_changes /\ t.new_view_sent = s.new_view_sent
      /\ t.recovery_timers = s.recovery_timers
      /\ t.prepare_sent = s.prepare_sent /\ t.prepared = s.prepared
      /\ t.prepare_scheduled = s.prepare_scheduled
      /\ t.commit_scheduled = s.commit_scheduled
      /\ t.prepare_senders = s.prepare_senders /\ t.commit_senders = s.commit_senders
      /\ t.pending_prepares = s.pending_prepares /\ t.pending_commits = s.pending_commits
      /\ t.committed = s.committed /\ t.out = s.out
  BY DEF OnlyIn, Fields, Unseen
<1>2. Grows(s, t) /\ KeysInv(t)
  BY <1>1 DEF Grows, ReplicaInv, KeysInv
<1>3. \A o \in t.out : o \in s.out /\ Current(r, t, o[2])
  BY <1>1 DEF ReplicaInv, OutInv, Current
<1>4. ReplicaInv(r, t)
  BY <1>1, <1>2, <1>3, Keep DEF ReplicaInv, ViewsInv
<1> QED BY <1>1, <1>2, <1>4 DEF Moved, Says

LEMMA CacheRequestMoved ==
  ASSUME NEW r, NEW s, NEW C, ReplicaInv(r, s), NEW q
  PROVE  LET t == CacheRequest(s, r, q)
         IN  /\ Moved(r, s, t, C) /\ t.out = s.out /\ t.instances = s.instances
             /\ t.current_view = s.current_view
             /\ t.next_sequence_number = s.next_sequence_number
<1>1. CASE q \in s.cached
  BY <1>1, VotedSame, VotedMoved DEF CacheRequest
<1>2. CASE q \notin s.cached
  <2> DEFINE x == s.cached \cup {q}
             t == [s EXCEPT !.cached = x]
             u == Arm(t, r)
  <2>0. IsState(s) /\ "cached" \in Fields /\ IsFiniteSet(x)
    BY FS_AddElement DEF ReplicaInv, KeysInv, ViewsInv, Fields
  <2>1. OnlyIn({"cached"}, s, t) /\ t.cached = x
    <3> HIDE DEF x
    <3> QED BY ONLY <2>0, SetField, Zenon
  <2>2. CacheRequest(s, r, q) = u
    BY <1>2 DEF CacheRequest
  <2> HIDE DEF x, t
  <2>3. /\ t.out = s.out /\ t.instances = s.instances /\ t.current_view = s.current_view
        /\ t.next_sequence_number = s.next_sequence_number
    BY <2>1 DEF OnlyIn, Fields
  <2>4. Grows(s, t) /\ KeysInv(t)
    BY <2>1 DEF OnlyIn, Fields, Grows, ReplicaInv, KeysInv
  <2>5. \A o \in t.out : o \in s.out /\ Current(r, t, o[2])
    BY <2>3 DEF ReplicaInv, OutInv, Current
  <2>6. ReplicaInv(r, t)
    <3>1. /\ t.prepare_senders = s.prepare_senders /\ t.commit_senders = s.commit_senders
          /\ t.pending_prepares = s.pending_prepares
          /\ t.pending_commits = s.pending_commits /\ t.committed = s.committed
          /\ t.view_changes = s.view_changes /\ IsFiniteSet(s.view_changes)
      BY <2>1 DEF OnlyIn, Fields, ReplicaInv, ViewsInv
    <3> QED BY <2>0, <2>1, <2>4, <2>5, <3>1, Keep
  <2>7. Moved(r, s, t, C)
    BY <2>3, <2>4, <2>6 DEF Moved, Says
  <2>8. u = t \/ u = [t EXCEPT !.timeout_view = t.current_view]
    BY DEF Arm
  <2>9. OnlyIn(Unseen, t, u)
    <3>1. IsState(t)
      BY <2>1 DEF OnlyIn
    <3> DEFINE y == t.current_view
    <3>2. OnlyIn({"timeout_view"}, t, [t EXCEPT !.timeout_view = y])
      <4>1. "timeout_view" \in Fields
        BY DEF Fields
      <4> HIDE DEF y
      <4> QED BY ONLY <3>1, <4>1, SetField, Zenon
    <3> HIDE DEF u
    <3> QED BY <2>8, <3>1, <3>2 DEF OnlyIn, Unseen
  <2> HIDE DEF u
  <2>10. /\ Moved(r, t, u, C) /\ u.out = t.out /\ u.instances = t.instances
         /\ u.current_view = t.current_view
         /\ u.next_sequence_number = t.next_sequence_number
    BY <2>6, <2>9, UnseenMoved
  <2> QED BY <2>2, <2>3, <2>7, <2>10, MovedTrans
<1> QED BY <1>1, <1>2

\* _cancel_obsolete_protocol_activity leaves nothing scheduled for an older view.
LEMMA CancelObsoleteFields ==
  ASSUME NEW r, NEW s, IsState(s), NEW v
  PROVE  LET t == CancelObsolete(s, r, v)
         IN  /\ OnlyIn({"prepare_scheduled", "commit_scheduled", "recovery_timers",
                        "pending_prepares", "pending_commits", "manual"}, s, t)
             /\ t.prepare_scheduled = s.prepare_scheduled \ Before(v, s.prepare_scheduled)
             /\ t.commit_scheduled = s.commit_scheduled \ Before(v, s.commit_scheduled)
             /\ t.recovery_timers \subseteq s.recovery_timers
             /\ t.pending_prepares \subseteq s.pending_prepares
             /\ t.pending_commits \subseteq s.pending_commits
<1> DEFINE a == s.prepare_scheduled \ Before(v, s.prepare_scheduled)
           b == s.commit_scheduled \ Before(v, s.commit_scheduled)
           c == s.recovery_timers \ Before(v, s.recovery_timers)
           d == s.pending_prepares \ BeforeMsgs(v, s.pending_prepares)
           e == s.pending_commits \ BeforeMsgs(v, s.pending_commits)
           g == s.manual /\ param[r].manual > v
           t == CancelObsolete(s, r, v)
<1>1. t = [s EXCEPT !.prepare_scheduled = a, !.commit_scheduled = b, !.recovery_timers = c,
                    !.pending_prepares = d, !.pending_commits = e, !.manual = g]
  BY DEF CancelObsolete
<1>2. c \subseteq s.recovery_timers /\ d \subseteq s.pending_prepares
      /\ e \subseteq s.pending_commits
  OBVIOUS
<1>3. /\ OnlyIn({"prepare_scheduled", "commit_scheduled", "recovery_timers",
                 "pending_prepares", "pending_commits", "manual"}, s, t)
      /\ t.prepare_scheduled = a /\ t.commit_scheduled = b /\ t.recovery_timers = c
      /\ t.pending_prepares = d /\ t.pending_commits = e
  <2> HIDE DEF a, b, c, d, e, g, t
  <2> QED BY <1>1 DEF IsState, Fields, OnlyIn
<1> QED BY <1>2, <1>3

Timed(s, x) == [s EXCEPT !.recovery_timers = x]

LEMMA RecoveryTimersMoved ==
  ASSUME NEW r, NEW s, NEW C, ReplicaInv(r, s), NEW x, x \subseteq DOMAIN s.instances
  PROVE  LET t == Timed(s, x)
         IN  /\ Moved(r, s, t, C) /\ t.out = s.out /\ t.instances = s.instances
             /\ t.new_view_sent = s.new_view_sent /\ IsState(t)
             /\ t.current_view = s.current_view
<1> DEFINE t == [s EXCEPT !.recovery_timers = x]
<1>1. IsState(s) /\ "recovery_timers" \in Fields
  BY DEF ReplicaInv, KeysInv, Fields
<1>2. OnlyIn({"recovery_timers"}, s, t) /\ t.recovery_timers = x
  BY ONLY <1>1, SetField, Zenon
<1> HIDE DEF t
<1>3. Grows(s, t) /\ KeysInv(t)
  BY <1>2 DEF OnlyIn, Fields, Grows, ReplicaInv, KeysInv
<1>4. /\ t.prepare_senders = s.prepare_senders /\ t.commit_senders = s.commit_senders
      /\ t.pending_prepares = s.pending_prepares
      /\ t.pending_commits = s.pending_commits /\ t.committed = s.committed
      /\ t.view_changes = s.view_changes /\ IsFiniteSet(s.view_changes)
      /\ t.cached = s.cached /\ IsFiniteSet(s.cached)
      /\ t.out = s.out /\ t.instances = s.instances /\ t.current_view = s.current_view
      /\ t.new_view_sent = s.new_view_sent /\ IsState(t)
  BY <1>2 DEF OnlyIn, Fields, ReplicaInv, ViewsInv
<1>5. \A o \in t.out : o \in s.out /\ Current(r, t, o[2])
  BY <1>4 DEF ReplicaInv, OutInv, Current
<1>6. ReplicaInv(r, t)
  BY <1>3, <1>4, <1>5, Keep
<1>7. Moved(r, s, t, C)
  BY <1>3, <1>4, <1>6 DEF Moved, Says
<1> QED BY <1>4, <1>7 DEF t, Timed

LEMMA ActivateMoved ==
  ASSUME NEW r, NEW s, ReplicaInv(r, s), s.out = {}, NEW v \in Nat, v > s.current_view,
         NEW c, c.seq \in Nat
  PROVE  Moved(r, s, Activate(s, r, v, c), {<<<<v, c.seq>>, c.req>>})
<1> DEFINE k == <<v, c.seq>>
           q == c.req
           C == {<<k, q>>}
           a == CancelObsolete(s, r, v)
           cached == s.cached \cup {q}
           instances == With(s.instances, k, q)
           processed == a.processed \cup {q}
           next == IF c.seq + 1 > s.next_sequence_number THEN c.seq + 1
                   ELSE s.next_sequence_number
           t == [a EXCEPT !.cached = cached, !.instances = instances,
                          !.processed = processed, !.current_view = v,
                          !.current_key = k, !.timeout_view = NoTimer,
                          !.next_sequence_number = next]
           u == Arm(t, r)
           w == ScheduleRecovery(u, r, k)
<1>1. CASE k \in DOMAIN s.instances /\ s.instances[k] # q
  BY <1>1, VotedSame, VotedMoved DEF Activate
<1>2. CASE ~ (k \in DOMAIN s.instances /\ s.instances[k] # q)
  <2>0. IsState(s) /\ s.next_sequence_number \in Nat /\ s.current_view \in Nat
        /\ DOMAIN s.instances \subseteq Nat \X Nat
    BY DEF ReplicaInv, KeysInv
  <2>1. /\ OnlyIn({"prepare_scheduled", "commit_scheduled", "recovery_timers",
                   "pending_prepares", "pending_commits", "manual"}, s, a)
        /\ a.prepare_scheduled = s.prepare_scheduled \ Before(v, s.prepare_scheduled)
        /\ a.commit_scheduled = s.commit_scheduled \ Before(v, s.commit_scheduled)
        /\ a.recovery_timers \subseteq s.recovery_timers
        /\ a.pending_prepares \subseteq s.pending_prepares
        /\ a.pending_commits \subseteq s.pending_commits
    BY <2>0, CancelObsoleteFields
  <2>2. Activate(s, r, v, c) = w
    <3>1. /\ a.cached = s.cached /\ a.instances = s.instances
          /\ a.next_sequence_number = s.next_sequence_number
      BY <2>1 DEF OnlyIn, Fields
    <3> HIDE DEF a
    <3> QED BY <1>2, <3>1 DEF Activate, a
  <2>3. IsFiniteSet(cached) /\ next \in Nat /\ next >= s.next_sequence_number
    BY <2>0, FS_AddElement DEF ReplicaInv, ViewsInv
  <2>4. /\ DOMAIN instances = DOMAIN s.instances \cup {k} /\ instances[k] = q
        /\ \A j \in DOMAIN s.instances : instances[j] = s.instances[j]
    BY <1>2 DEF With
  <2>5. k \in Nat \X Nat /\ k[1] = v
    OBVIOUS
  <2> HIDE DEF a, cached, instances, processed, next, k, q
  <2>6. /\ OnlyIn({"cached", "instances", "processed", "current_view", "current_key",
                   "timeout_view", "next_sequence_number"}, a, t)
        /\ t.cached = cached /\ t.instances = instances /\ t.current_view = v
        /\ t.next_sequence_number = next
    BY <2>1 DEF OnlyIn, IsState, Fields
  <2> HIDE DEF t
  <2>7. /\ t.prepare_sent = s.prepare_sent /\ t.prepared = s.prepared
        /\ t.committed = s.committed /\ t.out = s.out
        /\ t.prepare_senders = s.prepare_senders /\ t.commit_senders = s.commit_senders
        /\ t.view_changes = s.view_changes /\ t.new_view_sent = s.new_view_sent
        /\ t.prepare_scheduled = s.prepare_scheduled \ Before(v, s.prepare_scheduled)
        /\ t.commit_scheduled = s.commit_scheduled \ Before(v, s.commit_scheduled)
        /\ t.recovery_timers \subseteq s.recovery_timers
        /\ t.pending_prepares \subseteq s.pending_prepares
        /\ t.pending_commits \subseteq s.pending_commits
        /\ IsState(t)
    BY <2>1, <2>6 DEF OnlyIn, Fields
  <2>8. Grows(s, t)
    BY <2>0, <2>3, <2>4, <2>6, <2>7 DEF Grows
  <2>9. KeysInv(t)
    <3>1. \A j \in s.prepare_scheduled \cup s.commit_scheduled :
             j \in DOMAIN s.instances /\ j \in Nat \X Nat
      BY DEF ReplicaInv, KeysInv
    <3>2. \A j \in t.prepare_scheduled \cup t.commit_scheduled :
             j \in DOMAIN t.instances /\ j[1] >= v
      BY <2>4, <2>6, <2>7, <3>1 DEF Before
    <3> QED BY <2>0, <2>3, <2>4, <2>5, <2>6, <2>7, <3>2 DEF ReplicaInv, KeysInv
  <2>10. ReplicaInv(r, t)
    <3>1. IsFiniteSet(t.cached) /\ IsFiniteSet(t.view_changes) /\ t.out = {}
      BY <2>3, <2>6, <2>7 DEF ReplicaInv, ViewsInv
    <3> QED BY <2>7, <2>8, <2>9, <3>1, Keep
  <2>11. Moved(r, s, t, C)
    <3>1. ASSUME NEW j, NEW p, Says(t, j, p) PROVE Says(s, j, p) \/ <<j, p>> \in C
      BY <2>4, <2>6, <2>7, <3>1 DEF Says
    <3> QED BY <2>8, <2>10, <3>1 DEF Moved
  <2>12. Voted(r, t, u)
    BY <2>10, ArmVoted
  <2> HIDE DEF u
  <2>13. ReplicaInv(r, u) /\ k \in DOMAIN u.instances
    BY <2>4, <2>6, <2>12 DEF Voted, VoteStep
  <2>14. Moved(r, s, u, C)
    BY <2>10, <2>11, <2>12, VotedMoved, MovedTrans
  <2>15. Moved(r, u, w, C)
    <3>1. CASE w = u
      BY <2>13, <3>1, VotedSame, VotedMoved
    <3>2. CASE w # u
      <4>1. w = Timed(u, u.recovery_timers \cup {k})
        BY <3>2 DEF ScheduleRecovery, Timed
      <4>2. u.recovery_timers \cup {k} \subseteq DOMAIN u.instances
        BY <2>13 DEF ReplicaInv, KeysInv
      <4> QED BY <2>13, <4>1, <4>2, RecoveryTimersMoved
    <3> QED BY <3>1, <3>2
  <2>16. Moved(r, s, w, C)
    BY <2>14, <2>15, MovedTrans
  <2> QED BY <2>2, <2>16 DEF k, q
<1> QED BY <1>1, <1>2

LEMMA NewViewCallbackMoved ==
  ASSUME NEW r, NEW s, ReplicaInv(r, s), s.out = {}, NEW m, m.type = "NEW-VIEW",
         MessageOK(r, s, m)
  PROVE  Moved(r, s, NewViewCallback(s, r, m),
               {<<<<m.new_view, c.seq>>, c.req>> : c \in m.choice})
<1> DEFINE v == m.new_view
           C == {<<<<v, c.seq>>, c.req>> : c \in m.choice}
           e == CHOOSE c \in m.choice : TRUE
           x == s.accepted_new_views \cup {v}
           t == [s EXCEPT !.accepted_new_views = x]
<1>1. CASE v \in s.accepted_new_views \/ ~ ValidNewView(s, m)
  BY <1>1, VotedSame, VotedMoved DEF NewViewCallback
<1>2. CASE ~ (v \in s.accepted_new_views \/ ~ ValidNewView(s, m))
  <2>1. NewViewCallback(s, r, m) = Activate(t, r, v, e)
    BY <1>2 DEF NewViewCallback
  <2>2. e \in m.choice /\ v > s.current_view
    BY <1>2 DEF ValidNewView, ValidProof
  <2>3. v \in Nat /\ e.seq \in Nat
    BY <2>2 DEF MessageOK
  <2>4. IsState(s) /\ "accepted_new_views" \in Fields
    BY DEF ReplicaInv, KeysInv, Fields
  <2>5. OnlyIn({"accepted_new_views"}, s, t)
    <3> HIDE DEF x
    <3> QED BY ONLY <2>4, SetField, Zenon
  <2> HIDE DEF t, e
  <2>6. OnlyIn(Unseen, s, t)
    BY <2>5 DEF OnlyIn, Unseen
  <2>7. Moved(r, s, t, C) /\ t.out = s.out /\ t.current_view = s.current_view
    BY <2>6, UnseenMoved
  <2>8. Moved(r, t, Activate(t, r, v, e), {<<<<v, e.seq>>, e.req>>})
    BY <2>2, <2>3, <2>7, ActivateMoved DEF Moved
  <2>9. Moved(r, t, Activate(t, r, v, e), C)
    BY <2>2, <2>8 DEF Moved
  <2> QED BY <2>1, <2>7, <2>9, MovedTrans
<1> QED BY <1>1, <1>2

\* A publication that is no vote
LEMMA PublishMoved ==
  ASSUME NEW r, NEW s, NEW C, ReplicaInv(r, s), NEW dests, NEW m, MessageOK(r, s, m),
         m.type \notin {"PREPARE", "COMMIT"},
         m.type = "PRE-PREPARE" => Says(s, Key(m), m.req) \/ <<Key(m), m.req>> \in C,
         m.type = "NEW-VIEW" => \A c \in m.choice : <<<<m.new_view, c.seq>>, c.req>> \in C
  PROVE  /\ Moved(r, s, Publish(s, dests, m), C)
         /\ OnlyIn({"out"}, s, Publish(s, dests, m))
<1> DEFINE x == s.out \cup {<<d, m>> : d \in dests}
           t == [s EXCEPT !.out = x]
<1>0. Publish(s, dests, m) = t
  BY DEF Publish
<1>1. IsState(s) /\ "out" \in Fields
  BY DEF ReplicaInv, KeysInv, Fields
<1>2. \A o \in x : o \in s.out \/ o[2] = m
  OBVIOUS
<1> HIDE DEF x
<1>3. OnlyIn({"out"}, s, t) /\ t.out = x
  BY ONLY <1>1, SetField, Zenon
<1> HIDE DEF t
<1>4. Grows(s, t) /\ KeysInv(t)
  BY <1>3 DEF OnlyIn, Fields, Grows, ReplicaInv, KeysInv
<1>5. /\ t.prepare_senders = s.prepare_senders /\ t.commit_senders = s.commit_senders
      /\ t.pending_prepares = s.pending_prepares
      /\ t.pending_commits = s.pending_commits /\ t.committed = s.committed
      /\ t.view_changes = s.view_changes /\ IsFiniteSet(s.view_changes)
      /\ t.cached = s.cached /\ IsFiniteSet(s.cached)
      /\ t.instances = s.instances /\ t.current_view = s.current_view
  BY <1>3 DEF OnlyIn, Fields, ReplicaInv, ViewsInv
<1>6. MessageOK(r, t, m)
  BY <1>4, GrowsKeepsEvidence
<1>7. \A o \in t.out : /\ o \in s.out \/ MessageOK(r, t, o[2])
                       /\ Current(r, t, o[2])
  BY <1>2, <1>3, <1>5, <1>6 DEF ReplicaInv, OutInv, Current
<1>8. ReplicaInv(r, t)
  BY <1>4, <1>5, <1>7, Keep
<1>9. ASSUME NEW j, NEW p, Says(t, j, p) PROVE Says(s, j, p) \/ <<j, p>> \in C
  BY <1>2, <1>3, <1>5, <1>9 DEF Says
<1> QED BY <1>0, <1>3, <1>4, <1>8, <1>9 DEF Moved

\* _publish_recovery_pre_prepare announces an instance that is known.
LEMMA RecoveryMoved ==
  ASSUME NEW r, NEW s, ReplicaInv(r, s), NEW C, NEW k, k \in s.recovery_timers
  PROVE  LET a == [s EXCEPT !.recovery_timers = @ \ {k}]
         IN  /\ Moved(r, s, a, C)
             /\ Moved(r, s,
                  Arm(Publish([a EXCEPT !.recovery_sent = @ \cup {k}, !.current_key = k],
                              Replicas, PrePrepare(r, k, a.instances[k])), r), C)
<1> DEFINE x == s.recovery_timers \ {k}
           a == [s EXCEPT !.recovery_timers = x]
           y == a.recovery_sent \cup {k}
           b == [a EXCEPT !.recovery_sent = y, !.current_key = k]
           m == PrePrepare(r, k, a.instances[k])
           c == Publish(b, Replicas, m)
<1>1. k \in DOMAIN s.instances /\ k \in Nat \X Nat /\ x \subseteq DOMAIN s.instances
  BY DEF ReplicaInv, KeysInv
<1>2. Moved(r, s, a, C) /\ a.instances = s.instances /\ IsState(a)
  <2>1. a = Timed(s, x)
    BY DEF Timed
  <2> HIDE DEF x, a
  <2> QED BY <1>1, <2>1, RecoveryTimersMoved
<1> HIDE DEF a
<1>3. OnlyIn(Unseen, a, b)
  <2> HIDE DEF y
  <2> QED BY <1>2 DEF IsState, Fields, OnlyIn, Unseen
<1>4. ReplicaInv(r, a)
  BY <1>2 DEF Moved
<1> HIDE DEF b
<1>5. Moved(r, a, b, C) /\ b.instances = a.instances
  BY <1>3, <1>4, UnseenMoved
<1>6. ReplicaInv(r, b)
  BY <1>5 DEF Moved
<1>7. /\ m.type = "PRE-PREPARE" /\ Key(m) = k /\ m.req = b.instances[k]
      /\ m.view \in Nat /\ m.seq \in Nat
  BY <1>1, <1>5 DEF PrePrepare, Vote, Key
<1>8. MessageOK(r, b, m) /\ Says(b, Key(m), m.req)
  BY <1>1, <1>2, <1>5, <1>7 DEF MessageOK, Says
<1> HIDE DEF m
<1>9. Moved(r, b, c, C)
  BY <1>6, <1>7, <1>8, PublishMoved
<1> HIDE DEF c
<1>10. ReplicaInv(r, c)
  BY <1>9 DEF Moved
<1>11. Moved(r, c, Arm(c, r), C)
  BY <1>10, ArmVoted, VotedMoved
<1>12. Moved(r, s, b, C)
  BY <1>2, <1>5, MovedTrans
<1>13. Moved(r, s, c, C)
  BY <1>9, <1>12, MovedTrans
<1>14. Moved(r, s, Arm(c, r), C)
  BY <1>11, <1>13, MovedTrans
<1> QED BY <1>2, <1>14 DEF a, b, c, m
-----------------------------------------------------------------------------
(* New numbers *)

\* Replica r may give the key k to the request q: as the primary of view 0 it
\* uses its next number, as the primary of a later view it publishes the
\* one NEW-VIEW of that view.
Creates(r, s, t, k, q) ==
  \/ /\ r = 0 /\ k = <<0, s.next_sequence_number>>
     /\ k \in DOMAIN t.instances /\ t.instances[k] = q
     /\ t.next_sequence_number > s.next_sequence_number
  \/ /\ k \in Nat \X Nat /\ k[1] > 0 /\ r = PrimaryForView(k[1])
     /\ k[1] \notin s.new_view_sent /\ k[1] \in t.new_view_sent

\* What a callback of replica r may do to its state
Handled(r, s, t) ==
  \E k, q : \/ Moved(r, s, t, {})
            \/ Moved(r, s, t, {<<k, q>>}) /\ Creates(r, s, t, k, q)

LEMMA PrimaryOfViewZero == PrimaryForView(0) = 0
BY PBFTAssumption DEF PrimaryForView, N

LEMMA RequestCallbackMoved ==
  ASSUME NEW r, NEW s, ReplicaInv(r, s), NEW m, m.type = "REQUEST", MessageOK(r, s, m),
         r = 0 => <<0, s.next_sequence_number>> \notin DOMAIN s.instances
  PROVE  Handled(r, s, RequestCallback(s, r, m))
<1> DEFINE q == m.req
           a == CacheRequest(s, r, q)
           t == RequestCallback(s, r, m)
           k == <<a.current_view, a.next_sequence_number>>
           C == {<<k, q>>}
           instances == With(a.instances, k, q)
           next == a.next_sequence_number + 1
           processed == a.processed \cup {q}
           b == [a EXCEPT !.next_sequence_number = next, !.instances = instances,
                          !.processed = processed, !.current_key = k]
           n == PrePrepare(r, k, q)
           c == Publish(b, Replicas, n)
           d == Arm(c, r)
<1>1. \A D : /\ Moved(r, s, a, D) /\ a.instances = s.instances
             /\ a.current_view = s.current_view
             /\ a.next_sequence_number = s.next_sequence_number
  BY CacheRequestMoved
<1>2. ReplicaInv(r, a)
  BY <1>1 DEF Moved
<1>3. CASE m.view # s.current_view
  <2>1. t = s
    BY <1>3 DEF RequestCallback
  <2> QED BY <2>1, VotedSame, VotedMoved DEF Handled
<1>4. CASE m.view = s.current_view /\ (~ IsPrimary(s, r) \/ q \in s.processed)
  <2>1. t = a
    BY <1>4 DEF RequestCallback
  <2> HIDE DEF a
  <2> QED BY <1>1, <2>1 DEF Handled
<1>5. CASE /\ m.view = s.current_view /\ IsPrimary(s, r) /\ q \notin s.processed
           /\ Is(r, "skip_pre_prepare")
  <2>1. t = [a EXCEPT !.processed = processed]
    BY <1>5 DEF RequestCallback
  <2>2. IsState(a) /\ "processed" \in Fields /\ "processed" \in Unseen
    BY <1>2 DEF ReplicaInv, KeysInv, Fields, Unseen
  <2> HIDE DEF t, a, processed
  <2>3. OnlyIn({"processed"}, a, t)
    BY ONLY <2>1, <2>2, SetField, Zenon
  <2>4. OnlyIn(Unseen, a, t)
    BY <2>2, <2>3 DEF OnlyIn
  <2>5. Moved(r, a, t, {})
    BY <1>2, <2>4, UnseenMoved
  <2>6. Moved(r, s, t, {})
    BY <1>1, <2>5, MovedTrans
  <2> QED BY <2>6 DEF t, Handled
<1>6. CASE /\ m.view = s.current_view /\ IsPrimary(s, r) /\ q \notin s.processed
           /\ ~ Is(r, "skip_pre_prepare")
  <2>1. t = d
    BY <1>6 DEF RequestCallback, ProcessCachedRequestAsPrimary
  <2>2. /\ r = 0 /\ k = <<0, s.next_sequence_number>>
        /\ k \in Nat \X Nat /\ k \notin DOMAIN a.instances
        /\ next \in Nat /\ next > s.next_sequence_number
    BY <1>1, <1>2, <1>6, PrimaryOfViewZero DEF MessageOK, IsPrimary, ReplicaInv, KeysInv
  <2>3. /\ DOMAIN instances = DOMAIN a.instances \cup {k} /\ instances[k] = q
        /\ \A j \in DOMAIN a.instances : instances[j] = a.instances[j]
    BY <2>2 DEF With
  <2>4. IsState(a)
    BY <1>2 DEF ReplicaInv, KeysInv
  <2> HIDE DEF t, a, k, instances, next, processed, q
  <2>5. /\ OnlyIn({"next_sequence_number", "instances", "processed", "current_key"}, a, b)
        /\ b.next_sequence_number = next /\ b.instances = instances
    BY <2>4 DEF IsState, Fields, OnlyIn
  <2> HIDE DEF b
  <2>6. Grows(a, b) /\ KeysInv(b)
    BY <1>1, <1>2, <2>2, <2>3, <2>5 DEF OnlyIn, Fields, Grows, ReplicaInv, KeysInv
  <2>7. /\ b.prepare_senders = a.prepare_senders /\ b.commit_senders = a.commit_senders
        /\ b.pending_prepares = a.pending_prepares
        /\ b.pending_commits = a.pending_commits /\ b.committed = a.committed
        /\ b.view_changes = a.view_changes /\ IsFiniteSet(a.view_changes)
        /\ b.cached = a.cached /\ IsFiniteSet(a.cached)
        /\ b.out = a.out /\ b.current_view = a.current_view
    BY <1>2, <2>5 DEF OnlyIn, Fields, ReplicaInv, ViewsInv
  <2>8. \A o \in b.out : o \in a.out /\ Current(r, b, o[2])
    BY <1>2, <2>7 DEF ReplicaInv, OutInv, Current
  <2>9. ReplicaInv(r, b)
    BY <1>2, <2>6, <2>7, <2>8, Keep
  <2>10. Moved(r, a, b, C)
    BY <2>3, <2>5, <2>6, <2>7, <2>9 DEF Moved, Says
  <2>11. /\ n.type = "PRE-PREPARE" /\ Key(n) = k /\ n.req = q
         /\ n.view \in Nat /\ n.seq \in Nat
    BY <2>2 DEF PrePrepare, Vote, Key
  <2>12. MessageOK(r, b, n)
    BY <2>11 DEF MessageOK
  <2> HIDE DEF n
  <2>13. Moved(r, b, c, C) /\ OnlyIn({"out"}, b, c)
    BY <2>9, <2>11, <2>12, PublishMoved
  <2> HIDE DEF c
  <2>14. ReplicaInv(r, c)
    BY <2>13 DEF Moved
  <2>15. Voted(r, c, d)
    BY <2>14, ArmVoted
  <2> HIDE DEF d
  <2>16. Moved(r, c, d, C)
    BY <2>14, <2>15, VotedMoved
  <2>17. Moved(r, s, b, C)
    BY <1>1, <2>10, MovedTrans
  <2>18. Moved(r, s, c, C)
    BY <2>13, <2>17, MovedTrans
  <2>19. Moved(r, s, d, C)
    BY <2>16, <2>18, MovedTrans
  <2>20. d.instances = instances /\ d.next_sequence_number = next
    BY <2>5, <2>13, <2>15 DEF OnlyIn, Fields, Voted, VoteStep
  <2>21. Creates(r, s, d, k, q)
    BY <2>2, <2>3, <2>20 DEF Creates
  <2>22. Moved(r, s, t, {<<k, q>>}) /\ Creates(r, s, t, k, q)
    BY <2>1, <2>19, <2>21
  <2> QED BY <2>22 DEF t, Handled
<1> QED BY <1>3, <1>4, <1>5, <1>6
-----------------------------------------------------------------------------
(* VIEW-CHANGE and NEW-VIEW *)

\* _select_request_for_new_view selects one request or none.
LEMMA SelectRequestOne ==
  ASSUME NEW r, NEW s, ReplicaInv(r, s), NEW proof, proof \subseteq s.view_changes,
         SelectRequest(s, proof) # {}
  PROVE  \E c : SelectRequest(s, proof) = {c} /\ c.seq \in Nat
<1> DEFINE certs == UNION {m.cert : m \in proof}
           highest == {c \in certs : \A d \in certs : d.view <= c.view}
           Choice(c) == [prepared |-> TRUE, view |-> c.view, seq |-> c.seq, req |-> c.req]
           choices == {Choice(c) : c \in highest}
           eligible == s.cached \ {s.instances[k] : k \in s.committed \cap DOMAIN s.instances}
           Fresh(q) == [prepared |-> FALSE, view |-> 0, seq |-> s.next_sequence_number,
                        req |-> q]
<1>1. /\ IsFiniteSet(s.cached) /\ IsFiniteSet(s.view_changes)
      /\ \A m \in proof : CertOK(r, s, m)
      /\ s.next_sequence_number \in Nat
  BY DEF ReplicaInv, ViewsInv, KeysInv
<1>2. CASE certs # {}
  <2>1. SelectRequest(s, proof) = choices /\ Cardinality(choices) = 1
    BY <1>2 DEF SelectRequest
  <2>2. IsFiniteSet(certs)
    <3> DEFINE named == {m \in proof : m.cert # {}}
               f == [m \in named |-> CHOOSE c \in m.cert : TRUE]
    <3>1. IsFiniteSet(named)
      BY <1>1, FS_Subset
    <3>2. \A m \in named : f[m] \in m.cert /\ \A c \in m.cert : c = f[m]
      BY <1>1 DEF CertOK
    <3>3. f \in [named -> certs]
      BY <3>2
    <3>4. \A c \in certs : \E m \in named : f[m] = c
      <4> SUFFICES ASSUME NEW c \in certs PROVE \E m \in named : f[m] = c
        OBVIOUS
      <4>1. PICK m \in proof : c \in m.cert
        OBVIOUS
      <4> HIDE DEF f
      <4> QED BY <3>2, <4>1
    <3>5. f \in Surjection(named, certs)
      <4> HIDE DEF f, named, certs
      <4> QED BY <3>3, <3>4 DEF Surjection
    <3> QED BY <3>1, <3>5, FS_Surjection
  <2>3. IsFiniteSet(highest)
    BY <2>2, FS_Subset
  <2>4. IsFiniteSet(choices)
    <3> DEFINE g == [c \in highest |-> Choice(c)]
    <3>1. g \in Surjection(highest, choices)
      <4> HIDE DEF highest
      <4> QED BY DEF Surjection
    <3> QED BY <2>3, <3>1, FS_Surjection
  <2>5. PICK x : choices = {x}
    BY <2>1, <2>4, FS_Singleton
  <2>6. PICK c \in highest : x = Choice(c)
    BY <2>5
  <2>7. x.seq \in Nat
    <3>1. c.seq \in Nat
      BY <1>1 DEF CertOK
    <3> QED BY <2>6, <3>1
  <2> QED BY <2>1, <2>5, <2>7
<1>3. CASE certs = {}
  <2>1. /\ SelectRequest(s, proof) = {Fresh(q) : q \in eligible}
        /\ Cardinality(eligible) = 1
    BY <1>3 DEF SelectRequest
  <2>2. IsFiniteSet(eligible)
    BY <1>1, FS_Subset
  <2>3. PICK q : eligible = {q}
    BY <2>1, <2>2, FS_Singleton
  <2>4. SelectRequest(s, proof) = {Fresh(q)}
    <3> HIDE DEF eligible
    <3> QED BY <2>1, <2>3
  <2>5. Fresh(q).seq = s.next_sequence_number
    OBVIOUS
  <2> HIDE DEF Fresh
  <2> QED BY <1>1, <2>4, <2>5
<1> QED BY <1>2, <1>3

Sent(s, v) == [s EXCEPT !.new_view_sent = @ \cup {v}]

LEMMA NewViewSentMoved ==
  ASSUME NEW r, NEW s, NEW C, ReplicaInv(r, s), NEW v
  PROVE  Moved(r, s, Sent(s, v), C) /\ v \in Sent(s, v).new_view_sent
<1> DEFINE x == s.new_view_sent \cup {v}
           t == [s EXCEPT !.new_view_sent = x]
<1>1. IsState(s) /\ "new_view_sent" \in Fields /\ Sent(s, v) = t
  BY DEF ReplicaInv, KeysInv, Fields, Sent
<1> HIDE DEF x
<1>2. OnlyIn({"new_view_sent"}, s, t) /\ t.new_view_sent = x
  BY ONLY <1>1, SetField, Zenon
<1> HIDE DEF t
<1>3. Grows(s, t) /\ KeysInv(t)
  BY <1>2 DEF OnlyIn, Fields, Grows, ReplicaInv, KeysInv, x
<1>4. /\ t.prepare_senders = s.prepare_senders /\ t.commit_senders = s.commit_senders
      /\ t.pending_prepares = s.pending_prepares
      /\ t.pending_commits = s.pending_commits /\ t.committed = s.committed
      /\ t.view_changes = s.view_changes /\ IsFiniteSet(s.view_changes)
      /\ t.cached = s.cached /\ IsFiniteSet(s.cached)
      /\ t.out = s.out /\ t.instances = s.instances /\ t.current_view = s.current_view
  BY <1>2 DEF OnlyIn, Fields, ReplicaInv, ViewsInv
<1>5. \A o \in t.out : o \in s.out /\ Current(r, t, o[2])
  BY <1>4 DEF ReplicaInv, OutInv, Current
<1>6. ReplicaInv(r, t)
  BY <1>3, <1>4, <1>5, Keep
<1>7. Moved(r, s, t, C)
  BY <1>3, <1>4, <1>6 DEF Moved, Says
<1> QED BY <1>1, <1>2, <1>7 DEF x

LEMMA MaybePublishNewViewHandled ==
  ASSUME NEW r, NEW s, ReplicaInv(r, s), NEW v \in Nat
  PROVE  Handled(r, s, MaybePublishNewView(s, r, v))
<1> DEFINE proof == {m \in s.view_changes : m.new_view = v}
           choice == SelectRequest(s, proof)
           a == Sent(s, v)
           m == NewView(r, v, proof, choice)
           t == Publish(a, Replicas, m)
           drop == \/ v <= s.current_view
                   \/ r # PrimaryForView(v)
                   \/ v \in s.new_view_sent
                   \/ Cardinality(proof) < ViewChangeThreshold
                   \/ choice = {}
<1>1. CASE drop
  <2>1. MaybePublishNewView(s, r, v) = s
    BY <1>1 DEF MaybePublishNewView
  <2> QED BY <2>1, VotedSame, VotedMoved DEF Handled
<1>2. CASE ~ drop
  <2>1. MaybePublishNewView(s, r, v) = t
    BY <1>2 DEF MaybePublishNewView, Sent
  <2>2. PICK c : choice = {c} /\ c.seq \in Nat
    <3>1. proof \subseteq s.view_changes
      OBVIOUS
    <3> HIDE DEF proof
    <3> QED BY <1>2, <3>1, SelectRequestOne
  <2> DEFINE k == <<v, c.seq>>
             C == {<<k, c.req>>}
  <2>3. v > 0
    BY <1>2 DEF ReplicaInv, KeysInv
  <2>4. Moved(r, s, a, C) /\ v \in a.new_view_sent
    BY NewViewSentMoved
  <2>5. ReplicaInv(r, a)
    BY <2>4 DEF Moved
  <2> HIDE DEF a
  <2>6. m.type = "NEW-VIEW" /\ m.new_view = v /\ m.choice = {c}
    BY <2>2 DEF NewView
  <2> HIDE DEF m
  <2>7. MessageOK(r, a, m)
    BY <2>2, <2>3, <2>6 DEF MessageOK
  <2>8. Moved(r, a, t, C) /\ OnlyIn({"out"}, a, t)
    BY <2>5, <2>6, <2>7, PublishMoved
  <2> HIDE DEF t
  <2>9. Moved(r, s, t, C)
    BY <2>4, <2>8, MovedTrans
  <2>10. Creates(r, s, t, k, c.req)
    BY <1>2, <2>2, <2>3, <2>4, <2>8 DEF Creates, OnlyIn, Fields
  <2> QED BY <2>1, <2>9, <2>10 DEF Handled
<1> QED BY <1>1, <1>2

\* A step that says nothing new before, or after, one that does
LEMMA MovedHandled ==
  ASSUME NEW r, NEW s, NEW t, NEW u, ReplicaInv(r, s), \A C : Moved(r, s, t, C),
         t.next_sequence_number = s.next_sequence_number,
         t.new_view_sent = s.new_view_sent, Handled(r, t, u)
  PROVE  Handled(r, s, u)
<1>1. PICK k, q : \/ Moved(r, t, u, {})
                  \/ Moved(r, t, u, {<<k, q>>}) /\ Creates(r, t, u, k, q)
  BY DEF Handled
<1>2. CASE Moved(r, t, u, {})
  <2>1. Moved(r, s, u, {})
    BY <1>2, MovedTrans
  <2> QED BY <2>1 DEF Handled
<1>3. CASE Moved(r, t, u, {<<k, q>>}) /\ Creates(r, t, u, k, q)
  <2>1. Moved(r, s, u, {<<k, q>>})
    BY <1>3, MovedTrans
  <2>2. Creates(r, s, u, k, q)
    BY <1>3 DEF Creates
  <2> QED BY <2>1, <2>2 DEF Handled
<1> QED BY <1>1, <1>2, <1>3

LEMMA HandledMoved ==
  ASSUME NEW r, NEW s, NEW t, NEW u, ReplicaInv(r, s), Handled(r, s, t),
         \A C : Moved(r, t, u, C), u.instances = t.instances,
         u.next_sequence_number = t.next_sequence_number, u.new_view_sent = t.new_view_sent
  PROVE  Handled(r, s, u)
<1>1. PICK k, q : \/ Moved(r, s, t, {})
                  \/ Moved(r, s, t, {<<k, q>>}) /\ Creates(r, s, t, k, q)
  BY DEF Handled
<1>2. CASE Moved(r, s, t, {})
  <2>1. Moved(r, s, u, {})
    BY <1>2, MovedTrans
  <2> QED BY <2>1 DEF Handled
<1>3. CASE Moved(r, s, t, {<<k, q>>}) /\ Creates(r, s, t, k, q)
  <2>1. Moved(r, s, u, {<<k, q>>})
    BY <1>3, MovedTrans
  <2>2. Creates(r, s, u, k, q)
    BY <1>3 DEF Creates
  <2> QED BY <2>1, <2>2 DEF Handled
<1> QED BY <1>1, <1>2, <1>3

Received(s, m) == [s EXCEPT !.view_changes = @ \cup {m}]

LEMMA ReceivedMoved ==
  ASSUME NEW r, NEW s, NEW C, ReplicaInv(r, s), NEW m, CertOK(r, s, m),
         \A c \in m.cert : Cardinality(c.senders) >= PrepareThreshold
  PROVE  /\ Moved(r, s, Received(s, m), C)
         /\ OnlyIn({"view_changes"}, s, Received(s, m))
<1> DEFINE x == s.view_changes \cup {m}
           t == [s EXCEPT !.view_changes = x]
<1>1. IsState(s) /\ "view_changes" \in Fields /\ Received(s, m) = t
  BY DEF ReplicaInv, KeysInv, Fields, Received
<1>2. IsFiniteSet(x)
  BY FS_AddElement DEF ReplicaInv, ViewsInv
<1> HIDE DEF x
<1>3. OnlyIn({"view_changes"}, s, t) /\ t.view_changes = x
  BY ONLY <1>1, SetField, Zenon
<1> HIDE DEF t
<1>4. Grows(s, t) /\ KeysInv(t)
  BY <1>3 DEF OnlyIn, Fields, Grows, ReplicaInv, KeysInv
<1>5. /\ t.prepare_senders = s.prepare_senders /\ t.commit_senders = s.commit_senders
      /\ t.pending_prepares = s.pending_prepares
      /\ t.pending_commits = s.pending_commits /\ t.committed = s.committed
      /\ t.cached = s.cached /\ IsFiniteSet(s.cached)
      /\ t.out = s.out /\ t.instances = s.instances /\ t.current_view = s.current_view
  BY <1>3 DEF OnlyIn, Fields, ReplicaInv, ViewsInv
<1>6. \A o \in t.out : o \in s.out /\ Current(r, t, o[2])
  BY <1>5 DEF ReplicaInv, OutInv, Current
<1>7. CertOK(r, t, m)
  BY <1>4, GrowsKeepsEvidence
<1>8. ReplicaInv(r, t)
  BY <1>2, <1>3, <1>4, <1>5, <1>6, <1>7, Keep DEF x
<1>9. Moved(r, s, t, C)
  BY <1>4, <1>5, <1>8 DEF Moved, Says
<1> QED BY <1>1, <1>3, <1>9

LEMMA ViewChangeCallbackHandled ==
  ASSUME NEW r, NEW s, ReplicaInv(r, s), NEW m, CertOK(r, s, m)
  PROVE  Handled(r, s, ViewChangeCallback(s, r, m))
<1> DEFINE drop == \/ m.new_view <= s.current_view
                   \/ ~ ValidCertificate(m)
                   \/ \E p \in s.view_changes : p.new_view = m.new_view /\ p.from = m.from
           t == Received(s, m)
<1>1. CASE drop
  <2>1. ViewChangeCallback(s, r, m) = s
    BY <1>1 DEF ViewChangeCallback
  <2> QED BY <2>1, VotedSame, VotedMoved DEF Handled
<1>2. CASE ~ drop
  <2>1. ViewChangeCallback(s, r, m) = MaybePublishNewView(t, r, m.new_view)
    BY <1>2 DEF ViewChangeCallback, Received
  <2>2. \A c \in m.cert : Cardinality(c.senders) >= PrepareThreshold
    BY <1>2 DEF ValidCertificate
  <2>3. (\A C : Moved(r, s, t, C)) /\ OnlyIn({"view_changes"}, s, t)
    BY <2>2, ReceivedMoved
  <2> HIDE DEF t
  <2>4. ReplicaInv(r, t)
    BY <2>3 DEF Moved
  <2>5. m.new_view \in Nat
    BY DEF CertOK
  <2>6. Handled(r, t, MaybePublishNewView(t, r, m.new_view))
    BY <2>4, <2>5, MaybePublishNewViewHandled
  <2>7. t.next_sequence_number = s.next_sequence_number /\ t.new_view_sent = s.new_view_sent
    BY <2>3 DEF OnlyIn, Fields
  <2> QED BY <2>1, <2>3, <2>6, <2>7, MovedHandled
<1> QED BY <1>1, <1>2

\* _build_view_change_message: the certificate is what the replica has counted.
LEMMA ViewChangeOK ==
  ASSUME NEW r, NEW s, ReplicaInv(r, s), NEW v \in Nat
  PROVE  CertOK(r, s, ViewChange(s, r, v)) /\ ViewChange(s, r, v).type = "VIEW-CHANGE"
<1> DEFINE Cert(k) == [view |-> k[1], seq |-> k[2], req |-> s.instances[k],
                       senders |-> SendersOf(s.prepare_senders, k)]
           keys == SelectPrepared(s, v)
           m == ViewChange(s, r, v)
<1>1. m.type = "VIEW-CHANGE" /\ m.new_view = v /\ m.cert = {Cert(k) : k \in keys}
  BY DEF ViewChange
<1>2. \A k \in keys : k \in Nat \X Nat /\ k \in DOMAIN s.instances
  BY DEF SelectPrepared, ReplicaInv, KeysInv
<1>3. \A j, k \in keys : j = k
  <2> SUFFICES ASSUME NEW j \in keys, NEW k \in keys PROVE j = k
    OBVIOUS
  <2>1. /\ j[1] < k[1] \/ (j[1] = k[1] /\ j[2] <= k[2])
        /\ k[1] < j[1] \/ (k[1] = j[1] /\ k[2] <= j[2])
    BY DEF SelectPrepared
  <2>2. j \in Nat \X Nat /\ k \in Nat \X Nat
    BY <1>2
  <2> QED BY <2>1, <2>2
<1>4. ASSUME NEW k \in keys
      PROVE  /\ Cert(k).view \in Nat /\ Cert(k).seq \in Nat
             /\ \A b \in Cert(k).senders :
                  PrepareOK(r, s, b, <<Cert(k).view, Cert(k).seq>>, Cert(k).req)
  <2>1. k \in Nat \X Nat /\ k = <<k[1], k[2]>>
    BY <1>2
  <2>2. ASSUME NEW b \in SendersOf(s.prepare_senders, k)
        PROVE  PrepareOK(r, s, b, k, s.instances[k])
    <3>1. PICK p \in s.prepare_senders : p[1] = k /\ p[2] = b
      BY DEF SendersOf
    <3> QED BY <3>1 DEF ReplicaInv, SendersInv
  <2>3. /\ Cert(k).view = k[1] /\ Cert(k).seq = k[2] /\ Cert(k).req = s.instances[k]
        /\ Cert(k).senders = SendersOf(s.prepare_senders, k)
    OBVIOUS
  <2> HIDE DEF Cert
  <2> QED BY <2>1, <2>2, <2>3
<1> HIDE DEF Cert, m, keys
<1>5. \A c, d \in m.cert : c = d
  BY <1>1, <1>3
<1> QED BY <1>1, <1>4, <1>5 DEF CertOK, m

LEMMA InitiateViewChangeHandled ==
  ASSUME NEW r, NEW s, ReplicaInv(r, s), NEW v \in Int
  PROVE  Handled(r, s, InitiateViewChange(s, r, v))
<1> DEFINE drop == v <= s.current_view \/ v \in s.view_change_sent \/ Is(r, "silent")
           m == ViewChange(s, r, v)
           x == s.view_change_sent \cup {v}
           a == [s EXCEPT !.view_change_sent = x]
           b == ViewChangeCallback(a, r, m)
           t == Publish(b, Replicas \ {r}, m)
<1>1. CASE drop
  <2>1. InitiateViewChange(s, r, v) = s
    BY <1>1 DEF InitiateViewChange
  <2> QED BY <2>1, VotedSame, VotedMoved DEF Handled
<1>2. CASE ~ drop
  <2>1. InitiateViewChange(s, r, v) = t
    BY <1>2 DEF InitiateViewChange
  <2>2. v \in Nat
    BY <1>2 DEF ReplicaInv, KeysInv
  <2>3. CertOK(r, s, m) /\ m.type = "VIEW-CHANGE"
    BY <2>2, ViewChangeOK
  <2> HIDE DEF m
  <2>4. IsState(s) /\ "view_change_sent" \in Fields
    BY DEF ReplicaInv, KeysInv, Fields
  <2>5. OnlyIn({"view_change_sent"}, s, a)
    <3> HIDE DEF x
    <3> QED BY ONLY <2>4, SetField, Zenon
  <2> HIDE DEF a
  <2>6. OnlyIn(Unseen, s, a)
    BY <2>5 DEF OnlyIn, Unseen
  <2>7. /\ \A C : Moved(r, s, a, C)
        /\ a.next_sequence_number = s.next_sequence_number
        /\ a.new_view_sent = s.new_view_sent
    BY <2>6, UnseenMoved
  <2>8. ReplicaInv(r, a) /\ CertOK(r, a, m)
    BY <2>3, <2>7, GrowsKeepsEvidence DEF Moved
  <2>9. Handled(r, a, b)
    BY <2>8, ViewChangeCallbackHandled
  <2> HIDE DEF b
  <2>10. Handled(r, s, b)
    BY <2>7, <2>9, MovedHandled
  <2>11. ReplicaInv(r, b) /\ CertOK(r, b, m)
    BY <2>8, <2>9, GrowsKeepsEvidence DEF Handled, Moved
  <2>12. MessageOK(r, b, m)
    BY <2>3, <2>11 DEF MessageOK
  <2>13. (\A C : Moved(r, b, t, C)) /\ OnlyIn({"out"}, b, t)
    BY <2>3, <2>11, <2>12, PublishMoved
  <2> HIDE DEF t
  <2>14. /\ t.instances = b.instances /\ t.next_sequence_number = b.next_sequence_number
         /\ t.new_view_sent = b.new_view_sent
    BY <2>13 DEF OnlyIn, Fields
  <2> QED BY <2>1, <2>10, <2>13, <2>14, HandledMoved
<1> QED BY <1>1, <1>2
-----------------------------------------------------------------------------
(* Steps of the system *)

\* What replica r may do in one step, given what has been claimed so far
StepOK(r, t) ==
  /\ ReplicaInv(r, t) /\ Grows(rep[r], t)
  /\ \E k, q : \A j, p : Says(t, j, p) =>
        Claimed(j, p) \/ (j = k /\ p = q /\ Creates(r, rep[r], t, k, q))

LEMMA SaidIsClaimed ==
  ASSUME IInv, NEW r \in Replicas, NEW k, NEW q, Says(rep[r], k, q)
  PROVE  Claimed(k, q)
<1>1. rep[r].out = {}
  BY DEF IInv
<1> QED BY <1>1 DEF Says, Claimed

LEMMA MovedStep ==
  ASSUME IInv, NEW r \in Replicas, NEW t, NEW C, Moved(r, rep[r], t, C),
         \A k, q : <<k, q>> \in C => Claimed(k, q)
  PROVE  StepOK(r, t)
BY SaidIsClaimed DEF StepOK, Moved

LEMMA HandledStep ==
  ASSUME IInv, NEW r \in Replicas, NEW t, Handled(r, rep[r], t)
  PROVE  StepOK(r, t)
<1>1. PICK k, q : \/ Moved(r, rep[r], t, {})
                  \/ /\ Moved(r, rep[r], t, {<<k, q>>})
                     /\ Creates(r, rep[r], t, k, q)
  BY DEF Handled
<1>2. ASSUME NEW j, NEW p, Says(t, j, p)
      PROVE  Claimed(j, p) \/ (j = k /\ p = q /\ Creates(r, rep[r], t, k, q))
  BY <1>1, <1>2, SaidIsClaimed DEF Moved
<1> QED BY <1>1, <1>2 DEF StepOK, Moved

\* Every callback of a replica is a good step.
LEMMA HandleStep ==
  ASSUME IInv, NEW r \in Replicas, NEW m \in inbox[r]
  PROVE  StepOK(r, Handle(rep[r], r, m))
<1> DEFINE s == rep[r]
           t == Handle(s, r, m)
<1>1. ReplicaInv(r, s) /\ s.out = {} /\ MessageOK(r, s, m)
  BY DEF IInv
<1>2. CASE m.type = "REQUEST"
  <2>1. t = RequestCallback(s, r, m)
    BY <1>2 DEF Handle
  <2>2. r = 0 => <<0, s.next_sequence_number>> \notin DOMAIN s.instances
    <3> SUFFICES ASSUME r = 0, <<0, s.next_sequence_number>> \in DOMAIN s.instances
                 PROVE  FALSE
      OBVIOUS
    <3> DEFINE k == <<0, s.next_sequence_number>>
    <3>1. Claimed(k, s.instances[k])
      BY DEF Claimed
    <3>2. s.next_sequence_number \in Nat
      BY <1>1 DEF ReplicaInv, KeysInv
    <3>3. k[2] < s.next_sequence_number
      BY <3>1 DEF IInv, ClaimInv
    <3> QED BY <3>2, <3>3
  <2>3. Handled(r, s, t)
    <3> HIDE DEF s, t
    <3> QED BY <1>1, <1>2, <2>1, <2>2, RequestCallbackMoved
  <2> QED BY <2>3, HandledStep
<1>3. CASE m.type = "PRE-PREPARE"
  <2>1. t = PrePrepareCallback(s, r, m)
    BY <1>3 DEF Handle
  <2>2. Moved(r, s, t, {<<Key(m), m.req>>})
    BY <1>1, <1>3, <2>1, PrePrepareCallbackMoved
  <2>3. \A k, q : <<k, q>> \in {<<Key(m), m.req>>} => Claimed(k, q)
    BY <1>3 DEF Claimed
  <2> HIDE DEF t
  <2>4. StepOK(r, t)
    BY <2>2, <2>3, MovedStep
  <2> QED BY <2>4 DEF t
<1>4. CASE m.type = "PREPARE"
  <2>1. t = PrepareCallback(s, r, m)
    BY <1>4 DEF Handle
  <2>2. Moved(r, s, t, {})
    BY <1>1, <1>4, <2>1, PrepareCallbackVoted, VotedMoved
  <2> HIDE DEF t
  <2>3. StepOK(r, t)
    BY <2>2, MovedStep
  <2> QED BY <2>3 DEF t
<1>5. CASE m.type = "COMMIT"
  <2>1. t = CommitCallback(s, r, m)
    BY <1>5 DEF Handle
  <2>2. Moved(r, s, t, {})
    BY <1>1, <1>5, <2>1, CommitCallbackVoted, VotedMoved
  <2> HIDE DEF t
  <2>3. StepOK(r, t)
    BY <2>2, MovedStep
  <2> QED BY <2>3 DEF t
<1>6. CASE m.type = "VIEW-CHANGE"
  <2>1. t = ViewChangeCallback(s, r, m)
    BY <1>6 DEF Handle
  <2>2. CertOK(r, s, m)
    BY <1>1, <1>6 DEF MessageOK
  <2>3. Handled(r, s, t)
    BY <1>1, <2>1, <2>2, ViewChangeCallbackHandled
  <2> QED BY <2>3, HandledStep
<1>7. CASE m.type = "NEW-VIEW"
  <2> DEFINE C == {<<<<m.new_view, c.seq>>, c.req>> : c \in m.choice}
  <2>1. t = NewViewCallback(s, r, m)
    BY <1>7 DEF Handle
  <2>2. Moved(r, s, t, C)
    BY <1>1, <1>7, <2>1, NewViewCallbackMoved
  <2>3. \A k, q : <<k, q>> \in C => Claimed(k, q)
    BY <1>7 DEF Claimed
  <2> HIDE DEF t, C
  <2>4. StepOK(r, t)
    BY <2>2, <2>3, MovedStep
  <2> QED BY <2>4 DEF t
<1> QED BY <1>1, <1>2, <1>3, <1>4, <1>5, <1>6, <1>7 DEF MessageOK

\* A good step of a replica keeps the invariant; the other replicas still
\* have done what is said of them.
LEMMA StepInv ==
  ASSUME IInv, NEW r \in Replicas, NEW t, NEW rest, rest \subseteq inbox[r],
         StepOK(r, t), Step(r, t, rest)
  PROVE  IInv'
<1> DEFINE z == [t EXCEPT !.out = {}]
<1>1. /\ ReplicaInv(r, t) /\ Grows(rep[r], t) /\ IsState(t)
  BY DEF StepOK, ReplicaInv, KeysInv
<1>2. OnlyIn({"out"}, t, z) /\ z.out = {}
  <2>1. "out" \in Fields
    BY DEF Fields
  <2> QED BY ONLY <1>1, <2>1, SetField, Zenon
<1>3. /\ rep' = [a \in Replicas |-> IF a = r THEN z ELSE rep[a]]
      /\ param' = param
      /\ inbox' = [d \in Replicas |-> (IF d = r THEN rest ELSE inbox[d])
                                        \cup {o[2] : o \in {x \in t.out : x[1] = d}}]
  <2>1. rep = [a \in Replicas |-> rep[a]]
    BY DEF IInv
  <2>2. rep' = [rep EXCEPT ![r] = z]
    BY DEF Step
  <2> HIDE DEF z
  <2>3. rep' = [a \in Replicas |-> IF a = r THEN z ELSE rep[a]]
    BY <2>1, <2>2
  <2> QED BY <2>3 DEF Step
<1> HIDE DEF z
<1>4. /\ z.current_view = t.current_view
      /\ z.next_sequence_number = t.next_sequence_number /\ z.cached = t.cached
      /\ z.instances = t.instances /\ z.prepare_senders = t.prepare_senders
      /\ z.pending_prepares = t.pending_prepares /\ z.prepare_sent = t.prepare_sent
      /\ z.prepare_scheduled = t.prepare_scheduled /\ z.prepared = t.prepared
      /\ z.commit_senders = t.commit_senders /\ z.pending_commits = t.pending_commits
      /\ z.commit_scheduled = t.commit_scheduled /\ z.committed = t.committed
      /\ z.view_changes = t.view_changes /\ z.new_view_sent = t.new_view_sent
      /\ z.recovery_timers = t.recovery_timers /\ IsState(z)
  BY <1>2 DEF OnlyIn, Fields
<1>5. Correct' = Correct /\ Correct \subseteq Replicas
  BY <1>3 DEF Correct
<1>6. ASSUME NEW b \in Replicas
      PROVE  /\ \A k, q : DidPrepare(StateOf(r, t, b), k, q) => DidPrepare(rep[b], k, q)'
             /\ \A k, q : DidPrepare(rep[b], k, q) => DidPrepare(rep[b], k, q)'
             /\ \A k, q : DidCommit(StateOf(r, t, b), k, q) => DidCommit(rep[b], k, q)'
             /\ \A k, q : DidCommit(rep[b], k, q) => DidCommit(rep[b], k, q)'
  <2>1. CASE b = r
    <3>1. rep'[b] = z
      BY <1>3, <2>1
    <3> QED BY <1>1, <1>4, <2>1, <3>1 DEF DidPrepare, DidCommit, StateOf, Grows
  <2>2. CASE b # r
    <3>1. rep'[b] = rep[b]
      BY <1>3, <2>2
    <3> QED BY <2>2, <3>1 DEF DidPrepare, DidCommit, StateOf
  <2> QED BY <2>1, <2>2
<1>7. ASSUME NEW a \in Replicas
      PROVE  /\ \A b, k, q : PrepareOK(r, t, b, k, q) => PrepareOK(a, rep[a], b, k, q)'
             /\ \A b, k, q : PrepareOK(a, rep[a], b, k, q) => PrepareOK(a, rep[a], b, k, q)'
             /\ \A b, k, q : CommitOK(r, t, b, k, q) => CommitOK(a, rep[a], b, k, q)'
             /\ \A b, k, q : CommitOK(a, rep[a], b, k, q) => CommitOK(a, rep[a], b, k, q)'
  <2>1. \A b : StateOf(a, rep[a], b) = rep[b] /\ StateOf(a, rep[a], b)' = rep'[b]
    BY DEF StateOf
  <2>2. ASSUME NEW b, NEW k, NEW q
        PROVE  /\ PrepareOK(a, rep[a], b, k, q) <=> (b \in Correct => DidPrepare(rep[b], k, q))
               /\ PrepareOK(a, rep[a], b, k, q)' <=> (b \in Correct => DidPrepare(rep[b], k, q)')
               /\ CommitOK(a, rep[a], b, k, q) <=> (b \in Correct => DidCommit(rep[b], k, q))
               /\ CommitOK(a, rep[a], b, k, q)' <=> (b \in Correct => DidCommit(rep[b], k, q)')
    BY <1>5, <2>1 DEF PrepareOK, CommitOK, DidPrepare, DidCommit
  <2>3. ASSUME NEW b, NEW k, NEW q
        PROVE  /\ PrepareOK(r, t, b, k, q) => PrepareOK(a, rep[a], b, k, q)'
               /\ PrepareOK(a, rep[a], b, k, q) => PrepareOK(a, rep[a], b, k, q)'
               /\ CommitOK(r, t, b, k, q) => CommitOK(a, rep[a], b, k, q)'
               /\ CommitOK(a, rep[a], b, k, q) => CommitOK(a, rep[a], b, k, q)'
    <3>1. CASE b \in Correct
      <4>1. b \in Replicas
        BY <1>5, <3>1
      <4> QED BY <1>6, <2>2, <3>1, <4>1 DEF PrepareOK, CommitOK
    <3>2. CASE b \notin Correct
      BY <2>2, <3>2
    <3> QED BY <3>1, <3>2
  <2> QED BY <2>3
<1>8. ASSUME NEW a \in Replicas
      PROVE  /\ \A m : CertOK(r, t, m) => CertOK(a, rep[a], m)'
             /\ \A m : CertOK(a, rep[a], m) => CertOK(a, rep[a], m)'
             /\ \A m : MessageOK(r, t, m) => MessageOK(a, rep[a], m)'
             /\ \A m : MessageOK(a, rep[a], m) => MessageOK(a, rep[a], m)'
  <2>1. /\ \A m : CertOK(r, t, m) => CertOK(a, rep[a], m)'
        /\ \A m : CertOK(a, rep[a], m) => CertOK(a, rep[a], m)'
    BY <1>7 DEF CertOK
  <2>2. /\ \A m : MessageOK(r, t, m) => MessageOK(a, rep[a], m)'
        /\ \A m : MessageOK(a, rep[a], m) => MessageOK(a, rep[a], m)'
    BY <1>7, <2>1 DEF MessageOK, Key
  <2> QED BY <2>1, <2>2
<1>9. ASSUME NEW a \in Replicas
      PROVE  ReplicaInv(a, rep[a])' /\ rep'[a].out = {}
  <2>1. CASE a = r
    <3>1. rep'[a] = z
      BY <1>3, <2>1
    <3>2. KeysInv(z) /\ CommittedInv(z)
      BY <1>1, <1>4 DEF ReplicaInv, KeysInv, CommittedInv
    <3>3. SendersInv(a, rep[a])'
      BY <1>1, <1>4, <1>7, <3>1 DEF ReplicaInv, SendersInv, Key
    <3>4. ViewsInv(a, rep[a])'
      BY <1>1, <1>4, <1>8, <3>1 DEF ReplicaInv, ViewsInv, PrepareThreshold
    <3>5. OutInv(a, rep[a])'
      BY <1>2, <3>1 DEF OutInv
    <3>6. KeysInv(rep[a])' /\ CommittedInv(rep[a])'
      BY <3>1, <3>2 DEF KeysInv, CommittedInv, IsState, SendersOf, CommitThreshold
    <3> QED BY <1>2, <3>1, <3>3, <3>4, <3>5, <3>6 DEF ReplicaInv
  <2>2. CASE a # r
    <3>1. rep'[a] = rep[a] /\ rep[a].out = {} /\ ReplicaInv(a, rep[a])
      BY <1>3, <2>2 DEF IInv
    <3>3. SendersInv(a, rep[a])'
      BY <1>7, <3>1 DEF ReplicaInv, SendersInv, Key
    <3>4. ViewsInv(a, rep[a])'
      BY <1>8, <3>1 DEF ReplicaInv, ViewsInv, PrepareThreshold
    <3>5. OutInv(a, rep[a])'
      BY <3>1 DEF OutInv
    <3>6. KeysInv(rep[a])' /\ CommittedInv(rep[a])'
      BY <3>1 DEF ReplicaInv, KeysInv, CommittedInv, IsState, SendersOf, CommitThreshold
    <3> QED BY <3>1, <3>3, <3>4, <3>5, <3>6 DEF ReplicaInv
  <2> QED BY <2>1, <2>2
<1>10. ASSUME NEW a \in Replicas, NEW m \in inbox'[a]
       PROVE  MessageOK(a, rep[a], m)'
  <2>1. m \in inbox[a] \/ \E o \in t.out : m = o[2]
    BY <1>3, <1>10
  <2>2. CASE m \in inbox[a]
    BY <1>8, <2>2 DEF IInv
  <2>3. CASE \E o \in t.out : m = o[2]
    BY <1>1, <1>8, <2>3 DEF ReplicaInv, OutInv
  <2> QED BY <2>1, <2>2, <2>3
<1>11. ClaimInv'
  <2>1. PICK k, q : \A j, p : Says(t, j, p) =>
                      Claimed(j, p) \/ (j = k /\ p = q /\ Creates(r, rep[r], t, k, q))
    BY DEF StepOK
  <2>2. ASSUME NEW j, NEW p, Claimed(j, p)'
        PROVE  Claimed(j, p) \/ (j = k /\ p = q /\ Creates(r, rep[r], t, k, q))
    <3>1. CASE \E a \in Replicas : j \in DOMAIN rep'[a].instances /\ rep'[a].instances[j] = p
      <4>1. PICK a \in Replicas : j \in DOMAIN rep'[a].instances /\ rep'[a].instances[j] = p
        BY <3>1
      <4>2. CASE a = r
        <5>1. Says(t, j, p)
          BY <1>3, <1>4, <4>1, <4>2 DEF Says
        <5> QED BY <2>1, <5>1
      <4>3. CASE a # r
        BY <1>3, <4>1, <4>3 DEF Claimed
      <4> QED BY <4>2, <4>3
    <3>2. CASE \E a \in Replicas : \E m \in inbox'[a] :
                 m.type = "PRE-PREPARE" /\ j = Key(m) /\ p = m.req
      <4>1. PICK a \in Replicas : \E m \in inbox'[a] :
                   m.type = "PRE-PREPARE" /\ j = Key(m) /\ p = m.req
        BY <3>2
      <4>2. PICK m \in inbox'[a] : m.type = "PRE-PREPARE" /\ j = Key(m) /\ p = m.req
        BY <4>1
      <4>3. m \in inbox[a] \/ \E o \in t.out : m = o[2]
        BY <1>3, <4>2
      <4>4. CASE m \in inbox[a]
        BY <4>2, <4>4 DEF Claimed
      <4>5. CASE \E o \in t.out : m = o[2]
        <5>1. Says(t, j, p)
          BY <4>2, <4>5 DEF Says
        <5> QED BY <2>1, <5>1
      <4> QED BY <4>3, <4>4, <4>5
    <3>3. CASE \E a \in Replicas : \E m \in inbox'[a] :
                 m.type = "NEW-VIEW" /\ \E c \in m.choice : j = <<m.new_view, c.seq>> /\ p = c.req
      <4>1. PICK a \in Replicas : \E m \in inbox'[a] :
                   m.type = "NEW-VIEW" /\ \E c \in m.choice : j = <<m.new_view, c.seq>> /\ p = c.req
        BY <3>3
      <4>2. PICK m \in inbox'[a] :
                   m.type = "NEW-VIEW" /\ \E c \in m.choice : j = <<m.new_view, c.seq>> /\ p = c.req
        BY <4>1
      <4>3. m \in inbox[a] \/ \E o \in t.out : m = o[2]
        BY <1>3, <4>2
      <4>4. CASE m \in inbox[a]
        BY <4>2, <4>4 DEF Claimed
      <4>5. CASE \E o \in t.out : m = o[2]
        <5>1. Says(t, j, p)
          BY <4>2, <4>5 DEF Says
        <5> QED BY <2>1, <5>1
      <4> QED BY <4>3, <4>4, <4>5
    <3> QED BY <2>2, <3>1, <3>2, <3>3 DEF Claimed, Key
  <2>3. ASSUME NEW a \in Replicas
        PROVE  /\ rep[a].new_view_sent \subseteq rep'[a].new_view_sent
               /\ rep[a].next_sequence_number \in Nat /\ rep'[a].next_sequence_number \in Nat
               /\ rep'[a].next_sequence_number >= rep[a].next_sequence_number
               /\ \A i \in DOMAIN rep[a].instances :
                    i \in DOMAIN rep'[a].instances /\ rep'[a].instances[i] = rep[a].instances[i]
    <3>0. rep[a].next_sequence_number \in Nat
      BY DEF IInv, ReplicaInv, KeysInv
    <3>1. CASE a = r
      <4>1. rep'[a] = z
        BY <1>3, <3>1
      <4> QED BY <1>1, <1>4, <3>0, <3>1, <4>1 DEF Grows
    <3>2. CASE a # r
      <4>1. rep'[a] = rep[a]
        BY <1>3, <3>2
      <4> QED BY <3>0, <4>1
    <3> QED BY <3>1, <3>2
  <2>4. 0 \in Replicas /\ \A v \in Nat : PrimaryForView(v) \in Replicas
    BY PBFTAssumption DEF Replicas, N, PrimaryForView
  <2>5. Creates(r, rep[r], t, k, q) =>
           \/ /\ r = 0 /\ k = <<0, rep[r].next_sequence_number>>
              /\ k \in DOMAIN rep'[0].instances /\ rep'[0].instances[k] = q
              /\ k[2] < rep'[0].next_sequence_number
           \/ /\ k \in Nat \X Nat /\ k[1] > 0 /\ r = PrimaryForView(k[1])
              /\ k[1] \notin rep[r].new_view_sent /\ k[1] \in rep'[r].new_view_sent
    BY <1>3, <1>4, <2>3, <2>4 DEF Creates
  <2>6. ClaimInv
    BY DEF IInv
  <2> SUFFICES ASSUME NEW j, NEW p, Claimed(j, p)'
               PROVE  /\ j \in Nat \X Nat
                      /\ j[1] = 0 => /\ j \in DOMAIN rep'[0].instances
                                     /\ rep'[0].instances[j] = p
                                     /\ j[2] < rep'[0].next_sequence_number
                      /\ j[1] > 0 =>
                           /\ j[1] \in rep'[PrimaryForView(j[1])].new_view_sent
                           /\ \A i, n : Claimed(i, n)' /\ i[1] = j[1] => i = j /\ n = p
    BY DEF ClaimInv, PrimaryForView, N
  <2>7. CASE Claimed(j, p)
    <3>1. j \in Nat \X Nat
      BY <2>6, <2>7 DEF ClaimInv
    <3>2. ASSUME j[1] = 0
          PROVE  /\ j \in DOMAIN rep'[0].instances /\ rep'[0].instances[j] = p
                 /\ j[2] < rep'[0].next_sequence_number
      <4>1. /\ j \in DOMAIN rep[0].instances /\ rep[0].instances[j] = p
            /\ j[2] < rep[0].next_sequence_number
        BY <2>6, <2>7, <3>2 DEF ClaimInv
      <4> QED BY <2>3, <2>4, <3>1, <4>1
    <3>3. ASSUME j[1] > 0
          PROVE  /\ j[1] \in rep'[PrimaryForView(j[1])].new_view_sent
                 /\ \A i, n : Claimed(i, n)' /\ i[1] = j[1] => i = j /\ n = p
      <4>1. /\ j[1] \in rep[PrimaryForView(j[1])].new_view_sent
            /\ \A i, n : Claimed(i, n) /\ i[1] = j[1] => i = j /\ n = p
        BY <2>6, <2>7, <3>3 DEF ClaimInv
      <4>2. j[1] \in rep'[PrimaryForView(j[1])].new_view_sent
        BY <2>3, <2>4, <3>1, <4>1
      <4>3. ASSUME NEW i, NEW n, Claimed(i, n)', i[1] = j[1] PROVE i = j /\ n = p
        <5>1. CASE Claimed(i, n)
          BY <4>1, <4>3, <5>1
        <5>2. CASE i = k /\ n = q /\ Creates(r, rep[r], t, k, q)
          BY <2>5, <3>3, <4>1, <4>3, <5>2
        <5> QED BY <2>2, <4>3, <5>1, <5>2
      <4> QED BY <4>2, <4>3
    <3> QED BY <3>1, <3>2, <3>3
  <2>8. CASE j = k /\ p = q /\ Creates(r, rep[r], t, k, q) /\ ~ Claimed(j, p)
    <3>1. rep[r].next_sequence_number \in Nat
      BY <2>3
    <3>2. CASE /\ r = 0 /\ k = <<0, rep[r].next_sequence_number>>
               /\ k \in DOMAIN rep'[0].instances /\ rep'[0].instances[k] = q
               /\ k[2] < rep'[0].next_sequence_number
      BY <2>8, <3>1, <3>2
    <3>3. CASE /\ k \in Nat \X Nat /\ k[1] > 0 /\ r = PrimaryForView(k[1])
               /\ k[1] \notin rep[r].new_view_sent /\ k[1] \in rep'[r].new_view_sent
      <4>1. ASSUME NEW i, NEW n, Claimed(i, n)', i[1] = k[1] PROVE i = k /\ n = q
        <5>1. ~ Claimed(i, n)
          BY <2>6, <3>3, <4>1 DEF ClaimInv
        <5> QED BY <2>2, <4>1, <5>1
      <4> QED BY <2>8, <3>3, <4>1
    <3> QED BY <2>5, <2>8, <3>2, <3>3
  <2> QED BY <2>2, <2>7, <2>8
<1>12. /\ param' \in [Replicas -> Parameters]
       /\ rep' = [a \in Replicas |-> rep'[a]]
       /\ inbox' = [a \in Replicas |-> inbox'[a]]
  BY <1>3 DEF IInv
<1> QED BY <1>9, <1>10, <1>11, <1>12 DEF IInv, Replicas, Parameters, Behaviours, Views, N

\* Every step of a replica is a good one.
LEMMA NextIsGood ==
  ASSUME IInv, Next
  PROVE  \/ \E q \in Requests : ClientRequest(q)
         \/ \E r \in Replicas : \E t, rest :
              rest \subseteq inbox[r] /\ StepOK(r, t) /\ Step(r, t, rest)
<1>1. ASSUME NEW r \in Replicas, NEW m \in inbox[r], Deliver(r, m) \/ Redeliver(r, m)
      PROVE  \E t, rest : rest \subseteq inbox[r] /\ StepOK(r, t) /\ Step(r, t, rest)
  <2>1. StepOK(r, Handle(rep[r], r, m))
    BY HandleStep
  <2>2. CASE Deliver(r, m)
    BY <2>1, <2>2 DEF Deliver
  <2>3. CASE Redeliver(r, m)
    BY <2>1, <2>3 DEF Redeliver
  <2> QED BY <1>1, <2>2, <2>3
<1>2. ASSUME NEW r \in Replicas, ProgressTimeout(r)
      PROVE  \E t, rest : rest \subseteq inbox[r] /\ StepOK(r, t) /\ Step(r, t, rest)
  <2> DEFINE s == rep[r]
             a == CancelTimeout(s)
             b == InitiateViewChange(a, r, s.current_view + 1)
  <2>1. ReplicaInv(r, s) /\ s.current_view \in Int
    BY DEF IInv, ReplicaInv, KeysInv
  <2>2. Voted(r, s, a)
    BY <2>1, TimersVoted DEF CancelTimeout
  <2>3. \/ Step(r, a, inbox[r]) \/ Step(r, b, inbox[r])
    BY <1>2 DEF ProgressTimeout
  <2> HIDE DEF a
  <2>4. ReplicaInv(r, a) /\ \A C : Moved(r, s, a, C)
    BY <2>1, <2>2, VotedMoved DEF Voted
  <2>5. StepOK(r, a)
    <3>1. Moved(r, s, a, {})
      BY <2>4
    <3> QED BY <3>1, MovedStep
  <2>6. Handled(r, a, b)
    BY <2>1, <2>4, InitiateViewChangeHandled
  <2> HIDE DEF b
  <2>7. /\ a.next_sequence_number = s.next_sequence_number
        /\ a.new_view_sent = s.new_view_sent
    BY <2>2 DEF Voted, VoteStep
  <2>8. StepOK(r, b)
    <3>1. Handled(r, s, b)
      BY <2>1, <2>4, <2>6, <2>7, MovedHandled
    <3> QED BY <3>1, HandledStep
  <2> QED BY <2>3, <2>5, <2>8
<1>3. ASSUME NEW r \in Replicas, DelayedPrepare(r) \/ DelayedCommit(r)
      PROVE  \E t, rest : rest \subseteq inbox[r] /\ StepOK(r, t) /\ Step(r, t, rest)
  <2>1. ReplicaInv(r, rep[r])
    BY DEF IInv
  <2>2. CASE DelayedPrepare(r)
    <3>1. PICK k \in rep[r].prepare_scheduled :
            Step(r, SendPrepare([rep[r] EXCEPT !.prepare_scheduled = @ \ {k}], r, k, TRUE),
                 inbox[r])
      BY <2>2 DEF DelayedPrepare
    <3> DEFINE t == SendPrepare([rep[r] EXCEPT !.prepare_scheduled = @ \ {k}], r, k, TRUE)
    <3>2. Voted(r, rep[r], t)
      BY <2>1, DelayedVoted
    <3> HIDE DEF t
    <3>3. Moved(r, rep[r], t, {})
      BY <2>1, <3>2, VotedMoved
    <3>4. StepOK(r, t)
      BY <3>3, MovedStep
    <3> QED BY <3>1, <3>4 DEF t
  <2>3. CASE DelayedCommit(r)
    <3>1. PICK k \in rep[r].commit_scheduled :
            Step(r, SendCommit([rep[r] EXCEPT !.commit_scheduled = @ \ {k}], r, k, TRUE),
                 inbox[r])
      BY <2>3 DEF DelayedCommit
    <3> DEFINE t == SendCommit([rep[r] EXCEPT !.commit_scheduled = @ \ {k}], r, k, TRUE)
    <3>2. Voted(r, rep[r], t)
      BY <2>1, DelayedVoted
    <3> HIDE DEF t
    <3>3. Moved(r, rep[r], t, {})
      BY <2>1, <3>2, VotedMoved
    <3>4. StepOK(r, t)
      BY <3>3, MovedStep
    <3> QED BY <3>1, <3>4 DEF t
  <2> QED BY <1>3, <2>2, <2>3
<1>4. ASSUME NEW r \in Replicas, RecoveryPrePrepare(r)
      PROVE  \E t, rest : rest \subseteq inbox[r] /\ StepOK(r, t) /\ Step(r, t, rest)
  <2>1. PICK k \in rep[r].recovery_timers :
          LET s == [rep[r] EXCEPT !.recovery_timers = @ \ {k}]
          IN  Step(r,
                   IF k \in s.recovery_sent \/ k[1] # s.current_view \/ ~ IsPrimary(s, r)
                   THEN s
                   ELSE Arm(Publish([s EXCEPT !.recovery_sent = @ \cup {k},
                                              !.current_key = k],
                                    Replicas, PrePrepare(r, k, s.instances[k])), r),
                   inbox[r])
    BY <1>4 DEF RecoveryPrePrepare
  <2> DEFINE a == [rep[r] EXCEPT !.recovery_timers = @ \ {k}]
             b == Arm(Publish([a EXCEPT !.recovery_sent = @ \cup {k}, !.current_key = k],
                              Replicas, PrePrepare(r, k, a.instances[k])), r)
  <2>2. Step(r, a, inbox[r]) \/ Step(r, b, inbox[r])
    BY <2>1
  <2>3. Moved(r, rep[r], a, {}) /\ Moved(r, rep[r], b, {})
    <3>1. ReplicaInv(r, rep[r])
      BY DEF IInv
    <3> QED BY <3>1, RecoveryMoved
  <2> HIDE DEF a, b
  <2>4. StepOK(r, a) /\ StepOK(r, b)
    BY <2>3, MovedStep
  <2> QED BY <2>2, <2>4
<1>5. ASSUME NEW r \in Replicas, ManualViewChange(r)
      PROVE  \E t, rest : rest \subseteq inbox[r] /\ StepOK(r, t) /\ Step(r, t, rest)
  <2> DEFINE s == rep[r]
             a == [s EXCEPT !.manual = FALSE]
             b == InitiateViewChange(a, r, param[r].manual)
  <2>1. ReplicaInv(r, s) /\ IsState(s) /\ "manual" \in Fields /\ param[r].manual \in Int
    BY PBFTAssumption DEF IInv, ReplicaInv, KeysInv, Fields, Parameters, Views
  <2>2. Step(r, b, inbox[r])
    BY <1>5 DEF ManualViewChange
  <2>3. OnlyIn({"manual"}, s, a)
    <3> HIDE DEF s
    <3> QED BY ONLY <2>1, SetField, Zenon
  <2> HIDE DEF a
  <2>4. OnlyIn(Unseen, s, a)
    BY <2>3 DEF OnlyIn, Unseen
  <2>5. /\ \A C : Moved(r, s, a, C)
        /\ a.next_sequence_number = s.next_sequence_number
        /\ a.new_view_sent = s.new_view_sent
    BY <2>1, <2>4, UnseenMoved
  <2>6. ReplicaInv(r, a)
    BY <2>5 DEF Moved
  <2>7. Handled(r, a, b)
    BY <2>1, <2>6, InitiateViewChangeHandled
  <2> HIDE DEF b
  <2>8. Handled(r, s, b)
    BY <2>1, <2>5, <2>7, MovedHandled
  <2>9. StepOK(r, b)
    BY <2>8, HandledStep
  <2> QED BY <2>2, <2>9
<1> QED BY <1>1, <1>2, <1>3, <1>4, <1>5 DEF Next, DelayStep

\* New requests arrive, or none.
Arrive(new) ==
  /\ \A m \in new : m.type = "REQUEST" /\ m.view = 0
  /\ rep' = rep /\ param' = param
  /\ inbox' = [r \in Replicas |-> inbox[r] \cup new]

LEMMA RequestsInv ==
  ASSUME IInv, NEW new, Arrive(new)
  PROVE  IInv'
<1>1. /\ rep' = rep /\ param' = param
      /\ inbox' = [r \in Replicas |-> inbox[r] \cup new]
  BY DEF Arrive
<1>2. \A m \in new : m.type = "REQUEST" /\ m.view = 0
  BY DEF Arrive
<1>3. \A r, n : (MessageOK(r, rep[r], n) => MessageOK(r, rep[r], n)')
  BY <1>1 DEF MessageOK, CertOK, PrepareOK, CommitOK, DidPrepare, DidCommit, StateOf,
              Correct, Key, Replicas, N
<1>4. ASSUME NEW r \in Replicas PROVE ReplicaInv(r, rep[r])' /\ rep'[r].out = {}
  <2>1. ReplicaInv(r, rep[r]) /\ rep[r].out = {}
    BY DEF IInv
  <2>2. KeysInv(rep[r])' /\ CommittedInv(rep[r])'
    <3>1. rep'[r] = rep[r]
      BY <1>1
    <3>2. KeysInv(rep[r])'
      BY <2>1, <3>1 DEF ReplicaInv, KeysInv, IsState
    <3>3. CommittedInv(rep[r])'
      BY <2>1, <3>1 DEF ReplicaInv, CommittedInv, SendersOf, CommitThreshold
    <3> QED BY <3>2, <3>3
  <2> USE <1>1 DEF ReplicaInv
  <2>3. \A b, k, q : /\ PrepareOK(r, rep[r], b, k, q) => PrepareOK(r, rep[r], b, k, q)'
                     /\ CommitOK(r, rep[r], b, k, q) => CommitOK(r, rep[r], b, k, q)'
    BY DEF PrepareOK, CommitOK, DidPrepare, DidCommit, StateOf, Correct, Replicas, N
  <2>4. SendersInv(r, rep[r])'
    BY <2>1, <2>3 DEF SendersInv, Key
  <2>5. \A n : CertOK(r, rep[r], n) => CertOK(r, rep[r], n)'
    BY <2>3 DEF CertOK
  <2>6. ViewsInv(r, rep[r])'
    BY <2>1, <2>5 DEF ViewsInv, PrepareThreshold
  <2>7. OutInv(r, rep[r])'
    BY <2>1 DEF OutInv
  <2> QED BY <2>1, <2>2, <2>4, <2>6, <2>7
<1>5. ASSUME NEW r \in Replicas, NEW n \in inbox'[r] PROVE MessageOK(r, rep[r], n)'
  <2>1. MessageOK(r, rep[r], n)
    <3>1. CASE n \in inbox[r]
      BY <3>1 DEF IInv
    <3>2. CASE n \in new
      BY <1>2, <3>2 DEF MessageOK
    <3> QED BY <1>1, <1>5, <3>1, <3>2
  <2> QED BY <1>3, <2>1
<1>6. \A k, q : Claimed(k, q)' <=> Claimed(k, q)
  BY <1>1, <1>2 DEF Claimed, Key
<1>7. ClaimInv'
  <2> SUFFICES ASSUME NEW k, NEW q, Claimed(k, q)'
               PROVE  /\ k \in Nat \X Nat
                      /\ k[1] = 0 => /\ k \in DOMAIN rep'[0].instances
                                     /\ rep'[0].instances[k] = q
                                     /\ k[2] < rep'[0].next_sequence_number
                      /\ k[1] > 0 =>
                           /\ k[1] \in rep'[PrimaryForView(k[1])].new_view_sent
                           /\ \A j, p : Claimed(j, p)' /\ j[1] = k[1] => j = k /\ p = q
    BY DEF ClaimInv, PrimaryForView, N
  <2>1. Claimed(k, q)
    BY <1>6
  <2>2. ClaimInv
    BY DEF IInv
  <2> QED BY <1>1, <1>6, <2>1, <2>2 DEF ClaimInv
<1>8. /\ param' \in [Replicas -> Parameters] /\ rep' = [r \in Replicas |-> rep'[r]]
      /\ inbox' = [r \in Replicas |-> inbox'[r]]
  BY <1>1 DEF IInv
<1> QED BY <1>4, <1>5, <1>7, <1>8 DEF IInv

LEMMA InitInv == ASSUME Init PROVE IInv
<1>1. /\ param \in [Replicas -> Parameters]
      /\ rep = [r \in Replicas |-> InitialReplica(r)]
      /\ inbox = [r \in Replicas |-> {}]
  BY PBFTAssumption DEF Init
<1>2. ASSUME NEW r \in Replicas PROVE ReplicaInv(r, rep[r]) /\ rep[r].out = {}
  <2> DEFINE s == rep[r]
  <2>0. s = InitialReplica(r)
    BY <1>1
  <2>1. /\ s.current_view = 0 /\ s.next_sequence_number = 1
        /\ s.instances = <<>> /\ s.cached = {} /\ s.view_changes = {}
        /\ s.prepare_senders = {} /\ s.pending_prepares = {} /\ s.prepare_sent = {}
        /\ s.prepare_scheduled = {} /\ s.prepared = {} /\ s.commit_senders = {}
        /\ s.pending_commits = {} /\ s.commit_scheduled = {} /\ s.committed = {}
        /\ s.recovery_timers = {} /\ s.out = {}
    BY <2>0 DEF InitialReplica
  <2>2. IsState(s)
    BY <2>0 DEF IsState, InitialReplica, Fields
  <2> HIDE DEF s
  <2>3. DOMAIN s.instances = {}
    BY <2>1
  <2>4. KeysInv(s)
    BY <2>1, <2>2, <2>3 DEF KeysInv
  <2>5. SendersInv(r, s) /\ CommittedInv(s) /\ OutInv(r, s)
    BY <2>1 DEF SendersInv, CommittedInv, OutInv
  <2>6. ViewsInv(r, s)
    BY <2>1, FS_EmptySet DEF ViewsInv
  <2> QED BY <2>1, <2>4, <2>5, <2>6 DEF ReplicaInv, s
<1>3. \A k, q : ~ Claimed(k, q)
  <2>1. ASSUME NEW r \in Replicas PROVE DOMAIN rep[r].instances = {} /\ inbox[r] = {}
    BY <1>1 DEF InitialReplica
  <2> QED BY <2>1 DEF Claimed
<1> QED BY <1>1, <1>2, <1>3 DEF IInv, ClaimInv

LEMMA NextInv == ASSUME IInv, [Next]_vars PROVE IInv'
<1>1. CASE Next
  <2>1. CASE \E q \in Requests : ClientRequest(q)
    <3>1. PICK q \in Requests : ClientRequest(q)
      BY <2>1
    <3> DEFINE m == Vote("REQUEST", -1, <<0, 0>>, q, TRUE)
    <3>2. /\ rep' = rep /\ param' = param
          /\ inbox' = [r \in Replicas |-> inbox[r] \cup {m}]
      BY <3>1 DEF ClientRequest
    <3>3. \A n \in {m} : n.type = "REQUEST" /\ n.view = 0
      BY DEF Vote
    <3> HIDE DEF m
    <3>4. Arrive({m})
      BY <3>2, <3>3 DEF Arrive
    <3> QED BY <3>4, RequestsInv
  <2>2. CASE \E r \in Replicas : \E t, rest :
               rest \subseteq inbox[r] /\ StepOK(r, t) /\ Step(r, t, rest)
    BY <2>2, StepInv
  <2> QED BY <1>1, <2>1, <2>2, NextIsGood
<1>2. CASE UNCHANGED vars
  <2>1. param' = param /\ rep' = rep /\ inbox' = [r \in Replicas |-> inbox[r] \cup {}]
    BY <1>2 DEF vars, IInv
  <2>2. \A m \in {} : m.type = "REQUEST" /\ m.view = 0
    OBVIOUS
  <2>3. Arrive({})
    BY <2>1, <2>2 DEF Arrive
  <2> QED BY <2>3, RequestsInv
<1> QED BY <1>1, <1>2
-----------------------------------------------------------------------------
(* The progress timer: votes *)

\* From s to t replica r works on the key k of its view: the timer that watches
\* the view keeps running, unless k is committed then.
Works(r, s, t, k) ==
  /\ IsState(t)
  /\ t.instances = s.instances /\ t.current_view = s.current_view
  /\ t.view_change_sent = s.view_change_sent /\ s.committed \subseteq t.committed
  /\ t.current_key = s.current_key \/ (t.current_key = k /\ k \in DOMAIN s.instances)
  /\ \/ t.timeout_view = s.timeout_view
     \/ param[r].timeout /\ t.timeout_view = s.current_view
     \/ k \in t.committed /\ k \in DOMAIN s.instances

LEMMA WorksTrans ==
  ASSUME NEW r, NEW s, NEW t, NEW u, NEW k, Works(r, s, t, k), Works(r, t, u, k)
  PROVE  Works(r, s, u, k)
BY DEF Works

Telling == {"instances", "current_view", "view_change_sent", "committed", "current_key",
            "timeout_view"}

LEMMA OthersWork ==
  ASSUME NEW r, NEW s, NEW t, NEW k, OnlyIn(Fields \ Telling, s, t)
  PROVE  Works(r, s, t, k)
<1>1. Telling \subseteq Fields
  BY DEF Telling, Fields
<1>2. IsState(t) /\ \A f \in Telling : t[f] = s[f]
  BY <1>1 DEF OnlyIn
<1>3. /\ t.instances = s.instances /\ t.current_view = s.current_view
      /\ t.view_change_sent = s.view_change_sent /\ t.committed = s.committed
      /\ t.current_key = s.current_key /\ t.timeout_view = s.timeout_view
  BY <1>2 DEF Telling
<1> QED BY <1>2, <1>3 DEF Works

\* A field that does not tell
LEMMA FieldWorks ==
  ASSUME NEW r, NEW s, IsState(s), NEW k, NEW f \in Fields \ Telling, NEW x
  PROVE  Works(r, s, [s EXCEPT ![f] = x], k) /\ [s EXCEPT ![f] = x][f] = x
         /\ OnlyIn({f}, s, [s EXCEPT ![f] = x])
<1> DEFINE t == [s EXCEPT ![f] = x]
<1>1. OnlyIn({f}, s, t) /\ t[f] = x
  BY SetField
<1> HIDE DEF t
<1>2. OnlyIn(Fields \ Telling, s, t)
  BY <1>1 DEF OnlyIn
<1>3. Works(r, s, t, k)
  BY <1>2, OthersWork
<1> QED BY <1>1, <1>3 DEF t

LEMMA SameWorks == ASSUME NEW r, NEW s, IsState(s), NEW k PROVE Works(r, s, s, k)
BY DEF Works

LEMMA KeyWorks ==
  ASSUME NEW r, NEW s, IsState(s), NEW k, k \in DOMAIN s.instances
  PROVE  LET t == [s EXCEPT !.current_key = k]
         IN  Works(r, s, t, k) /\ OnlyIn({"current_key"}, s, t)
<1> DEFINE t == [s EXCEPT !.current_key = k]
<1>0. "current_key" \in Fields
  BY DEF Fields
<1>1. OnlyIn({"current_key"}, s, t) /\ t.current_key = k
  BY ONLY IsState(s), <1>0, SetField, Zenon
<1> HIDE DEF t
<1>2. Works(r, s, t, k)
  BY <1>1 DEF OnlyIn, Fields, Works
<1> QED BY <1>1, <1>2 DEF t

LEMMA ArmWorks ==
  ASSUME NEW r, NEW s, IsState(s), NEW k
  PROVE  /\ Works(r, s, Arm(s, r), k) /\ OnlyIn({"timeout_view"}, s, Arm(s, r))
         /\ param[r].timeout => Arm(s, r).timeout_view = s.current_view
         /\ ~ param[r].timeout => Arm(s, r) = s
<1> DEFINE x == s.current_view
           t == [s EXCEPT !.timeout_view = x]
<1>0. "timeout_view" \in Fields
  BY DEF Fields
<1>1. OnlyIn({"timeout_view"}, s, t) /\ t.timeout_view = x
  <2> HIDE DEF x
  <2> QED BY ONLY IsState(s), <1>0, SetField, Zenon
<1>2. Arm(s, r) = IF param[r].timeout THEN t ELSE s
  BY DEF Arm
<1> HIDE DEF t
<1>3. param[r].timeout => Works(r, s, t, k)
  BY <1>1 DEF OnlyIn, Fields, Works
<1>4. OnlyIn({"timeout_view"}, s, s) /\ Works(r, s, s, k)
  BY SameWorks DEF OnlyIn
<1> QED BY <1>1, <1>2, <1>3, <1>4
LEMMA BufferEarlyCommitsWorks ==
  ASSUME NEW r, NEW s, IsState(s), NEW k, NEW ms
  PROVE  Works(r, s, BufferEarlyCommits(s, k, ms), k)
<1> DEFINE new == {m \in ms : \A p \in Pending(s.pending_commits, k) : p.from # m.from}
           x == s.pending_commits \cup new
           t == [s EXCEPT !.pending_commits = x]
           key == IF new # {} /\ k \in DOMAIN s.instances THEN k ELSE s.current_key
           u == [t EXCEPT !.current_key = key]
<1>0. "pending_commits" \in Fields \ Telling /\ "current_key" \in Fields
  BY DEF Fields, Telling
<1>1. Works(r, s, t, k) /\ OnlyIn({"pending_commits"}, s, t)
  <2> HIDE DEF x
  <2> QED BY ONLY IsState(s), <1>0, FieldWorks, Zenon
<1>2. BufferEarlyCommits(s, k, ms) = u
  BY DEF BufferEarlyCommits
<1>3. key = s.current_key \/ (key = k /\ k \in DOMAIN s.instances)
  OBVIOUS
<1> HIDE DEF t, key
<1>4. IsState(t) /\ t.current_key = s.current_key /\ t.instances = s.instances
  BY <1>1 DEF OnlyIn, Fields
<1>5. OnlyIn({"current_key"}, t, u) /\ u.current_key = key
  BY ONLY <1>0, <1>4, SetField, Zenon
<1> HIDE DEF u
<1>6. Works(r, t, u, k)
  BY <1>3, <1>4, <1>5 DEF OnlyIn, Fields, Works
<1> QED BY <1>1, <1>2, <1>6, WorksTrans

LEMMA EvaluateCommittedWorks ==
  ASSUME NEW r, NEW s, IsState(s), NEW k, k \in DOMAIN s.instances
  PROVE  Works(r, s, EvaluateCommitted(s, k), k)
<1> DEFINE go == /\ k \notin s.committed
                 /\ k \in s.prepared
                 /\ Cardinality(SendersOf(s.commit_senders, k)) >= CommitThreshold
           x == s.committed \cup {k}
           t == [s EXCEPT !.timeout_view = NoTimer, !.committed = x, !.current_key = k]
<1>1. CASE ~ go
  BY <1>1, SameWorks DEF EvaluateCommitted
<1>2. CASE go
  <2>1. EvaluateCommitted(s, k) = t
    <3> DEFINE c == CancelTimeout(s)
    <3>1. c.committed = s.committed
      BY DEF CancelTimeout, IsState, Fields
    <3>2. EvaluateCommitted(s, k) = [c EXCEPT !.committed = x, !.current_key = k]
      <4> HIDE DEF c
      <4> QED BY <1>2, <3>1 DEF EvaluateCommitted, c
    <3> HIDE DEF x
    <3> QED BY <3>2 DEF CancelTimeout
  <2>2. s.committed \subseteq x /\ k \in x
    OBVIOUS
  <2> HIDE DEF x
  <2>3. OnlyIn({"timeout_view", "committed", "current_key"}, s, t) /\ t.committed = x
        /\ t.current_key = k
    BY DEF IsState, Fields, OnlyIn
  <2> HIDE DEF t
  <2>4. Works(r, s, t, k)
    BY <2>2, <2>3 DEF OnlyIn, Fields, Works
  <2> QED BY <2>1, <2>4
<1> QED BY <1>1, <1>2

LEMMA AcceptCommitsWorks ==
  ASSUME NEW r, NEW s, IsState(s), NEW k, NEW ms, \A m \in ms : Key(m) = k
  PROVE  Works(r, s, AcceptCommits(s, k, ms), k)
<1> DEFINE good == {m \in ms : Matches(s, m)}
           new == {m.from : m \in good} \ SendersOf(s.commit_senders, k)
           x == s.commit_senders \cup {<<k, a>> : a \in new}
           t == [s EXCEPT !.commit_senders = x]
           u == [t EXCEPT !.current_key = k]
<1>1. CASE k \notin s.prepared
  <2>1. AcceptCommits(s, k, ms) = BufferEarlyCommits(s, k, good)
    BY <1>1 DEF AcceptCommits
  <2> HIDE DEF good
  <2> QED BY <2>1, BufferEarlyCommitsWorks
<1>2. CASE k \in s.prepared /\ new = {}
  BY <1>2, SameWorks DEF AcceptCommits
<1>3. CASE k \in s.prepared /\ new # {}
  <2>1. AcceptCommits(s, k, ms) = EvaluateCommitted(u, k)
    BY <1>3 DEF AcceptCommits
  <2>2. k \in DOMAIN s.instances
    BY <1>3 DEF Matches
  <2>3. "commit_senders" \in Fields \ Telling
    BY DEF Fields, Telling
  <2>4. Works(r, s, t, k)
    <3> HIDE DEF x
    <3> QED BY ONLY IsState(s), <2>3, FieldWorks, Zenon
  <2> HIDE DEF t
  <2>5. IsState(t) /\ k \in DOMAIN t.instances
    BY <2>2, <2>4 DEF Works
  <2>6. Works(r, t, u, k)
    BY <2>5, KeyWorks
  <2> HIDE DEF u
  <2>7. IsState(u) /\ k \in DOMAIN u.instances
    BY <2>5, <2>6 DEF Works
  <2>8. Works(r, u, EvaluateCommitted(u, k), k)
    BY <2>7, EvaluateCommittedWorks
  <2> QED BY <2>1, <2>4, <2>6, <2>8, WorksTrans
<1> QED BY <1>1, <1>2, <1>3

\* A correct replica publishes its vote for k under k.
LEMMA OutgoingKey ==
  ASSUME NEW r \in Correct, NEW type, NEW k \in Nat \X Nat, NEW q
  PROVE  Key(Outgoing(type, r, k, q)) = k
<1>1. \A b \in {"invalid_sender", "wrong_view", "wrong_sequence"} : ~ Is(r, b)
  BY DEF Is, Correct
<1>2. Outgoing(type, r, k, q).view = k[1] /\ Outgoing(type, r, k, q).seq = k[2]
  BY <1>1 DEF Outgoing, Vote
<1> QED BY <1>2 DEF Key

LEMMA CorrectIs ==
  ASSUME NEW r \in Correct
  PROVE  \A b \in Behaviours \ {"none"} : ~ Is(r, b)
BY DEF Is, Correct

LEMMA PublishWorks ==
  ASSUME NEW r, NEW s, IsState(s), NEW k, NEW dests, NEW m
  PROVE  Works(r, s, Publish(s, dests, m), k)
<1> DEFINE x == s.out \cup {<<d, m>> : d \in dests}
<1>1. Publish(s, dests, m) = [s EXCEPT !.out = x] /\ "out" \in Fields \ Telling
  BY DEF Publish, Fields, Telling
<1> HIDE DEF x
<1>2. Works(r, s, [s EXCEPT !.out = x], k)
  BY ONLY IsState(s), <1>1, FieldWorks, Zenon
<1> QED BY <1>1, <1>2

LEMMA SendCommitWorks ==
  ASSUME NEW r \in Correct, NEW s, IsState(s), NEW k \in Nat \X Nat, NEW bypass \in BOOLEAN
  PROVE  Works(r, s, SendCommit(s, r, k, bypass), k)
<1>1. ~ Is(r, "silent") /\ ~ Is(r, "delayed_commit") /\ ~ Is(r, "skip_commit")
      /\ ~ Is(r, "equivocation") /\ ~ Is(r, "invalid_sender")
  BY CorrectIs DEF Behaviours
<1>2. CASE k \in s.commit_sent \/ k \notin s.prepared
  BY <1>2, SameWorks DEF SendCommit
<1>3. CASE ~ (k \in s.commit_sent \/ k \notin s.prepared)
  <2> DEFINE x == s.commit_sent \cup {k}
             sent == [s EXCEPT !.commit_sent = x]
             m == Outgoing("COMMIT", r, k, s.instances[k])
             t == AcceptCommits(sent, Key(m), {m})
  <2>1. SendCommit(s, r, k, bypass) = Publish(t, Audience(r), m)
    BY <1>1, <1>3 DEF SendCommit
  <2>2. Key(m) = k
    BY OutgoingKey
  <2>3. "commit_sent" \in Fields \ Telling
    BY DEF Fields, Telling
  <2>4. Works(r, s, sent, k)
    <3> HIDE DEF x
    <3> QED BY ONLY IsState(s), <2>3, FieldWorks, Zenon
  <2> HIDE DEF sent, m
  <2>5. IsState(sent)
    BY <2>4 DEF Works
  <2>6. Works(r, sent, t, k)
    BY <2>2, <2>5, AcceptCommitsWorks
  <2> HIDE DEF t
  <2>7. Works(r, t, Publish(t, Audience(r), m), k)
    BY <2>6, PublishWorks DEF Works
  <2> QED BY <2>1, <2>4, <2>6, <2>7, WorksTrans
<1> QED BY <1>2, <1>3

LEMMA CommitCallbackWorks ==
  ASSUME NEW r, NEW s, IsState(s), NEW m
  PROVE  \/ CommitCallback(s, r, m) = s
         \/ m.view = s.current_view /\ Works(r, s, CommitCallback(s, r, m), Key(m))
<1> DEFINE k == Key(m)
           a == BufferEarlyCommits(s, k, {m})
           b == AcceptCommits(s, k, {m})
<1>1. CommitCallback(s, r, m) = s \/ (m.view = s.current_view /\ CommitCallback(s, r, m) \in {a, b})
  BY DEF CommitCallback
<1>2. Works(r, s, a, k) /\ Works(r, s, b, k)
  BY BufferEarlyCommitsWorks, AcceptCommitsWorks
<1> HIDE DEF a, b
<1> QED BY <1>1, <1>2
LEMMA ProcessPendingCommitsWorks ==
  ASSUME NEW r, NEW s, IsState(s), NEW k
  PROVE  Works(r, s, ProcessPendingCommits(s, k), k)
<1> DEFINE x == s.pending_commits \ Pending(s.pending_commits, k)
           t == [s EXCEPT !.pending_commits = x]
           ms == Pending(s.pending_commits, k)
<1>1. ProcessPendingCommits(s, k) = AcceptCommits(t, k, ms)
  BY DEF ProcessPendingCommits
<1>2. \A m \in ms : Key(m) = k
  BY DEF Pending
<1>3. "pending_commits" \in Fields \ Telling
  BY DEF Fields, Telling
<1>4. Works(r, s, t, k)
  <2> HIDE DEF x
  <2> QED BY ONLY IsState(s), <1>3, FieldWorks, Zenon
<1> HIDE DEF t, ms
<1>5. IsState(t)
  BY <1>4 DEF Works
<1>6. Works(r, t, AcceptCommits(t, k, ms), k)
  BY <1>2, <1>5, AcceptCommitsWorks
<1> QED BY <1>1, <1>4, <1>6, WorksTrans

LEMMA EvaluatePreparedWorks ==
  ASSUME NEW r \in Correct, NEW s, IsState(s), NEW k \in Nat \X Nat, k \in DOMAIN s.instances
  PROVE  Works(r, s, EvaluatePrepared(s, r, k), k)
<1> DEFINE stop == \/ k \in s.prepared
                   \/ Cardinality(SendersOf(s.prepare_senders, k)) < PrepareThreshold
           x == s.prepared \cup {k}
           t == [s EXCEPT !.prepared = x]
           u == [t EXCEPT !.current_key = k]
           v == Arm(u, r)
           w == ProcessPendingCommits(v, k)
<1>1. CASE stop
  BY <1>1, SameWorks DEF EvaluatePrepared
<1>2. CASE ~ stop
  <2>1. EvaluatePrepared(s, r, k) = SendCommit(w, r, k, FALSE)
    BY <1>2 DEF EvaluatePrepared
  <2>2. "prepared" \in Fields \ Telling
    BY DEF Fields, Telling
  <2>3. Works(r, s, t, k)
    <3> HIDE DEF x
    <3> QED BY ONLY IsState(s), <2>2, FieldWorks, Zenon
  <2> HIDE DEF t
  <2>4. Works(r, t, u, k)
    BY <2>3, KeyWorks DEF Works
  <2> HIDE DEF u
  <2>5. IsState(u)
    BY <2>4 DEF Works
  <2>6. Works(r, u, v, k)
    BY <2>5, ArmWorks
  <2> HIDE DEF v
  <2>7. IsState(v)
    BY <2>6 DEF Works
  <2>8. Works(r, v, w, k)
    BY <2>7, ProcessPendingCommitsWorks
  <2> HIDE DEF w
  <2>9. IsState(w)
    BY <2>8 DEF Works
  <2>10. Works(r, w, SendCommit(w, r, k, FALSE), k)
    BY <2>9, SendCommitWorks
  <2>11. Works(r, s, v, k)
    BY <2>3, <2>4, <2>6, WorksTrans
  <2> QED BY <2>1, <2>8, <2>10, <2>11, WorksTrans
<1> QED BY <1>1, <1>2

LEMMA AcceptPreparesWorks ==
  ASSUME NEW r \in Correct, NEW s, IsState(s), NEW k \in Nat \X Nat, NEW ms,
         \A m \in ms : Key(m) = k
  PROVE  Works(r, s, AcceptPrepares(s, r, k, ms), k)
<1> DEFINE new == {m.from : m \in {x \in ms : Matches(s, x)}} \ SendersOf(s.prepare_senders, k)
           x == s.prepare_senders \cup {<<k, a>> : a \in new}
           t == [s EXCEPT !.prepare_senders = x]
           u == [t EXCEPT !.current_key = k]
<1>1. CASE new = {}
  BY <1>1, SameWorks DEF AcceptPrepares
<1>2. CASE new # {}
  <2>1. AcceptPrepares(s, r, k, ms) = EvaluatePrepared(u, r, k)
    BY <1>2 DEF AcceptPrepares
  <2>2. k \in DOMAIN s.instances
    BY <1>2 DEF Matches
  <2>3. "prepare_senders" \in Fields \ Telling
    BY DEF Fields, Telling
  <2>4. Works(r, s, t, k)
    <3> HIDE DEF x
    <3> QED BY ONLY IsState(s), <2>3, FieldWorks, Zenon
  <2> HIDE DEF t
  <2>5. IsState(t) /\ k \in DOMAIN t.instances
    BY <2>2, <2>4 DEF Works
  <2>6. Works(r, t, u, k)
    BY <2>5, KeyWorks
  <2> HIDE DEF u
  <2>7. IsState(u) /\ k \in DOMAIN u.instances
    BY <2>5, <2>6 DEF Works
  <2>8. Works(r, u, EvaluatePrepared(u, r, k), k)
    BY <2>7, EvaluatePreparedWorks
  <2> QED BY <2>1, <2>4, <2>6, <2>8, WorksTrans
<1> QED BY <1>1, <1>2

LEMMA ProcessPendingPreparesWorks ==
  ASSUME NEW r \in Correct, NEW s, IsState(s), NEW k \in Nat \X Nat
  PROVE  Works(r, s, ProcessPendingPrepares(s, r, k), k)
<1> DEFINE x == s.pending_prepares \ Pending(s.pending_prepares, k)
           t == [s EXCEPT !.pending_prepares = x]
           ms == Pending(s.pending_prepares, k)
<1>1. ProcessPendingPrepares(s, r, k) = AcceptPrepares(t, r, k, ms)
  BY DEF ProcessPendingPrepares
<1>2. \A m \in ms : Key(m) = k
  BY DEF Pending
<1>3. "pending_prepares" \in Fields \ Telling
  BY DEF Fields, Telling
<1>4. Works(r, s, t, k)
  <2> HIDE DEF x
  <2> QED BY ONLY IsState(s), <1>3, FieldWorks, Zenon
<1> HIDE DEF t, ms
<1>5. IsState(t)
  BY <1>4 DEF Works
<1>6. Works(r, t, AcceptPrepares(t, r, k, ms), k)
  BY <1>2, <1>5, AcceptPreparesWorks
<1> QED BY <1>1, <1>4, <1>6, WorksTrans

LEMMA SendPrepareWorks ==
  ASSUME NEW r \in Correct, NEW s, IsState(s), NEW k \in Nat \X Nat, NEW bypass \in BOOLEAN
  PROVE  Works(r, s, SendPrepare(s, r, k, bypass), k)
<1>1. ~ Is(r, "silent") /\ ~ Is(r, "delayed_prepare") /\ ~ Is(r, "skip_prepare")
      /\ ~ Is(r, "equivocation") /\ ~ Is(r, "invalid_sender")
  BY CorrectIs DEF Behaviours
<1>2. CASE k \in s.prepare_sent
  BY <1>2, SameWorks DEF SendPrepare
<1>3. CASE k \notin s.prepare_sent
  <2> DEFINE x == s.prepare_sent \cup {k}
             sent == [s EXCEPT !.prepare_sent = x]
             m == Outgoing("PREPARE", r, k, s.instances[k])
             t == AcceptPrepares(sent, r, Key(m), {m})
  <2>1. SendPrepare(s, r, k, bypass) = Publish(t, Audience(r), m)
    BY <1>1, <1>3 DEF SendPrepare
  <2>2. Key(m) = k
    BY OutgoingKey
  <2>3. "prepare_sent" \in Fields \ Telling
    BY DEF Fields, Telling
  <2>4. Works(r, s, sent, k)
    <3> HIDE DEF x
    <3> QED BY ONLY IsState(s), <2>3, FieldWorks, Zenon
  <2> HIDE DEF sent, m
  <2>5. IsState(sent)
    BY <2>4 DEF Works
  <2>6. Works(r, sent, t, k)
    BY <2>2, <2>5, AcceptPreparesWorks
  <2> HIDE DEF t
  <2>7. Works(r, t, Publish(t, Audience(r), m), k)
    BY <2>6, PublishWorks DEF Works
  <2> QED BY <2>1, <2>4, <2>6, <2>7, WorksTrans
<1> QED BY <1>2, <1>3

LEMMA PrepareCallbackWorks ==
  ASSUME NEW r \in Correct, NEW s, IsState(s), NEW m, m.view \in Nat, m.seq \in Nat
  PROVE  \/ PrepareCallback(s, r, m) = s
         \/ m.view = s.current_view /\ Works(r, s, PrepareCallback(s, r, m), Key(m))
<1> DEFINE k == Key(m)
           a == AcceptPrepares(s, r, k, {m})
           x == s.pending_prepares \cup {m}
           b == [s EXCEPT !.pending_prepares = x]
<1>1. \/ PrepareCallback(s, r, m) = s
      \/ m.view = s.current_view /\ PrepareCallback(s, r, m) \in {a, b}
  BY DEF PrepareCallback, BufferEarlyPrepare
<1>2. k \in Nat \X Nat
  BY DEF Key
<1>3. Works(r, s, a, k)
  BY <1>2, AcceptPreparesWorks
<1>4. Works(r, s, b, k)
  <2>1. "pending_prepares" \in Fields \ Telling
    BY DEF Fields, Telling
  <2> HIDE DEF x
  <2> QED BY ONLY IsState(s), <2>1, FieldWorks, Zenon
<1> HIDE DEF a, b
<1> QED BY <1>1, <1>3, <1>4

-----------------------------------------------------------------------------
(* The progress timer: one state of a replica and the next *)

\* A message names requests that the clients have asked for.
KnownMsg(m) ==
  /\ m.type \in {"REQUEST", "PRE-PREPARE"} => m.req \in asked
  /\ m.type = "VIEW-CHANGE" => \A c \in m.cert : c.req \in asked
  /\ m.type = "NEW-VIEW" => \A c \in m.choice : c.req \in asked

\* A replica works on what the clients have asked for.
KnownState(s) ==
  /\ s.cached \subseteq asked
  /\ \A k \in DOMAIN s.instances : s.instances[k] \in asked
  /\ \A m \in s.view_changes : \A c \in m.cert : c.req \in asked
  /\ \A o \in s.out : KnownMsg(o[2])

\* The primary of view 0 gives a request one number.
Numbered(s) ==
  \A j, k \in DOMAIN s.instances : j[1] = 0 /\ k[1] = 0 =>
     /\ s.instances[j] \in s.processed
     /\ s.instances[j] = s.instances[k] => j = k

OneKey(s) == \A j, k \in DOMAIN s.instances : j[1] = k[1] => j = k

\* What StalledIsWatched says of every instance of the view, not only of the
\* last one that was worked on.
Watched(r, s) ==
  /\ \A k \in DOMAIN s.instances : k[1] <= s.current_view
  /\ s.current_key # NoKey => s.current_key \in DOMAIN s.instances
  /\ s.current_key \in DOMAIN s.instances => s.current_key[1] = s.current_view
  /\ \A k \in DOMAIN s.instances :
       param[r].timeout /\ k[1] = s.current_view /\ k \notin s.committed
       => s.timeout_view = s.current_view \/ s.current_view + 1 \in s.view_change_sent

\* From s to t all of this is kept; OneKey is known of the last state.
Follows(r, s, t) ==
  /\ DOMAIN s.instances \subseteq DOMAIN t.instances
  /\ KnownState(s) => KnownState(t)
  /\ r = 0 /\ Numbered(s) => Numbered(t)
  /\ r \in Correct /\ OneKey(t) /\ Watched(r, s) => Watched(r, t)

LEMMA FollowsSame == ASSUME NEW r, NEW s PROVE Follows(r, s, s)
BY DEF Follows

LEMMA FollowsTrans ==
  ASSUME NEW r, NEW s, NEW t, NEW u, Follows(r, s, t), Follows(r, t, u)
  PROVE  Follows(r, s, u)
<1>1. OneKey(u) => OneKey(t)
  BY DEF Follows, OneKey
<1> QED BY <1>1 DEF Follows

LEMMA WorksWatched ==
  ASSUME NEW r, NEW s, NEW t, NEW k, Works(r, s, t, k), k[1] = s.current_view,
         OneKey(t), Watched(r, s)
  PROVE  Watched(r, t)
<1>1. t.instances = s.instances /\ t.current_view = s.current_view
  BY DEF Works
<1>2. /\ \A j \in DOMAIN t.instances : j[1] <= t.current_view
      /\ t.current_key # NoKey => t.current_key \in DOMAIN t.instances
      /\ t.current_key \in DOMAIN t.instances => t.current_key[1] = t.current_view
  BY <1>1 DEF Works, Watched
<1>3. ASSUME NEW j \in DOMAIN t.instances, param[r].timeout, j[1] = t.current_view,
             j \notin t.committed
      PROVE  t.timeout_view = t.current_view \/ t.current_view + 1 \in t.view_change_sent
  <2>1. j \notin s.committed /\ t.view_change_sent = s.view_change_sent
    BY <1>3 DEF Works
  <2>2. s.timeout_view = s.current_view \/ s.current_view + 1 \in s.view_change_sent
    BY <1>1, <1>3, <2>1 DEF Watched
  <2>3. ~ (k \in t.committed /\ k \in DOMAIN s.instances)
    BY <1>1, <1>3 DEF OneKey
  <2> QED BY <1>1, <2>1, <2>2, <2>3 DEF Works
<1> QED BY <1>2, <1>3 DEF Watched

LEMMA VoteKnown ==
  ASSUME NEW s, NEW t, VoteStep(s, t), KnownState(s) PROVE KnownState(t)
<1>1. t.cached = s.cached /\ t.instances = s.instances /\ t.view_changes = s.view_changes
  BY DEF VoteStep
<1>2. \A o \in t.out : KnownMsg(o[2])
  BY DEF VoteStep, KnownState, KnownMsg
<1> QED BY <1>1, <1>2 DEF KnownState

LEMMA VoteFollows ==
  ASSUME NEW r, NEW s, NEW t, VoteStep(s, t),
         r \in Correct /\ Watched(r, s) =>
           t = s \/ \E k : k[1] = s.current_view /\ Works(r, s, t, k)
  PROVE  Follows(r, s, t)
<1>1. t.instances = s.instances /\ t.processed = s.processed
  BY DEF VoteStep
<1>2. KnownState(s) => KnownState(t)
  BY VoteKnown
<1>3. Numbered(s) => Numbered(t)
  BY <1>1 DEF Numbered
<1>4. ASSUME r \in Correct, OneKey(t), Watched(r, s) PROVE Watched(r, t)
  <2>1. CASE t = s
    BY <1>4, <2>1
  <2>2. CASE \E k : k[1] = s.current_view /\ Works(r, s, t, k)
    BY <1>4, <2>2, WorksWatched
  <2> QED BY <1>4, <2>1, <2>2
<1> QED BY <1>1, <1>2, <1>3, <1>4 DEF Follows

\* A step that adds no instance
LEMMA QuietFollows ==
  ASSUME NEW r, NEW s, NEW t,
         t.instances = s.instances, t.current_view = s.current_view,
         s.processed \subseteq t.processed, t.committed = s.committed,
         s.view_change_sent \subseteq t.view_change_sent,
         \/ t.current_key = s.current_key
         \/ t.current_key \in DOMAIN s.instances /\ t.current_key[1] = s.current_view,
         \/ t.timeout_view = s.timeout_view
         \/ param[r].timeout /\ t.timeout_view = s.current_view
         \/ r \in Correct => s.current_view + 1 \in t.view_change_sent,
         KnownState(s) => KnownState(t)
  PROVE  Follows(r, s, t)
<1>1. Numbered(s) => Numbered(t)
  BY DEF Numbered
<1>2. r \in Correct /\ Watched(r, s) => Watched(r, t)
  BY DEF Watched
<1> QED BY <1>1, <1>2 DEF Follows

\* A step that adds the instance k of the view and starts the timer
LEMMA AddFollows ==
  ASSUME NEW r, NEW s, NEW t, NEW k, NEW q \in asked,
         s.current_view \in Nat, t.current_view \in Nat, s.current_view <= t.current_view,
         DOMAIN s.instances \subseteq Nat \X Nat, k[1] = t.current_view,
         DOMAIN t.instances = DOMAIN s.instances \cup {k}, t.instances[k] = q,
         \A j \in DOMAIN s.instances : t.instances[j] = s.instances[j],
         s.processed \subseteq t.processed,
         r = 0 /\ k[1] = 0 => q \in t.processed /\ q \notin s.processed,
         \/ t.current_key = k
         \/ t.current_key = s.current_key /\ t.current_view = s.current_view,
         param[r].timeout => t.timeout_view = t.current_view,
         t.cached \subseteq s.cached \cup {q}, t.view_changes = s.view_changes,
         KnownState(s) => \A o \in t.out : KnownMsg(o[2])
  PROVE  Follows(r, s, t)
<1>1. KnownState(s) => KnownState(t)
  BY DEF KnownState
<1>2. ASSUME r = 0, Numbered(s) PROVE Numbered(t)
  <2> SUFFICES ASSUME NEW i \in DOMAIN t.instances, NEW j \in DOMAIN t.instances,
                      i[1] = 0, j[1] = 0
               PROVE  /\ t.instances[i] \in t.processed
                      /\ t.instances[i] = t.instances[j] => i = j
    BY DEF Numbered
  <2>1. \A h \in DOMAIN s.instances : h[1] = 0 => s.instances[h] \in s.processed
    BY <1>2 DEF Numbered
  <2>2. CASE i \in DOMAIN s.instances /\ j \in DOMAIN s.instances
    BY <1>2, <2>2 DEF Numbered
  <2>3. CASE i = k /\ j \in DOMAIN s.instances
    BY <1>2, <2>1, <2>3
  <2>4. CASE i \in DOMAIN s.instances /\ j = k
    BY <1>2, <2>1, <2>4
  <2>5. CASE i = k /\ j = k
    BY <1>2, <2>5
  <2> QED BY <2>2, <2>3, <2>4, <2>5
<1>3. ASSUME Watched(r, s) PROVE Watched(r, t)
  <2>1. \A j \in DOMAIN t.instances : j[1] <= t.current_view
    BY <1>3 DEF Watched
  <2>2. /\ t.current_key # NoKey => t.current_key \in DOMAIN t.instances
        /\ t.current_key \in DOMAIN t.instances => t.current_key[1] = t.current_view
    BY <1>3 DEF Watched
  <2> QED BY <2>1, <2>2 DEF Watched
<1> QED BY <1>1, <1>2, <1>3 DEF Follows

\* The callbacks for votes
LEMMA PrepareCallbackFollows ==
  ASSUME NEW r \in Replicas, NEW s, ReplicaInv(r, s), NEW m, m.type = "PREPARE",
         MessageOK(r, s, m)
  PROVE  Follows(r, s, PrepareCallback(s, r, m))
<1> DEFINE t == PrepareCallback(s, r, m)
<1>1. VoteStep(s, t)
  BY PrepareCallbackVoted DEF Voted
<1>2. IsState(s) /\ m.view \in Nat /\ m.seq \in Nat /\ Key(m)[1] = m.view
  BY DEF ReplicaInv, KeysInv, MessageOK, Key
<1>3. r \in Correct => t = s \/ (m.view = s.current_view /\ Works(r, s, t, Key(m)))
  BY <1>2, PrepareCallbackWorks
<1> HIDE DEF t
<1>4. r \in Correct => t = s \/ \E k : k[1] = s.current_view /\ Works(r, s, t, k)
  BY <1>2, <1>3
<1>5. Follows(r, s, t)
  BY <1>1, <1>4, VoteFollows
<1> QED BY <1>5 DEF t

LEMMA CommitCallbackFollows ==
  ASSUME NEW r \in Replicas, NEW s, ReplicaInv(r, s), NEW m, m.type = "COMMIT",
         MessageOK(r, s, m)
  PROVE  Follows(r, s, CommitCallback(s, r, m))
<1> DEFINE t == CommitCallback(s, r, m)
<1>1. VoteStep(s, t)
  BY CommitCallbackVoted DEF Voted
<1>2. IsState(s) /\ Key(m)[1] = m.view
  BY DEF ReplicaInv, KeysInv, Key
<1>3. t = s \/ (m.view = s.current_view /\ Works(r, s, t, Key(m)))
  BY <1>2, CommitCallbackWorks
<1> HIDE DEF t
<1>4. t = s \/ \E k : k[1] = s.current_view /\ Works(r, s, t, k)
  BY <1>2, <1>3
<1>5. Follows(r, s, t)
  BY <1>1, <1>4, VoteFollows
<1> QED BY <1>5 DEF t

LEMMA DelayedFollows ==
  ASSUME NEW r \in Replicas, NEW s, ReplicaInv(r, s), NEW k
  PROVE  /\ k \in s.prepare_scheduled =>
              Follows(r, s, SendPrepare([s EXCEPT !.prepare_scheduled = @ \ {k}], r, k, TRUE))
         /\ k \in s.commit_scheduled =>
              Follows(r, s, SendCommit([s EXCEPT !.commit_scheduled = @ \ {k}], r, k, TRUE))
<1>0. IsState(s) /\ "prepare_scheduled" \in Fields \ Telling
      /\ "commit_scheduled" \in Fields \ Telling
  BY DEF ReplicaInv, KeysInv, Fields, Telling
<1>1. /\ DOMAIN s.instances \subseteq Nat \X Nat /\ s.current_view \in Nat
      /\ k \in s.prepare_scheduled \cup s.commit_scheduled =>
           k \in DOMAIN s.instances /\ k[1] >= s.current_view
  BY DEF ReplicaInv, KeysInv
<1>2. k \in s.prepare_scheduled \cup s.commit_scheduled =>
        /\ k \in Nat \X Nat
        /\ Watched(r, s) => k[1] = s.current_view
  BY <1>1 DEF Watched
<1>3. ASSUME k \in s.prepare_scheduled
      PROVE  Follows(r, s, SendPrepare([s EXCEPT !.prepare_scheduled = @ \ {k}], r, k, TRUE))
  <2> DEFINE x == s.prepare_scheduled \ {k}
             a == [s EXCEPT !.prepare_scheduled = x]
             t == SendPrepare(a, r, k, TRUE)
  <2>1. VoteStep(s, t)
    BY <1>3, DelayedVoted DEF Voted
  <2>2. Works(r, s, a, k)
    <3> HIDE DEF x
    <3> QED BY ONLY <1>0, FieldWorks, Zenon
  <2> HIDE DEF a
  <2>3. IsState(a) /\ k \in Nat \X Nat
    BY <1>2, <1>3, <2>2 DEF Works
  <2>4. r \in Correct => Works(r, a, t, k)
    BY <2>3, SendPrepareWorks
  <2> HIDE DEF t
  <2>5. r \in Correct => Works(r, s, t, k)
    BY <2>2, <2>4, WorksTrans
  <2>6. Follows(r, s, t)
    BY <1>2, <1>3, <2>1, <2>5, VoteFollows
  <2> QED BY <2>6 DEF t, a
<1>4. ASSUME k \in s.commit_scheduled
      PROVE  Follows(r, s, SendCommit([s EXCEPT !.commit_scheduled = @ \ {k}], r, k, TRUE))
  <2> DEFINE x == s.commit_scheduled \ {k}
             a == [s EXCEPT !.commit_scheduled = x]
             t == SendCommit(a, r, k, TRUE)
  <2>1. VoteStep(s, t)
    BY <1>4, DelayedVoted DEF Voted
  <2>2. Works(r, s, a, k)
    <3> HIDE DEF x
    <3> QED BY ONLY <1>0, FieldWorks, Zenon
  <2> HIDE DEF a
  <2>3. IsState(a) /\ k \in Nat \X Nat
    BY <1>2, <1>4, <2>2 DEF Works
  <2>4. r \in Correct => Works(r, a, t, k)
    BY <2>3, SendCommitWorks
  <2> HIDE DEF t
  <2>5. r \in Correct => Works(r, s, t, k)
    BY <2>2, <2>4, WorksTrans
  <2>6. Follows(r, s, t)
    BY <1>2, <1>4, <2>1, <2>5, VoteFollows
  <2> QED BY <2>6 DEF t, a
<1> QED BY <1>3, <1>4
LEMMA PrePrepareCallbackFollows ==
  ASSUME NEW r \in Replicas, NEW s, ReplicaInv(r, s), NEW m, m.type = "PRE-PREPARE",
         MessageOK(r, s, m), KnownMsg(m),
         r = 0 /\ m.view = 0 => Key(m) \in DOMAIN s.instances
  PROVE  Follows(r, s, PrePrepareCallback(s, r, m))
<1> DEFINE k == Key(m)
           new == k \notin DOMAIN s.instances
           added == [s EXCEPT !.instances = With(@, k, m.req)]
           t == IF new THEN Arm(added, r) ELSE s
           u == [t EXCEPT !.current_key = k]
           v == ProcessPendingPrepares(u, r, k)
           w == IF Is(r, "early_commit") THEN SendEarlyCommit(v, r, k) ELSE v
           x == SendPrepare(w, r, k, FALSE)
           drop == \/ m.from # PrimaryForView(s.current_view)
                   \/ m.view # s.current_view
                   \/ m.seq = 0 \/ ~ m.valid
                   \/ ~ new /\ s.instances[k] # m.req
<1>1. CASE drop
  <2>1. PrePrepareCallback(s, r, m) = s
    BY <1>1 DEF PrePrepareCallback
  <2> QED BY <2>1, FollowsSame
<1>2. CASE ~ drop
  <2>0. PrePrepareCallback(s, r, m) \in {u, w, x}
    BY <1>2 DEF PrePrepareCallback
  <2>1. k \in Nat \X Nat /\ Recent(s, k) /\ k[1] = s.current_view /\ m.req \in asked
    BY <1>2 DEF MessageOK, Key, Recent, KnownMsg
  <2>2. /\ ReplicaInv(r, t) /\ k \in DOMAIN t.instances /\ t.current_view = s.current_view
        /\ Follows(r, s, t)
    <3>1. CASE new
      <4> DEFINE q == m.req
      <4>1. /\ ReplicaInv(r, added) /\ OnlyIn({"instances"}, s, added)
            /\ k \in DOMAIN added.instances
        <5>1. added = Added(s, k, m.req)
          BY DEF Added
        <5>2. k \in DOMAIN s.instances => s.instances[k] = m.req
          BY <3>1
        <5> HIDE DEF k, added
        <5> QED BY <2>1, <5>1, <5>2, AddInstance
      <4>2. /\ DOMAIN added.instances = DOMAIN s.instances \cup {k} /\ added.instances[k] = q
            /\ \A j \in DOMAIN s.instances : added.instances[j] = s.instances[j]
        <5> DEFINE y == With(s.instances, k, q)
        <5>1. /\ DOMAIN y = DOMAIN s.instances \cup {k} /\ y[k] = q
              /\ \A j \in DOMAIN s.instances : y[j] = s.instances[j]
          BY <3>1 DEF With
        <5>2. IsState(s) /\ "instances" \in Fields
          BY DEF ReplicaInv, KeysInv, Fields
        <5>3. added = [s EXCEPT !.instances = y]
          OBVIOUS
        <5> HIDE DEF y, added
        <5>4. added.instances = y
          BY ONLY <5>2, <5>3, SetField, Zenon
        <5> QED BY <5>1, <5>4
      <4> HIDE DEF added, k, q
      <4>3. IsState(added)
        BY <4>1 DEF OnlyIn
      <4>4. Voted(r, added, t)
        BY <3>1, <4>1, ArmVoted
      <4>5. /\ OnlyIn({"timeout_view"}, added, t)
            /\ param[r].timeout => t.timeout_view = added.current_view
        BY <3>1, <4>3, ArmWorks
      <4> HIDE DEF t
      <4>6. /\ t.current_view = s.current_view /\ t.processed = s.processed
            /\ t.current_key = s.current_key /\ t.cached = s.cached
            /\ t.view_changes = s.view_changes /\ t.out = s.out
            /\ t.instances = added.instances
            /\ param[r].timeout => t.timeout_view = t.current_view
        BY <4>1, <4>5 DEF OnlyIn, Fields
      <4>7. s.current_view \in Nat /\ DOMAIN s.instances \subseteq Nat \X Nat
        BY DEF ReplicaInv, KeysInv
      <4>8. KnownState(s) => \A o \in t.out : KnownMsg(o[2])
        BY <4>6 DEF KnownState
      <4>9. ~ (r = 0 /\ k[1] = 0)
        BY <2>1, <3>1, <1>2 DEF k
      <4>10. q \in asked
        BY <2>1 DEF q
      <4>11. Follows(r, s, t)
        BY <2>1, <4>2, <4>6, <4>7, <4>8, <4>9, <4>10, AddFollows
      <4> QED BY <4>1, <4>4, <4>6, <4>11 DEF Voted
    <3>2. CASE ~ new
      BY <3>2, FollowsSame
    <3> QED BY <3>1, <3>2
  <2> HIDE DEF t, k
  <2>3. IsState(t) /\ Recent(t, k) /\ k[1] = t.current_view
    BY <2>1, <2>2 DEF ReplicaInv, KeysInv, Recent
  <2>4. Voted(r, t, u) /\ Works(r, t, u, k)
    BY <2>2, <2>3, TimersVoted, KeyWorks
  <2> HIDE DEF u
  <2>5. ReplicaInv(r, u) /\ k \in DOMAIN u.instances /\ Recent(u, k) /\ IsState(u)
    BY <2>2, <2>3, <2>4 DEF Voted, VoteStep, Recent
  <2>6. Voted(r, u, v)
    BY <2>5, ProcessPendingPreparesVoted
  <2>7. r \in Correct => Works(r, u, v, k)
    BY <2>1, <2>5, ProcessPendingPreparesWorks
  <2> HIDE DEF v
  <2>8. ReplicaInv(r, v) /\ k \in DOMAIN v.instances /\ Recent(v, k)
    BY <2>5, <2>6 DEF Voted, VoteStep, Recent
  <2>9. Voted(r, v, w)
    BY <2>8, SendEarlyCommitVoted, VotedSame
  <2>10. r \in Correct => w = v
    BY CorrectIs DEF Behaviours
  <2> HIDE DEF w
  <2>11. ReplicaInv(r, w) /\ k \in DOMAIN w.instances /\ Recent(w, k) /\ IsState(w)
    BY <2>8, <2>9 DEF Voted, VoteStep, Recent
  <2>12. Voted(r, w, x)
    BY <2>11, SendPrepareVoted
  <2>13. r \in Correct => Works(r, w, x, k)
    BY <2>1, <2>11, SendPrepareWorks
  <2> HIDE DEF x
  <2>14. Voted(r, t, w)
    BY <2>4, <2>6, <2>9, VotedTrans
  <2>15. Voted(r, t, x)
    BY <2>12, <2>14, VotedTrans
  <2>16. r \in Correct => Works(r, t, w, k) /\ Works(r, t, x, k)
    BY <2>4, <2>7, <2>10, <2>13, WorksTrans
  <2>17. VoteStep(t, u) /\ VoteStep(t, w) /\ VoteStep(t, x)
    BY <2>4, <2>14, <2>15 DEF Voted
  <2>18. Follows(r, t, u) /\ Follows(r, t, w) /\ Follows(r, t, x)
    BY <2>3, <2>4, <2>16, <2>17, VoteFollows
  <2>19. Follows(r, s, u) /\ Follows(r, s, w) /\ Follows(r, s, x)
    BY <2>2, <2>18, FollowsTrans
  <2> QED BY <2>0, <2>19
<1> QED BY <1>1, <1>2

LEMMA CacheRequestFollows ==
  ASSUME NEW r, NEW s, IsState(s), NEW q \in asked
  PROVE  LET t == CacheRequest(s, r, q)
         IN  /\ OnlyIn({"cached", "timeout_view"}, s, t) /\ Follows(r, s, t)
             /\ t.cached \subseteq s.cached \cup {q}
<1>1. CASE q \in s.cached
  <2>1. CacheRequest(s, r, q) = s
    BY <1>1 DEF CacheRequest
  <2> QED BY <2>1, FollowsSame DEF OnlyIn
<1>2. CASE q \notin s.cached
  <2> DEFINE x == s.cached \cup {q}
             a == [s EXCEPT !.cached = x]
             t == Arm(a, r)
  <2>1. CacheRequest(s, r, q) = t
    BY <1>2 DEF CacheRequest
  <2>2. "cached" \in Fields
    BY DEF Fields
  <2>3. OnlyIn({"cached"}, s, a) /\ a.cached = x
    <3> HIDE DEF x
    <3> QED BY ONLY IsState(s), <2>2, SetField, Zenon
  <2> HIDE DEF a
  <2>4. IsState(a)
    BY <2>3 DEF OnlyIn
  <2>5. /\ OnlyIn({"timeout_view"}, a, t)
        /\ param[r].timeout => t.timeout_view = a.current_view
        /\ ~ param[r].timeout => t = a
    BY <2>4, ArmWorks
  <2> HIDE DEF t
  <2>6. /\ t.instances = s.instances /\ t.current_view = s.current_view
        /\ t.processed = s.processed /\ t.committed = s.committed
        /\ t.view_change_sent = s.view_change_sent /\ t.current_key = s.current_key
        /\ t.view_changes = s.view_changes /\ t.out = s.out /\ t.cached = x
    BY <2>3, <2>5 DEF OnlyIn, Fields
  <2>7. t.timeout_view = s.timeout_view \/ (param[r].timeout /\ t.timeout_view = s.current_view)
    BY <2>3, <2>5 DEF OnlyIn, Fields
  <2>8. KnownState(s) => KnownState(t)
    BY <2>6 DEF KnownState
  <2>9. Follows(r, s, t)
    BY <2>6, <2>7, <2>8, QuietFollows
  <2>10. OnlyIn({"cached", "timeout_view"}, s, t)
    BY <2>3, <2>5 DEF OnlyIn
  <2> QED BY <2>1, <2>6, <2>9, <2>10
<1> QED BY <1>1, <1>2

LEMMA RequestCallbackFollows ==
  ASSUME NEW r, NEW s, ReplicaInv(r, s), NEW m, m.type = "REQUEST", MessageOK(r, s, m),
         KnownMsg(m), r = 0 => <<0, s.next_sequence_number>> \notin DOMAIN s.instances
  PROVE  Follows(r, s, RequestCallback(s, r, m))
<1> DEFINE q == m.req
           a == CacheRequest(s, r, q)
           t == RequestCallback(s, r, m)
           k == <<a.current_view, a.next_sequence_number>>
           instances == With(a.instances, k, q)
           next == a.next_sequence_number + 1
           processed == a.processed \cup {q}
           b == [a EXCEPT !.next_sequence_number = next, !.instances = instances,
                          !.processed = processed, !.current_key = k]
           n == PrePrepare(r, k, q)
           c == Publish(b, Replicas, n)
           d == Arm(c, r)
<1>0. IsState(s) /\ q \in asked /\ m.view = 0
  BY DEF ReplicaInv, KeysInv, KnownMsg, MessageOK
<1>1. /\ OnlyIn({"cached", "timeout_view"}, s, a) /\ Follows(r, s, a)
      /\ a.cached \subseteq s.cached \cup {q}
  <2> HIDE DEF q
  <2> QED BY <1>0, CacheRequestFollows
<1> HIDE DEF a
<1>2. IsState(a) /\ a.instances = s.instances /\ a.current_view = s.current_view
      /\ a.processed = s.processed /\ a.next_sequence_number = s.next_sequence_number
  BY <1>1 DEF OnlyIn, Fields
<1>3. CASE m.view # s.current_view
  <2>1. t = s
    BY <1>3 DEF RequestCallback
  <2> QED BY <2>1, FollowsSame
<1>4. CASE m.view = s.current_view /\ (~ IsPrimary(s, r) \/ q \in s.processed)
  <2>1. t = a
    BY <1>4 DEF RequestCallback, a
  <2> QED BY <1>1, <2>1
<1>5. CASE /\ m.view = s.current_view /\ IsPrimary(s, r) /\ q \notin s.processed
           /\ Is(r, "skip_pre_prepare")
  <2>1. t = [a EXCEPT !.processed = processed]
    BY <1>5 DEF RequestCallback, a
  <2>2. "processed" \in Fields /\ a.processed \subseteq processed
    BY DEF Fields
  <2> HIDE DEF t, processed
  <2>3. OnlyIn({"processed"}, a, t) /\ t.processed = processed
    BY ONLY <1>2, <2>1, <2>2, SetField, Zenon
  <2>4. /\ t.instances = a.instances /\ t.current_view = a.current_view
        /\ t.committed = a.committed
        /\ t.view_change_sent = a.view_change_sent /\ t.current_key = a.current_key
        /\ t.view_changes = a.view_changes /\ t.out = a.out /\ t.cached = a.cached
        /\ t.timeout_view = a.timeout_view
    BY <2>3 DEF OnlyIn, Fields
  <2>5. KnownState(a) => KnownState(t)
    BY <2>4 DEF KnownState
  <2>6. Follows(r, a, t)
    BY <2>2, <2>3, <2>4, <2>5, QuietFollows
  <2>7. Follows(r, s, t)
    BY <1>1, <2>6, FollowsTrans
  <2> QED BY <2>7 DEF t
<1>6. CASE /\ m.view = s.current_view /\ IsPrimary(s, r) /\ q \notin s.processed
           /\ ~ Is(r, "skip_pre_prepare")
  <2>1. t = d
    BY <1>6 DEF RequestCallback, ProcessCachedRequestAsPrimary, a
  <2>2. /\ r = 0 /\ k = <<0, s.next_sequence_number>>
        /\ k \notin DOMAIN a.instances /\ k[1] = a.current_view /\ a.current_view \in Nat
    BY <1>0, <1>2, <1>6, PrimaryOfViewZero DEF IsPrimary, ReplicaInv, KeysInv
  <2>3. /\ DOMAIN instances = DOMAIN a.instances \cup {k} /\ instances[k] = q
        /\ \A j \in DOMAIN a.instances : instances[j] = a.instances[j]
    BY <2>2 DEF With
  <2>4. q \in processed /\ a.processed \subseteq processed /\ q \notin a.processed
    BY <1>2, <1>6
  <2> HIDE DEF t, k, instances, next, processed, q
  <2>5. /\ OnlyIn({"next_sequence_number", "instances", "processed", "current_key"}, a, b)
        /\ b.instances = instances /\ b.processed = processed /\ b.current_key = k
    BY <1>2 DEF IsState, Fields, OnlyIn
  <2> HIDE DEF b
  <2>6. n.type = "PRE-PREPARE" /\ n.req = q
    BY DEF PrePrepare, Vote
  <2> HIDE DEF n
  <2>7. OnlyIn({"out"}, b, c) /\ c.out = b.out \cup {<<e, n>> : e \in Replicas}
    <3> DEFINE o == b.out \cup {<<e, n>> : e \in Replicas}
    <3>1. c = [b EXCEPT !.out = o] /\ IsState(b) /\ "out" \in Fields
      BY <2>5 DEF Publish, OnlyIn, Fields
    <3>2. OnlyIn({"out"}, b, c) /\ c.out = o
      <4> HIDE DEF o, c
      <4> QED BY ONLY <3>1, SetField, Zenon
    <3> QED BY <3>2
  <2> HIDE DEF c
  <2>8. IsState(c)
    BY <2>7 DEF OnlyIn
  <2>9. OnlyIn({"timeout_view"}, c, d) /\ (param[r].timeout => d.timeout_view = c.current_view)
    BY <2>8, ArmWorks
  <2> HIDE DEF d
  <2>10. /\ d.current_view = a.current_view /\ d.instances = instances
         /\ d.processed = processed /\ d.current_key = k /\ d.cached = a.cached
         /\ d.view_changes = a.view_changes
         /\ param[r].timeout => d.timeout_view = d.current_view
    BY <2>5, <2>7, <2>9 DEF OnlyIn, Fields
  <2>11. KnownState(a) => \A o \in d.out : KnownMsg(o[2])
    <3>1. d.out = a.out \cup {<<e, n>> : e \in Replicas}
      BY <2>5, <2>7, <2>9 DEF OnlyIn, Fields
    <3>2. KnownMsg(n)
      BY <1>0, <2>6 DEF KnownMsg
    <3> QED BY <3>1, <3>2 DEF KnownState
  <2>12. DOMAIN a.instances \subseteq Nat \X Nat
    BY <1>2 DEF ReplicaInv, KeysInv
  <2>13. Follows(r, a, d)
    BY <1>0, <2>2, <2>3, <2>4, <2>10, <2>11, <2>12, AddFollows
  <2>14. Follows(r, s, t)
    BY <1>1, <2>1, <2>13, FollowsTrans
  <2> QED BY <2>14 DEF t
<1> QED BY <1>3, <1>4, <1>5, <1>6
-----------------------------------------------------------------------------
(* The progress timer: view changes *)

\* From s to t only view changes and publications are added.
Minor(s, t) ==
  /\ OnlyIn({"view_changes", "new_view_sent", "out"}, s, t)
  /\ KnownState(s) => KnownState(t)

LEMMA MinorTrans ==
  ASSUME NEW s, NEW t, NEW u, Minor(s, t), Minor(t, u) PROVE Minor(s, u)
BY DEF Minor, OnlyIn

LEMMA PublishMinor ==
  ASSUME NEW s, IsState(s), NEW dests, NEW m, KnownState(s) => KnownMsg(m)
  PROVE  Minor(s, Publish(s, dests, m))
<1> DEFINE o == s.out \cup {<<e, m>> : e \in dests}
           t == [s EXCEPT !.out = o]
<1>1. Publish(s, dests, m) = t /\ "out" \in Fields
  BY DEF Publish, Fields
<1>2. OnlyIn({"out"}, s, t) /\ t.out = o
  <2> HIDE DEF o
  <2> QED BY ONLY IsState(s), <1>1, SetField, Zenon
<1> HIDE DEF t
<1>3. t.cached = s.cached /\ t.instances = s.instances /\ t.view_changes = s.view_changes
  BY <1>2 DEF OnlyIn, Fields
<1>4. KnownState(s) => KnownState(t)
  BY <1>2, <1>3 DEF KnownState
<1>5. OnlyIn({"view_changes", "new_view_sent", "out"}, s, t)
  BY <1>2 DEF OnlyIn
<1> QED BY <1>1, <1>4, <1>5 DEF Minor

LEMMA SelectRequestKnown ==
  ASSUME NEW s, KnownState(s), NEW proof, proof \subseteq s.view_changes,
         NEW c \in SelectRequest(s, proof)
  PROVE  c.req \in asked
<1> DEFINE certs == UNION {m.cert : m \in proof}
           highest == {x \in certs : \A d \in certs : d.view <= x.view}
           choices == {[prepared |-> TRUE, view |-> x.view, seq |-> x.seq, req |-> x.req]
                         : x \in highest}
           done == {s.instances[k] : k \in s.committed \cap DOMAIN s.instances}
           eligible == s.cached \ done
           other == {[prepared |-> FALSE, view |-> 0, seq |-> s.next_sequence_number, req |-> q]
                       : q \in eligible}
<1>1. c \in choices \/ c \in other
  BY DEF SelectRequest
<1>2. \A x \in highest : x.req \in asked
  BY DEF KnownState
<1>3. \A q \in eligible : q \in asked
  BY DEF KnownState
<1> HIDE DEF highest, eligible
<1>4. CASE c \in choices
  BY <1>2, <1>4
<1>5. CASE c \in other
  BY <1>3, <1>5
<1> QED BY <1>1, <1>4, <1>5

LEMMA MaybePublishNewViewMinor ==
  ASSUME NEW r, NEW s, IsState(s), NEW v
  PROVE  Minor(s, MaybePublishNewView(s, r, v))
<1> DEFINE proof == {m \in s.view_changes : m.new_view = v}
           choice == SelectRequest(s, proof)
           x == s.new_view_sent \cup {v}
           a == [s EXCEPT !.new_view_sent = x]
           m == NewView(r, v, proof, choice)
<1>1. MaybePublishNewView(s, r, v) \in {s, Publish(a, Replicas, m)}
  BY DEF MaybePublishNewView
<1>2. Minor(s, s)
  BY DEF Minor, OnlyIn
<1>3. "new_view_sent" \in Fields
  BY DEF Fields
<1>4. OnlyIn({"new_view_sent"}, s, a)
  <2> HIDE DEF x
  <2> QED BY ONLY IsState(s), <1>3, SetField, Zenon
<1>5. KnownState(s) => KnownMsg(m)
  <2>1. proof \subseteq s.view_changes
    OBVIOUS
  <2>2. m.type = "NEW-VIEW" /\ m.choice = choice
    BY DEF NewView
  <2> HIDE DEF proof, m
  <2>3. KnownState(s) => \A c \in choice : c.req \in asked
    BY <2>1, SelectRequestKnown
  <2> HIDE DEF choice
  <2> QED BY <2>2, <2>3 DEF KnownMsg
<1> HIDE DEF a, m
<1>6. /\ a.cached = s.cached /\ a.instances = s.instances
      /\ a.view_changes = s.view_changes /\ a.out = s.out /\ IsState(a)
  BY <1>4 DEF OnlyIn, Fields
<1>7. KnownState(s) <=> KnownState(a)
  BY <1>6 DEF KnownState
<1>8. Minor(s, a)
  BY <1>4, <1>7 DEF Minor, OnlyIn
<1>9. Minor(a, Publish(a, Replicas, m))
  BY <1>5, <1>6, <1>7, PublishMinor
<1> QED BY <1>1, <1>2, <1>8, <1>9, MinorTrans

LEMMA ViewChangeCallbackMinor ==
  ASSUME NEW r, NEW s, IsState(s), NEW m, KnownState(s) => \A c \in m.cert : c.req \in asked
  PROVE  Minor(s, ViewChangeCallback(s, r, m))
<1> DEFINE x == s.view_changes \cup {m}
           a == [s EXCEPT !.view_changes = x]
<1>1. ViewChangeCallback(s, r, m) \in {s, MaybePublishNewView(a, r, m.new_view)}
  BY DEF ViewChangeCallback
<1>2. Minor(s, s) /\ "view_changes" \in Fields
  BY DEF Minor, OnlyIn, Fields
<1>3. OnlyIn({"view_changes"}, s, a) /\ a.view_changes = x
  <2> HIDE DEF x
  <2> QED BY ONLY IsState(s), <1>2, SetField, Zenon
<1> HIDE DEF a
<1>4. a.cached = s.cached /\ a.instances = s.instances /\ a.out = s.out /\ IsState(a)
  BY <1>3 DEF OnlyIn, Fields
<1>5. KnownState(s) => KnownState(a)
  BY <1>3, <1>4 DEF KnownState
<1>6. Minor(s, a)
  BY <1>3, <1>5 DEF Minor, OnlyIn
<1>7. Minor(a, MaybePublishNewView(a, r, m.new_view))
  BY <1>4, MaybePublishNewViewMinor
<1> QED BY <1>1, <1>2, <1>6, <1>7, MinorTrans

\* A VIEW-CHANGE is sent for v, and nothing else happens.
LEMMA InitiateViewChangeSteps ==
  ASSUME NEW r, NEW s, IsState(s), NEW v
  PROVE  LET t == InitiateViewChange(s, r, v)
         IN  /\ OnlyIn({"view_change_sent", "view_changes", "new_view_sent", "out"}, s, t)
             /\ KnownState(s) => KnownState(t)
             /\ s.view_change_sent \subseteq t.view_change_sent
             /\ (r \in Correct /\ ~ (v <= s.current_view)) => v \in t.view_change_sent
<1> DEFINE t == InitiateViewChange(s, r, v)
           drop == v <= s.current_view \/ v \in s.view_change_sent \/ Is(r, "silent")
           m == ViewChange(s, r, v)
           x == s.view_change_sent \cup {v}
           a == [s EXCEPT !.view_change_sent = x]
           b == ViewChangeCallback(a, r, m)
           c == Publish(b, Replicas \ {r}, m)
<1>1. CASE drop
  <2>1. t = s
    BY <1>1 DEF InitiateViewChange
  <2>2. r \in Correct => ~ Is(r, "silent")
    BY CorrectIs DEF Behaviours
  <2>3. OnlyIn({"view_change_sent", "view_changes", "new_view_sent", "out"}, s, s)
    BY DEF OnlyIn
  <2> QED BY <1>1, <2>1, <2>2, <2>3
<1>2. CASE ~ drop
  <2>1. t = c
    BY <1>2 DEF InitiateViewChange
  <2>2. m.type = "VIEW-CHANGE" /\ (KnownState(s) => \A d \in m.cert : d.req \in asked)
    <3>1. SelectPrepared(s, v) \subseteq DOMAIN s.instances
      BY DEF SelectPrepared
    <3> DEFINE P == SelectPrepared(s, v)
    <3>2. m.type = "VIEW-CHANGE"
          /\ m.cert = {[view |-> k[1], seq |-> k[2], req |-> s.instances[k],
                        senders |-> SendersOf(s.prepare_senders, k)] : k \in P}
      BY DEF ViewChange
    <3> HIDE DEF P, m
    <3>3. \A d \in m.cert : \E k \in P : d.req = s.instances[k]
      BY <3>2
    <3>4. KnownState(s) => \A d \in m.cert : d.req \in asked
      BY <3>1, <3>3 DEF KnownState, P
    <3> QED BY <3>2, <3>4
  <2>3. "view_change_sent" \in Fields /\ v \in x /\ s.view_change_sent \subseteq x
    BY DEF Fields
  <2> HIDE DEF x
  <2>4. OnlyIn({"view_change_sent"}, s, a) /\ a.view_change_sent = x
    BY ONLY IsState(s), <2>3, SetField, Zenon
  <2> HIDE DEF a, m
  <2>5. /\ a.cached = s.cached /\ a.instances = s.instances
        /\ a.view_changes = s.view_changes /\ a.out = s.out /\ IsState(a)
    BY <2>4 DEF OnlyIn, Fields
  <2>6. KnownState(s) <=> KnownState(a)
    BY <2>5 DEF KnownState
  <2>7. Minor(a, b)
    BY <2>2, <2>5, <2>6, ViewChangeCallbackMinor
  <2> HIDE DEF b
  <2>8. KnownState(b) => KnownMsg(m) \/ ~ KnownState(s)
    BY <2>2 DEF KnownMsg
  <2>9. OnlyIn({"view_changes", "new_view_sent", "out"}, b, c) /\ (KnownState(s) => KnownState(c))
    <3>1. IsState(b)
      BY <2>7 DEF Minor, OnlyIn
    <3>2. CASE KnownState(s)
      <4>1. KnownState(b) => KnownMsg(m)
        BY <2>8, <3>2
      <4>2. Minor(b, c)
        BY <3>1, <4>1, PublishMinor
      <4> QED BY <2>6, <2>7, <3>2, <4>2 DEF Minor
    <3>3. CASE ~ KnownState(s)
      <4> DEFINE o == b.out \cup {<<e, m>> : e \in Replicas \ {r}}
      <4>1. c = [b EXCEPT !.out = o] /\ "out" \in Fields
        BY DEF Publish, Fields
      <4>2. OnlyIn({"out"}, b, c)
        <5> HIDE DEF o, c
        <5> QED BY ONLY <3>1, <4>1, SetField, Zenon
      <4> HIDE DEF c
      <4> QED BY <3>3, <4>2 DEF OnlyIn
    <3> QED BY <3>2, <3>3
  <2> HIDE DEF c
  <2>10. OnlyIn({"view_change_sent", "view_changes", "new_view_sent", "out"}, s, c)
    BY <2>4, <2>7, <2>9 DEF Minor, OnlyIn
  <2>11. c.view_change_sent = x
    BY <2>4, <2>7, <2>9 DEF Minor, OnlyIn, Fields
  <2> QED BY <2>1, <2>3, <2>9, <2>10, <2>11
<1> QED BY <1>1, <1>2

LEMMA InitiateViewChangeFollows ==
  ASSUME NEW r, NEW s, IsState(s), NEW v
  PROVE  Follows(r, s, InitiateViewChange(s, r, v))
<1> DEFINE t == InitiateViewChange(s, r, v)
<1>1. /\ OnlyIn({"view_change_sent", "view_changes", "new_view_sent", "out"}, s, t)
      /\ KnownState(s) => KnownState(t)
      /\ s.view_change_sent \subseteq t.view_change_sent
  BY InitiateViewChangeSteps
<1> HIDE DEF t
<1>2. /\ t.instances = s.instances /\ t.current_view = s.current_view
      /\ t.processed = s.processed /\ t.committed = s.committed
      /\ t.current_key = s.current_key /\ t.timeout_view = s.timeout_view
  BY <1>1 DEF OnlyIn, Fields
<1>3. Follows(r, s, t)
  BY <1>1, <1>2, QuietFollows
<1> QED BY <1>3 DEF t

\* A view change of its own does not touch what is followed.
LEMMA ViewChangeCallbackFollows ==
  ASSUME NEW r, NEW s, IsState(s), NEW m, m.type = "VIEW-CHANGE", KnownMsg(m)
  PROVE  Follows(r, s, ViewChangeCallback(s, r, m))
<1> DEFINE t == ViewChangeCallback(s, r, m)
<1>1. Minor(s, t)
  BY ViewChangeCallbackMinor DEF KnownMsg
<1> HIDE DEF t
<1>2. /\ t.instances = s.instances /\ t.current_view = s.current_view
      /\ t.processed = s.processed /\ t.committed = s.committed
      /\ t.view_change_sent = s.view_change_sent
      /\ t.current_key = s.current_key /\ t.timeout_view = s.timeout_view
  BY <1>1 DEF Minor, OnlyIn, Fields
<1>3. KnownState(s) => KnownState(t)
  BY <1>1 DEF Minor
<1>4. Follows(r, s, t)
  BY <1>2, <1>3, QuietFollows
<1> QED BY <1>4 DEF t

\* The timer fires: it is stopped when it was of another view or the last
\* instance is committed, and otherwise the next view is asked for.
LEMMA TimeoutFollows ==
  ASSUME NEW r, NEW s, ReplicaInv(r, s), NEW t,
         LET a == CancelTimeout(s)
         IN  t = IF s.timeout_view # s.current_view \/ s.current_key \in s.committed
                 THEN a ELSE InitiateViewChange(a, r, s.current_view + 1)
  PROVE  Follows(r, s, t)
<1> DEFINE a == CancelTimeout(s)
           v == s.current_view + 1
           b == InitiateViewChange(a, r, v)
<1>1. IsState(s) /\ s.current_view \in Nat /\ s.committed \subseteq DOMAIN s.instances
  BY DEF ReplicaInv, KeysInv
<1>2. OnlyIn({"timeout_view"}, s, a)
  <2>1. "timeout_view" \in Fields /\ a = [s EXCEPT !.timeout_view = NoTimer]
    BY DEF Fields, CancelTimeout
  <2> HIDE DEF a
  <2> QED BY ONLY <1>1, <2>1, SetField, Zenon
<1>3. \/ t = a /\ (s.timeout_view # s.current_view \/ s.current_key \in s.committed)
      \/ t = b
  OBVIOUS
<1> HIDE DEF a
<1>4. /\ a.instances = s.instances /\ a.current_view = s.current_view
      /\ a.processed = s.processed /\ a.committed = s.committed
      /\ a.view_change_sent = s.view_change_sent /\ a.current_key = s.current_key
      /\ a.cached = s.cached /\ a.view_changes = s.view_changes /\ a.out = s.out
      /\ IsState(a)
  BY <1>2 DEF OnlyIn, Fields
<1>5. KnownState(s) <=> KnownState(a)
  BY <1>4 DEF KnownState
<1>6. CASE t = a /\ (s.timeout_view # s.current_view \/ s.current_key \in s.committed)
  <2>1. Numbered(s) => Numbered(a)
    BY <1>4 DEF Numbered
  <2>2. ASSUME OneKey(a), Watched(r, s) PROVE Watched(r, a)
    <3>1. /\ \A k \in DOMAIN a.instances : k[1] <= a.current_view
          /\ a.current_key # NoKey => a.current_key \in DOMAIN a.instances
          /\ a.current_key \in DOMAIN a.instances => a.current_key[1] = a.current_view
      BY <1>4, <2>2 DEF Watched
    <3>2. ASSUME NEW k \in DOMAIN a.instances, param[r].timeout, k[1] = a.current_view,
                 k \notin a.committed
          PROVE  a.current_view + 1 \in a.view_change_sent
      <4>1. s.timeout_view = s.current_view \/ s.current_view + 1 \in s.view_change_sent
        BY <1>4, <2>2, <3>2 DEF Watched
      <4>2. s.current_key \notin s.committed
        BY <1>1, <1>4, <2>2, <3>1, <3>2 DEF OneKey
      <4> QED BY <1>4, <1>6, <4>1, <4>2
    <3> QED BY <3>1, <3>2 DEF Watched
  <2> QED BY <1>4, <1>5, <1>6, <2>1, <2>2 DEF Follows
<1>7. CASE t = b
  <2>1. /\ OnlyIn({"view_change_sent", "view_changes", "new_view_sent", "out"}, a, b)
        /\ KnownState(a) => KnownState(b)
        /\ a.view_change_sent \subseteq b.view_change_sent
        /\ (r \in Correct /\ ~ (v <= a.current_view)) => v \in b.view_change_sent
    <3> HIDE DEF v
    <3> QED BY <1>4, InitiateViewChangeSteps
  <2> HIDE DEF b
  <2>2. /\ b.instances = a.instances /\ b.current_view = a.current_view
        /\ b.processed = a.processed /\ b.committed = a.committed
        /\ b.current_key = a.current_key
    BY <2>1 DEF OnlyIn, Fields
  <2>3. r \in Correct => s.current_view + 1 \in b.view_change_sent
    BY <1>1, <1>4, <2>1
  <2>4. Follows(r, s, b)
    BY <1>4, <1>5, <2>1, <2>2, <2>3, QuietFollows
  <2> QED BY <1>7, <2>4
<1> QED BY <1>3, <1>6, <1>7

LEMMA ManualFollows ==
  ASSUME NEW r, NEW s, IsState(s), NEW v
  PROVE  Follows(r, s, InitiateViewChange([s EXCEPT !.manual = FALSE], r, v))
<1> DEFINE a == [s EXCEPT !.manual = FALSE]
<1>1. "manual" \in Fields
  BY DEF Fields
<1>2. OnlyIn({"manual"}, s, a)
  BY ONLY IsState(s), <1>1, SetField, Zenon
<1> HIDE DEF a
<1>3. /\ a.instances = s.instances /\ a.current_view = s.current_view
      /\ a.processed = s.processed /\ a.committed = s.committed
      /\ a.view_change_sent = s.view_change_sent /\ a.current_key = s.current_key
      /\ a.cached = s.cached /\ a.view_changes = s.view_changes /\ a.out = s.out
      /\ a.timeout_view = s.timeout_view /\ IsState(a)
  BY <1>2 DEF OnlyIn, Fields
<1>4. KnownState(s) => KnownState(a)
  BY <1>3 DEF KnownState
<1>5. Follows(r, s, a)
  BY <1>3, <1>4, QuietFollows
<1>6. Follows(r, a, InitiateViewChange(a, r, v))
  BY <1>3, InitiateViewChangeFollows
<1>7. Follows(r, s, InitiateViewChange(a, r, v))
  BY <1>5, <1>6, FollowsTrans
<1> QED BY <1>7 DEF a
-----------------------------------------------------------------------------
(* The progress timer: recovery and new views *)

\* What RecoveryPrePrepare makes of s
Recovered(s, r, k) ==
  LET a == [s EXCEPT !.recovery_timers = @ \ {k}]
  IN  IF k \in a.recovery_sent \/ k[1] # a.current_view \/ ~ IsPrimary(a, r)
      THEN a
      ELSE Arm(Publish([a EXCEPT !.recovery_sent = @ \cup {k}, !.current_key = k],
                       Replicas, PrePrepare(r, k, a.instances[k])), r)

LEMMA RecoveryFollows ==
  ASSUME NEW r, NEW s, ReplicaInv(r, s), NEW k, k \in s.recovery_timers
  PROVE  Follows(r, s, Recovered(s, r, k))
<1> DEFINE x == s.recovery_timers \ {k}
           a == [s EXCEPT !.recovery_timers = x]
           y == a.recovery_sent \cup {k}
           b == [a EXCEPT !.recovery_sent = y, !.current_key = k]
           m == PrePrepare(r, k, a.instances[k])
           c == Publish(b, Replicas, m)
           d == Arm(c, r)
           t == Recovered(s, r, k)
<1>1. IsState(s) /\ k \in DOMAIN s.instances /\ "recovery_timers" \in Fields
  BY DEF ReplicaInv, KeysInv, Fields
<1>2. OnlyIn({"recovery_timers"}, s, a)
  <2> HIDE DEF x
  <2> QED BY ONLY <1>1, SetField, Zenon
<1>3. t = a \/ (t = d /\ k[1] = a.current_view)
  BY DEF Recovered
<1> HIDE DEF a, t
<1>4. /\ a.instances = s.instances /\ a.current_view = s.current_view
      /\ a.processed = s.processed /\ a.committed = s.committed
      /\ a.view_change_sent = s.view_change_sent /\ a.current_key = s.current_key
      /\ a.cached = s.cached /\ a.view_changes = s.view_changes /\ a.out = s.out
      /\ a.timeout_view = s.timeout_view /\ IsState(a)
  BY <1>2 DEF OnlyIn, Fields
<1>5. KnownState(s) <=> KnownState(a)
  BY <1>4 DEF KnownState
<1>6. Follows(r, s, a)
  BY <1>4, <1>5, QuietFollows
<1>7. ASSUME t = d, k[1] = a.current_view PROVE Follows(r, s, t)
  <2>1. OnlyIn({"recovery_sent", "current_key"}, a, b) /\ b.current_key = k
    <3> HIDE DEF y
    <3> QED BY <1>4 DEF IsState, Fields, OnlyIn
  <2>2. m.type = "PRE-PREPARE" /\ m.req = a.instances[k]
    BY DEF PrePrepare, Vote
  <2> HIDE DEF b, m
  <2>3. /\ b.instances = a.instances /\ b.cached = a.cached
        /\ b.view_changes = a.view_changes /\ b.out = a.out /\ IsState(b)
    BY <2>1 DEF OnlyIn, Fields
  <2>4. KnownState(a) <=> KnownState(b)
    BY <2>3 DEF KnownState
  <2>5. KnownState(b) => KnownMsg(m)
    BY <1>1, <1>4, <2>2, <2>3 DEF KnownState, KnownMsg
  <2>6. Minor(b, c)
    BY <2>3, <2>5, PublishMinor
  <2> HIDE DEF c
  <2>7. IsState(c)
    BY <2>6 DEF Minor, OnlyIn
  <2>8. /\ OnlyIn({"timeout_view"}, c, d)
        /\ param[r].timeout => d.timeout_view = c.current_view
        /\ ~ param[r].timeout => d = c
    BY <2>7, ArmWorks
  <2> HIDE DEF d
  <2>9. /\ d.instances = s.instances /\ d.current_view = s.current_view
        /\ d.processed = s.processed /\ d.committed = s.committed
        /\ d.view_change_sent = s.view_change_sent /\ d.current_key = k
    BY <1>4, <2>1, <2>6, <2>8 DEF Minor, OnlyIn, Fields
  <2>10. d.timeout_view = s.timeout_view \/ (param[r].timeout /\ d.timeout_view = s.current_view)
    BY <1>4, <2>1, <2>6, <2>8 DEF Minor, OnlyIn, Fields
  <2>11. KnownState(c) => KnownState(d)
    BY <2>8 DEF OnlyIn, Fields, KnownState
  <2>12. KnownState(s) => KnownState(d)
    BY <1>5, <2>4, <2>6, <2>11 DEF Minor
  <2>13. Follows(r, s, d)
    BY <1>1, <1>4, <1>7, <2>9, <2>10, <2>12, QuietFollows
  <2> QED BY <1>7, <2>13
<1> HIDE DEF d
<1>8. Follows(r, s, t)
  BY <1>3, <1>6, <1>7
<1> QED BY <1>8 DEF t
LEMMA ActivateFollows ==
  ASSUME NEW r, NEW s, ReplicaInv(r, s), NEW v \in Nat, v > s.current_view,
         NEW c, c.req \in asked
  PROVE  Follows(r, s, Activate(s, r, v, c))
<1> DEFINE k == <<v, c.seq>>
           q == c.req
           a == CancelObsolete(s, r, v)
           cached == s.cached \cup {q}
           instances == With(s.instances, k, q)
           processed == a.processed \cup {q}
           next == IF c.seq + 1 > s.next_sequence_number THEN c.seq + 1
                   ELSE s.next_sequence_number
           t == [a EXCEPT !.cached = cached, !.instances = instances,
                          !.processed = processed, !.current_view = v,
                          !.current_key = k, !.timeout_view = NoTimer,
                          !.next_sequence_number = next]
           u == Arm(t, r)
           w == ScheduleRecovery(u, r, k)
<1>1. CASE k \in DOMAIN s.instances /\ s.instances[k] # q
  <2>1. Activate(s, r, v, c) = s
    BY <1>1 DEF Activate
  <2> QED BY <2>1, FollowsSame
<1>2. CASE ~ (k \in DOMAIN s.instances /\ s.instances[k] # q)
  <2>0. IsState(s) /\ s.current_view \in Nat /\ DOMAIN s.instances \subseteq Nat \X Nat
    BY DEF ReplicaInv, KeysInv
  <2>1. OnlyIn({"prepare_scheduled", "commit_scheduled", "recovery_timers",
                "pending_prepares", "pending_commits", "manual"}, s, a)
    BY <2>0, CancelObsoleteFields
  <2>2. Activate(s, r, v, c) = w
    <3>1. /\ a.cached = s.cached /\ a.instances = s.instances
          /\ a.next_sequence_number = s.next_sequence_number
      BY <2>1 DEF OnlyIn, Fields
    <3> HIDE DEF a
    <3> QED BY <1>2, <3>1 DEF Activate, a
  <2>3. /\ DOMAIN instances = DOMAIN s.instances \cup {k} /\ instances[k] = q
        /\ \A j \in DOMAIN s.instances : instances[j] = s.instances[j]
    BY <1>2 DEF With
  <2>4. k[1] = v /\ v # 0 /\ s.processed \subseteq processed /\ q \in asked
        /\ cached \subseteq s.cached \cup {q}
    BY <2>0, <2>1 DEF OnlyIn, Fields
  <2> HIDE DEF a, cached, instances, processed, next, k, q
  <2>5. /\ OnlyIn({"cached", "instances", "processed", "current_view", "current_key",
                   "timeout_view", "next_sequence_number"}, a, t)
        /\ t.cached = cached /\ t.instances = instances /\ t.current_view = v
        /\ t.current_key = k /\ t.processed = processed
    BY <2>1 DEF OnlyIn, IsState, Fields
  <2> HIDE DEF t
  <2>6. t.out = s.out /\ t.view_changes = s.view_changes /\ IsState(t)
    BY <2>1, <2>5 DEF OnlyIn, Fields
  <2>7. /\ OnlyIn({"timeout_view"}, t, u)
        /\ param[r].timeout => u.timeout_view = t.current_view
    BY <2>6, ArmWorks
  <2> HIDE DEF u
  <2>8. OnlyIn({"recovery_timers"}, u, w)
    <3> DEFINE x == u.recovery_timers \cup {k}
    <3>1. w = u \/ w = [u EXCEPT !.recovery_timers = x]
      BY DEF ScheduleRecovery
    <3>2. IsState(u) /\ "recovery_timers" \in Fields
      BY <2>7 DEF OnlyIn, Fields
    <3> HIDE DEF x, w
    <3>3. OnlyIn({"recovery_timers"}, u, [u EXCEPT !.recovery_timers = x])
      BY ONLY <3>2, SetField, Zenon
    <3>4. OnlyIn({"recovery_timers"}, u, u)
      BY <3>2 DEF OnlyIn
    <3> QED BY <3>1, <3>3, <3>4
  <2> HIDE DEF w
  <2>9. /\ w.cached = cached /\ w.instances = instances /\ w.current_view = v
        /\ w.current_key = k /\ w.processed = processed
        /\ w.out = s.out /\ w.view_changes = s.view_changes
        /\ param[r].timeout => w.timeout_view = w.current_view
    BY <2>5, <2>6, <2>7, <2>8 DEF OnlyIn, Fields
  <2>10. KnownState(s) => \A o \in w.out : KnownMsg(o[2])
    BY <2>9 DEF KnownState
  <2>11. s.current_view <= w.current_view /\ w.current_view \in Nat
    BY <2>0, <2>9
  <2>12. Follows(r, s, w)
    BY <2>0, <2>3, <2>4, <2>9, <2>10, <2>11, AddFollows
  <2> QED BY <2>2, <2>12
<1> QED BY <1>1, <1>2

LEMMA NewViewCallbackFollows ==
  ASSUME NEW r, NEW s, ReplicaInv(r, s), NEW m, m.type = "NEW-VIEW",
         MessageOK(r, s, m), KnownMsg(m)
  PROVE  Follows(r, s, NewViewCallback(s, r, m))
<1> DEFINE v == m.new_view
           e == CHOOSE c \in m.choice : TRUE
           x == s.accepted_new_views \cup {v}
           t == [s EXCEPT !.accepted_new_views = x]
<1>1. CASE v \in s.accepted_new_views \/ ~ ValidNewView(s, m)
  <2>1. NewViewCallback(s, r, m) = s
    BY <1>1 DEF NewViewCallback
  <2> QED BY <2>1, FollowsSame
<1>2. CASE ~ (v \in s.accepted_new_views \/ ~ ValidNewView(s, m))
  <2>1. NewViewCallback(s, r, m) = Activate(t, r, v, e)
    BY <1>2 DEF NewViewCallback
  <2>2. e \in m.choice /\ v > s.current_view
    BY <1>2 DEF ValidNewView, ValidProof
  <2>3. v \in Nat /\ e.req \in asked
    BY <2>2 DEF MessageOK, KnownMsg
  <2>4. IsState(s) /\ "accepted_new_views" \in Fields
    BY DEF ReplicaInv, KeysInv, Fields
  <2>5. OnlyIn({"accepted_new_views"}, s, t)
    <3> HIDE DEF x
    <3> QED BY ONLY <2>4, SetField, Zenon
  <2> HIDE DEF t, e
  <2>6. OnlyIn(Unseen, s, t)
    BY <2>5 DEF OnlyIn, Unseen
  <2>7. Moved(r, s, t, {}) /\ t.current_view = s.current_view
    BY <2>6, UnseenMoved
  <2>8. ReplicaInv(r, t)
    BY <2>7 DEF Moved
  <2>9. /\ t.instances = s.instances /\ t.current_view = s.current_view
        /\ t.processed = s.processed /\ t.committed = s.committed
        /\ t.view_change_sent = s.view_change_sent /\ t.current_key = s.current_key
        /\ t.cached = s.cached /\ t.view_changes = s.view_changes /\ t.out = s.out
        /\ t.timeout_view = s.timeout_view
    BY <2>5 DEF OnlyIn, Fields
  <2>10. KnownState(s) => KnownState(t)
    BY <2>9 DEF KnownState
  <2>11. Follows(r, s, t)
    BY <2>9, <2>10, QuietFollows
  <2>12. Follows(r, t, Activate(t, r, v, e))
    BY <2>2, <2>3, <2>7, <2>8, ActivateFollows
  <2> QED BY <2>1, <2>11, <2>12, FollowsTrans
<1> QED BY <1>1, <1>2

-----------------------------------------------------------------------------
(* The progress timer: the system *)

\* Nobody works on, sends or keeps a request that no client asked for.
KInv ==
  /\ IsFiniteSet(asked)
  /\ \A r \in Replicas : KnownState(rep[r]) /\ \A m \in inbox[r] : KnownMsg(m)
  /\ Numbered(rep[0])

\* While one request was asked: a view has one key, and its timer is kept.
Single == \A p, q \in asked : p = q

OneKeys == Single => \A r \in Replicas : OneKey(rep[r])

WInv == Single => \A r \in Correct : Watched(r, rep[r])

LEMMA HandleFollows ==
  ASSUME IInv, KInv, NEW r \in Replicas, NEW m \in inbox[r]
  PROVE  Follows(r, rep[r], Handle(rep[r], r, m))
<1> DEFINE s == rep[r]
           t == Handle(s, r, m)
<1>1. /\ ReplicaInv(r, s) /\ s.out = {} /\ MessageOK(r, s, m) /\ KnownMsg(m)
      /\ IsState(s)
  BY DEF IInv, KInv, ReplicaInv, KeysInv
<1>2. CASE m.type = "REQUEST"
  <2>1. t = RequestCallback(s, r, m)
    BY <1>2 DEF Handle
  <2>2. r = 0 => <<0, s.next_sequence_number>> \notin DOMAIN s.instances
    <3> SUFFICES ASSUME r = 0, <<0, s.next_sequence_number>> \in DOMAIN s.instances
                 PROVE  FALSE
      OBVIOUS
    <3> DEFINE k == <<0, s.next_sequence_number>>
    <3>1. Claimed(k, s.instances[k])
      BY DEF Claimed
    <3>2. s.next_sequence_number \in Nat
      BY <1>1 DEF ReplicaInv, KeysInv
    <3>3. k[2] < s.next_sequence_number
      BY <3>1 DEF IInv, ClaimInv
    <3> QED BY <3>2, <3>3
  <2> HIDE DEF s, t
  <2>3. Follows(r, s, t)
    BY <1>1, <1>2, <2>1, <2>2, RequestCallbackFollows
  <2> QED BY <2>3 DEF s, t
<1>3. CASE m.type = "PRE-PREPARE"
  <2>1. t = PrePrepareCallback(s, r, m)
    BY <1>3 DEF Handle
  <2>2. r = 0 /\ m.view = 0 => Key(m) \in DOMAIN s.instances
    <3>1. Claimed(Key(m), m.req)
      BY <1>3 DEF Claimed
    <3>2. Key(m)[1] = m.view
      BY DEF Key
    <3> QED BY <3>1, <3>2 DEF IInv, ClaimInv
  <2> HIDE DEF s, t
  <2>3. Follows(r, s, t)
    BY <1>1, <1>3, <2>1, <2>2, PrePrepareCallbackFollows
  <2> QED BY <2>3 DEF s, t
<1>4. CASE m.type = "PREPARE"
  <2>1. t = PrepareCallback(s, r, m)
    BY <1>4 DEF Handle
  <2> HIDE DEF s, t
  <2>2. Follows(r, s, t)
    BY <1>1, <1>4, <2>1, PrepareCallbackFollows
  <2> QED BY <2>2 DEF s, t
<1>5. CASE m.type = "COMMIT"
  <2>1. t = CommitCallback(s, r, m)
    BY <1>5 DEF Handle
  <2> HIDE DEF s, t
  <2>2. Follows(r, s, t)
    BY <1>1, <1>5, <2>1, CommitCallbackFollows
  <2> QED BY <2>2 DEF s, t
<1>6. CASE m.type = "VIEW-CHANGE"
  <2>1. t = ViewChangeCallback(s, r, m)
    BY <1>6 DEF Handle
  <2> HIDE DEF s, t
  <2>2. Follows(r, s, t)
    BY <1>1, <1>6, <2>1, ViewChangeCallbackFollows
  <2> QED BY <2>2 DEF s, t
<1>7. CASE m.type = "NEW-VIEW"
  <2>1. t = NewViewCallback(s, r, m)
    BY <1>7 DEF Handle
  <2> HIDE DEF s, t
  <2>2. Follows(r, s, t)
    BY <1>1, <1>7, <2>1, NewViewCallbackFollows
  <2> QED BY <2>2 DEF s, t
<1> QED BY <1>1, <1>2, <1>3, <1>4, <1>5, <1>6, <1>7 DEF MessageOK

LEMMA NextFollows ==
  ASSUME IInv, KInv, Next
  PROVE  \/ \E q \in Requests : ClientRequest(q)
         \/ \E r \in Replicas : \E t, rest :
              rest \subseteq inbox[r] /\ Follows(r, rep[r], t) /\ Step(r, t, rest)
<1>0. \A r \in Replicas : ReplicaInv(r, rep[r]) /\ IsState(rep[r])
  BY DEF IInv, ReplicaInv, KeysInv
<1>1. ASSUME NEW r \in Replicas, NEW m \in inbox[r], Deliver(r, m) \/ Redeliver(r, m)
      PROVE  \E t, rest : rest \subseteq inbox[r] /\ Follows(r, rep[r], t) /\ Step(r, t, rest)
  <2>1. Follows(r, rep[r], Handle(rep[r], r, m))
    BY HandleFollows
  <2>2. CASE Deliver(r, m)
    BY <2>1, <2>2 DEF Deliver
  <2>3. CASE Redeliver(r, m)
    BY <2>1, <2>3 DEF Redeliver
  <2> QED BY <1>1, <2>2, <2>3
<1>2. ASSUME NEW r \in Replicas, ProgressTimeout(r)
      PROVE  \E t, rest : rest \subseteq inbox[r] /\ Follows(r, rep[r], t) /\ Step(r, t, rest)
  <2> DEFINE s == rep[r]
             a == CancelTimeout(s)
             t == IF s.timeout_view # s.current_view \/ s.current_key \in s.committed
                  THEN a ELSE InitiateViewChange(a, r, s.current_view + 1)
  <2>1. Step(r, t, inbox[r])
    BY <1>2 DEF ProgressTimeout
  <2>2. Follows(r, s, t)
    <3> HIDE DEF s
    <3> QED BY <1>0, TimeoutFollows DEF s
  <2> HIDE DEF t
  <2> QED BY <2>1, <2>2
<1>3. ASSUME NEW r \in Replicas, DelayedPrepare(r) \/ DelayedCommit(r)
      PROVE  \E t, rest : rest \subseteq inbox[r] /\ Follows(r, rep[r], t) /\ Step(r, t, rest)
  <2>2. CASE DelayedPrepare(r)
    <3>1. PICK k \in rep[r].prepare_scheduled :
            Step(r, SendPrepare([rep[r] EXCEPT !.prepare_scheduled = @ \ {k}], r, k, TRUE),
                 inbox[r])
      BY <2>2 DEF DelayedPrepare
    <3> DEFINE t == SendPrepare([rep[r] EXCEPT !.prepare_scheduled = @ \ {k}], r, k, TRUE)
    <3>2. Follows(r, rep[r], t)
      BY <1>0, DelayedFollows
    <3> HIDE DEF t
    <3> QED BY <3>1, <3>2 DEF t
  <2>3. CASE DelayedCommit(r)
    <3>1. PICK k \in rep[r].commit_scheduled :
            Step(r, SendCommit([rep[r] EXCEPT !.commit_scheduled = @ \ {k}], r, k, TRUE),
                 inbox[r])
      BY <2>3 DEF DelayedCommit
    <3> DEFINE t == SendCommit([rep[r] EXCEPT !.commit_scheduled = @ \ {k}], r, k, TRUE)
    <3>2. Follows(r, rep[r], t)
      BY <1>0, DelayedFollows
    <3> HIDE DEF t
    <3> QED BY <3>1, <3>2 DEF t
  <2> QED BY <1>3, <2>2, <2>3
<1>4. ASSUME NEW r \in Replicas, RecoveryPrePrepare(r)
      PROVE  \E t, rest : rest \subseteq inbox[r] /\ Follows(r, rep[r], t) /\ Step(r, t, rest)
  <2>1. PICK k \in rep[r].recovery_timers : Step(r, Recovered(rep[r], r, k), inbox[r])
    BY <1>4 DEF RecoveryPrePrepare, Recovered
  <2>2. Follows(r, rep[r], Recovered(rep[r], r, k))
    BY <1>0, RecoveryFollows
  <2> QED BY <2>1, <2>2
<1>5. ASSUME NEW r \in Replicas, ManualViewChange(r)
      PROVE  \E t, rest : rest \subseteq inbox[r] /\ Follows(r, rep[r], t) /\ Step(r, t, rest)
  <2> DEFINE t == InitiateViewChange([rep[r] EXCEPT !.manual = FALSE], r, param[r].manual)
  <2>1. Step(r, t, inbox[r])
    BY <1>5 DEF ManualViewChange
  <2>2. Follows(r, rep[r], t)
    BY <1>0, ManualFollows
  <2> HIDE DEF t
  <2> QED BY <2>1, <2>2
<1> QED BY <1>1, <1>2, <1>3, <1>4, <1>5 DEF Next, DelayStep

\* What a step leaves in rep, out being empty again.
LEMMA StepLeaves ==
  ASSUME IInv, IInv', NEW r \in Replicas, NEW t, NEW rest, Step(r, t, rest)
  PROVE  /\ \A b \in Replicas : b # r => rep'[b] = rep[b]
         /\ \A f \in Fields : f # "out" => rep'[r][f] = t[f]
         /\ rep'[r].out = {}
<1> DEFINE z == [t EXCEPT !.out = {}]
<1>1. rep' = [rep EXCEPT ![r] = z] /\ rep = [a \in Replicas |-> rep[a]]
  BY DEF Step, IInv
<1> HIDE DEF z
<1>2. rep'[r] = z /\ \A b \in Replicas : b # r => rep'[b] = rep[b]
  BY <1>1
<1>3. IsState(rep'[r]) /\ rep'[r].out = {}
  BY DEF IInv, ReplicaInv, KeysInv, IsState, Fields, Replicas, N
<1>4. DOMAIN z = Fields
  BY <1>2, <1>3 DEF IsState
<1>5. DOMAIN t = Fields
  BY <1>4 DEF z
<1>6. \A f \in Fields : f # "out" => z[f] = t[f]
  BY <1>5 DEF z
<1> QED BY <1>2, <1>3, <1>6

LEMMA StepKnown ==
  ASSUME IInv, KInv, IInv', NEW r \in Replicas, NEW t, NEW rest, rest \subseteq inbox[r],
         Follows(r, rep[r], t), Step(r, t, rest)
  PROVE  KInv'
<1>1. /\ \A b \in Replicas : b # r => rep'[b] = rep[b]
      /\ \A f \in Fields : f # "out" => rep'[r][f] = t[f]
      /\ rep'[r].out = {}
  BY StepLeaves
<1>2. /\ rep'[r].cached = t.cached /\ rep'[r].instances = t.instances
      /\ rep'[r].view_changes = t.view_changes /\ rep'[r].processed = t.processed
  BY <1>1 DEF Fields
<1>3. KnownState(t) /\ asked' = asked /\ Replicas' = Replicas
  BY DEF KInv, Follows, Step, Replicas, N
<1>4. \A m : KnownMsg(m)' <=> KnownMsg(m)
  BY <1>3 DEF KnownMsg
<1>5. ASSUME NEW b \in Replicas PROVE KnownState(rep[b])'
  <2>1. CASE b = r
    BY <1>1, <1>2, <1>3, <2>1 DEF KnownState
  <2>2. CASE b # r
    <3>1. rep'[b] = rep[b] /\ KnownState(rep[b])
      BY <1>1, <2>2 DEF KInv
    <3> QED BY <1>3, <1>4, <3>1 DEF KnownState
  <2> QED BY <2>1, <2>2
<1>6. ASSUME NEW b \in Replicas, NEW m \in inbox'[b] PROVE KnownMsg(m)'
  <2>1. inbox'[b] = (IF b = r THEN rest ELSE inbox[b])
                      \cup {o[2] : o \in {x \in t.out : x[1] = b}}
    BY DEF Step
  <2>2. m \in inbox[b] \/ \E o \in t.out : m = o[2]
    BY <1>6, <2>1
  <2>3. KnownMsg(m)
    BY <1>3, <2>2 DEF KInv, KnownState
  <2> QED BY <1>4, <2>3
<1>7. Numbered(rep[0])'
  <2>1. 0 \in Replicas
    BY PBFTAssumption DEF Replicas, N
  <2>2. Numbered(rep[0])
    BY DEF KInv
  <2>3. CASE r = 0
    <3>1. Numbered(t)
      BY <2>2, <2>3 DEF Follows
    <3> QED BY <1>2, <2>3, <3>1 DEF Numbered
  <2>4. CASE r # 0
    BY <1>1, <2>1, <2>2, <2>4 DEF Numbered
  <2> QED BY <2>3, <2>4
<1>8. IsFiniteSet(asked)'
  BY <1>3 DEF KInv
<1> QED BY <1>3, <1>5, <1>6, <1>7, <1>8 DEF KInv

LEMMA RequestKnown ==
  ASSUME KInv, NEW q \in Requests, ClientRequest(q)
  PROVE  KInv'
<1> DEFINE n == Vote("REQUEST", -1, <<0, 0>>, q, TRUE)
<1>1. /\ rep' = rep /\ asked' = asked \cup {q}
      /\ inbox' = [r \in Replicas |-> inbox[r] \cup {n}]
  BY DEF ClientRequest
<1>2. n.type = "REQUEST" /\ n.req = q
  BY DEF Vote
<1> HIDE DEF n
<1>3. \A m : KnownMsg(m) => KnownMsg(m)'
  BY <1>1 DEF KnownMsg
<1>4. KnownMsg(n)'
  BY <1>1, <1>2 DEF KnownMsg
<1>5. ASSUME NEW b \in Replicas PROVE KnownState(rep[b])'
  <2>1. KnownState(rep[b])
    BY DEF KInv
  <2> QED BY <1>1, <1>3, <2>1 DEF KnownState
<1>6. ASSUME NEW b \in Replicas, NEW m \in inbox'[b] PROVE KnownMsg(m)'
  <2>1. m \in inbox[b] \/ m = n
    BY <1>1, <1>6
  <2> QED BY <1>3, <1>4, <2>1 DEF KInv
<1>7. Numbered(rep[0])'
  BY <1>1 DEF KInv, Numbered
<1>8. IsFiniteSet(asked)'
  BY <1>1, FS_AddElement DEF KInv
<1>9. Replicas' = Replicas
  BY DEF Replicas, N
<1> QED BY <1>5, <1>6, <1>7, <1>8, <1>9 DEF KInv

LEMMA KnownInit == ASSUME Init PROVE KInv
<1>1. /\ rep = [r \in Replicas |-> InitialReplica(r)]
      /\ inbox = [r \in Replicas |-> {}] /\ asked = {}
  BY DEF Init
<1>2. ASSUME NEW r \in Replicas
      PROVE  /\ rep[r].cached = {} /\ DOMAIN rep[r].instances = {}
             /\ rep[r].view_changes = {} /\ rep[r].out = {}
  BY <1>1 DEF InitialReplica
<1>3. \A r \in Replicas : KnownState(rep[r])
  BY <1>2 DEF KnownState
<1>4. 0 \in Replicas
  BY PBFTAssumption DEF Replicas, N
<1>5. Numbered(rep[0])
  BY <1>2, <1>4 DEF Numbered
<1> QED BY <1>1, <1>3, <1>5, FS_EmptySet DEF KInv

LEMMA KnownNext == ASSUME IInv, KInv, [Next]_vars PROVE KInv'
<1>1. CASE UNCHANGED vars
  BY <1>1 DEF vars, KInv, KnownState, KnownMsg, Numbered, Replicas, N
<1>2. CASE Next
  <2>1. IInv'
    BY NextInv
  <2>2. CASE \E q \in Requests : ClientRequest(q)
    BY <2>2, RequestKnown
  <2>3. CASE \E r \in Replicas : \E t, rest :
               rest \subseteq inbox[r] /\ Follows(r, rep[r], t) /\ Step(r, t, rest)
    BY <2>1, <2>3, StepKnown
  <2> QED BY <1>2, <2>2, <2>3, NextFollows
<1> QED BY <1>1, <1>2

\* One request: the primary of view 0 numbers it once, a later view has the
\* one request of its NEW-VIEW.
LEMMA ViewHasOneKey == ASSUME IInv, KInv PROVE OneKeys
<1> SUFFICES ASSUME Single, NEW r \in Replicas,
                    NEW j \in DOMAIN rep[r].instances, NEW k \in DOMAIN rep[r].instances,
                    j[1] = k[1]
             PROVE  j = k
  BY DEF OneKeys, OneKey
<1> DEFINE p == rep[r].instances[j]
           q == rep[r].instances[k]
<1>1. Claimed(j, p) /\ Claimed(k, q) /\ ClaimInv
  BY DEF Claimed, IInv
<1>2. p \in asked /\ q \in asked
  BY DEF KInv, KnownState
<1>3. p = q
  BY <1>2 DEF Single
<1> HIDE DEF p, q
<1>4. j \in Nat \X Nat
  BY <1>1 DEF ClaimInv
<1>5. CASE j[1] = 0
  <2>1. /\ j \in DOMAIN rep[0].instances /\ k \in DOMAIN rep[0].instances
        /\ rep[0].instances[j] = p /\ rep[0].instances[k] = q
    BY <1>1, <1>5 DEF ClaimInv
  <2> QED BY <1>3, <1>5, <2>1 DEF KInv, Numbered
<1>6. CASE j[1] > 0
  BY <1>1, <1>6 DEF ClaimInv
<1> QED BY <1>4, <1>5, <1>6

LEMMA WatchedInit == ASSUME Init PROVE WInv
<1> SUFFICES ASSUME NEW r \in Correct PROVE Watched(r, rep[r])
  BY DEF WInv
<1>1. r \in Replicas
  BY DEF Correct
<1>2. rep[r].current_key = NoKey /\ DOMAIN rep[r].instances = {}
  BY <1>1 DEF Init, InitialReplica
<1> QED BY <1>2 DEF Watched

LEMMA WatchedNext ==
  ASSUME IInv, KInv, WInv, OneKeys', [Next]_vars PROVE WInv'
<1>1. CASE UNCHANGED vars
  BY <1>1 DEF vars, WInv, Single, Watched, Correct, Replicas, N
<1>2. CASE Next
  <2>1. CASE \E q \in Requests : ClientRequest(q)
    <3>1. rep' = rep /\ param' = param /\ asked \subseteq asked'
      BY <2>1 DEF ClientRequest
    <3> QED BY <3>1 DEF WInv, Single, Watched, Correct, Replicas, N
  <2>2. CASE \E r \in Replicas : \E t, rest :
               rest \subseteq inbox[r] /\ Follows(r, rep[r], t) /\ Step(r, t, rest)
    <3>0. PICK r \in Replicas : \E t, rest : Follows(r, rep[r], t) /\ Step(r, t, rest)
      BY <2>2
    <3>1. PICK t, rest : Follows(r, rep[r], t) /\ Step(r, t, rest)
      BY <3>0
    <3>2. IInv'
      BY <1>2, NextInv
    <3>3. /\ \A b \in Replicas : b # r => rep'[b] = rep[b]
          /\ \A f \in Fields : f # "out" => rep'[r][f] = t[f]
      BY <3>1, <3>2, StepLeaves
    <3>4. param' = param /\ asked' = asked
      BY <3>1 DEF Step
    <3>5. /\ rep'[r].instances = t.instances /\ rep'[r].current_view = t.current_view
          /\ rep'[r].current_key = t.current_key /\ rep'[r].committed = t.committed
          /\ rep'[r].timeout_view = t.timeout_view
          /\ rep'[r].view_change_sent = t.view_change_sent
      BY <3>3 DEF Fields
    <3>6. Correct' = Correct /\ Single' = Single /\ Replicas' = Replicas
      BY <3>4 DEF Correct, Single, Replicas, N
    <3>7. ASSUME Single, NEW b \in Correct PROVE Watched(b, rep[b])'
      <4>1. Watched(b, rep[b]) /\ b \in Replicas
        BY <3>7 DEF WInv, Correct
      <4>2. CASE b = r
        <5>1. OneKey(t)
          BY <3>5, <3>6, <3>7 DEF OneKeys, OneKey
        <5>2. Watched(r, t)
          BY <3>1, <3>7, <4>1, <4>2, <5>1 DEF Follows
        <5> QED BY <3>4, <3>5, <4>2, <5>2 DEF Watched
      <4>3. CASE b # r
        BY <3>3, <3>4, <4>1, <4>3 DEF Watched
      <4> QED BY <4>2, <4>3
    <3> QED BY <3>6, <3>7 DEF WInv
  <2> QED BY <1>2, <2>1, <2>2, NextFollows
<1> QED BY <1>1, <1>2
-----------------------------------------------------------------------------
(* Theorems *)

\* The invariant of the replicas and of what is on its way: every vote that
\* names a correct replica is a vote that replica has sent, and a key is
\* claimed for one request only (all callbacks of replica/*.py).
THEOREM ReplicasInvariant == Spec => []IInv
BY InitInv, NextInv, PTL DEF Spec

\* Correct replicas that are COMMITTED for the same (view, sequence) have
\* executed the same request, for every F, every number of faulty replicas
\* that show one of the modelled behaviours, and any number of view changes:
\* none of these behaviours sends two PRE-PREPAREs or two NEW-VIEWs that
\* disagree (pre_prepare.py, view_change.py).
THEOREM CommittedAgree == Spec => []Agreement
<1>1. IInv => Agreement
  <2> SUFFICES ASSUME IInv, NEW a \in Correct, NEW b \in Correct, NEW k,
                      k \in rep[a].committed, k \in rep[b].committed
               PROVE  rep[a].instances[k] = rep[b].instances[k]
    BY DEF Agreement
  <2>1. a \in Replicas /\ b \in Replicas
    BY DEF Correct
  <2>2. k \in DOMAIN rep[a].instances /\ k \in DOMAIN rep[b].instances
    BY <2>1 DEF IInv, ReplicaInv, KeysInv
  <2>3. Claimed(k, rep[a].instances[k]) /\ Claimed(k, rep[b].instances[k])
    BY <2>1, <2>2 DEF Claimed
  <2>4. k \in Nat \X Nat
    BY <2>3 DEF IInv, ClaimInv
  <2> DEFINE p == rep[a].instances[k]
             q == rep[b].instances[k]
  <2> HIDE DEF p, q
  <2>5. ClaimInv /\ Claimed(k, p) /\ Claimed(k, q)
    BY <2>3 DEF IInv, p, q
  <2>6. CASE k[1] = 0
    BY <2>5, <2>6 DEF ClaimInv, p, q
  <2>7. CASE k[1] > 0
    BY <2>5, <2>7 DEF ClaimInv, p, q
  <2> QED BY <2>4, <2>6, <2>7
<1> QED BY <1>1, ReplicasInvariant, PTL

\* A PREPARED certificate in a VIEW-CHANGE that a correct replica has accepted
\* names 2f replicas, and the correct ones among them did send that PREPARE
\* (_build_view_change_message, view_change_callback).
THEOREM CertificatesAreBacked == Spec => []CertificateBacked
<1>1. IInv => CertificateBacked
  <2> SUFFICES ASSUME IInv, NEW a \in Correct, NEW m \in rep[a].view_changes, NEW c \in m.cert
               PROVE  /\ Cardinality(c.senders) >= 2 * F
                      /\ \A b \in c.senders \cap Correct :
                           /\ <<c.view, c.seq>> \in rep[b].prepare_sent
                           /\ rep[b].instances[<<c.view, c.seq>>] = c.req
    BY DEF CertificateBacked
  <2>1. ReplicaInv(a, rep[a])
    BY DEF IInv, Correct
  <2>2. CertOK(a, rep[a], m) /\ Cardinality(c.senders) >= PrepareThreshold
    BY <2>1 DEF ReplicaInv, ViewsInv
  <2>3. ASSUME NEW b \in c.senders \cap Correct
        PROVE  /\ <<c.view, c.seq>> \in rep[b].prepare_sent
               /\ rep[b].instances[<<c.view, c.seq>>] = c.req
    <3>1. PrepareOK(a, rep[a], b, <<c.view, c.seq>>, c.req)
      BY <2>2 DEF CertOK
    <3> QED BY <3>1 DEF PrepareOK, DidPrepare, StateOf
  <2> QED BY <2>2, <2>3 DEF PrepareThreshold
<1> QED BY <1>1, ReplicasInvariant, PTL

\* At most f replicas show a faulty behaviour, as max_faulty promises.
FewFaulty == Cardinality(Replicas \ Correct) <= F

\* While at most f replicas are faulty, every COMMITTED of a correct replica
\* is backed by f + 1 correct replicas that are PREPARED for that request
\* (_evaluate_committed; the early, delayed, conflicting and misaddressed
\* COMMITs of byzantine.py).
THEOREM CommitsAreBacked == Spec => [](FewFaulty => CommitBacked)
<1>1. ASSUME IInv, FewFaulty PROVE CommitBacked
  <2> SUFFICES ASSUME NEW a \in Correct, NEW k \in rep[a].committed
               PROVE  Cardinality({b \in Correct :
                                     /\ k \in rep[b].prepared
                                     /\ rep[b].instances[k] = rep[a].instances[k]}) > F
    BY DEF CommitBacked
  <2> DEFINE backers == {b \in Correct : /\ k \in rep[b].prepared
                                         /\ rep[b].instances[k] = rep[a].instances[k]}
  <2>1. ReplicaInv(a, rep[a])
    BY <1>1 DEF IInv, Correct
  <2>2. PICK quorum \in SUBSET SendersOf(rep[a].commit_senders, k) :
                Cardinality(quorum) >= CommitThreshold
    BY <2>1 DEF ReplicaInv, CommittedInv
  <2>3. ASSUME NEW b \in quorum PROVE b \in Replicas /\ (b \in Correct => b \in backers)
    <3>1. PICK p \in rep[a].commit_senders : p[1] = k /\ p[2] = b
      BY <2>3 DEF SendersOf
    <3>2. b \in Replicas /\ CommitOK(a, rep[a], b, k, rep[a].instances[k])
      BY <2>1, <3>1 DEF ReplicaInv, SendersInv
    <3> QED BY <3>2 DEF CommitOK, DidCommit, StateOf
  <2>4. IsFiniteSet(Replicas)
    BY PBFTAssumption, FS_Interval DEF Replicas, N
  <2> DEFINE good == quorum \cap Correct
             bad  == quorum \ Correct
  <2>5. /\ IsFiniteSet(quorum) /\ IsFiniteSet(good) /\ IsFiniteSet(bad)
        /\ IsFiniteSet(backers) /\ IsFiniteSet(Replicas \ Correct)
    <3>1. /\ quorum \subseteq Replicas /\ good \subseteq Replicas /\ bad \subseteq Replicas
          /\ backers \subseteq Replicas /\ Replicas \ Correct \subseteq Replicas
      BY <2>3 DEF Correct
    <3> HIDE DEF good, bad, backers
    <3> QED BY <2>4, <3>1, FS_Subset
  <2>6. good \subseteq backers /\ bad \subseteq Replicas \ Correct
    BY <2>3
  <2>7. Cardinality(quorum) = Cardinality(good) + Cardinality(bad)
    <3>1. quorum = good \cup bad /\ good \cap bad = {}
      OBVIOUS
    <3> HIDE DEF good, bad
    <3>2. Cardinality(quorum) =
            Cardinality(good) + Cardinality(bad) - Cardinality(good \cap bad)
      BY <2>5, <3>1, FS_Union
    <3>3. Cardinality(good \cap bad) = 0
      BY <3>1, FS_EmptySet
    <3>4. Cardinality(good) \in Nat /\ Cardinality(bad) \in Nat
      BY <2>5, FS_CardinalityType
    <3> QED BY <3>2, <3>3, <3>4
  <2>8. /\ Cardinality(good) <= Cardinality(backers)
        /\ Cardinality(bad) <= Cardinality(Replicas \ Correct)
    <3> HIDE DEF good, bad, backers
    <3> QED BY <2>5, <2>6, FS_Subset
  <2>9. /\ Cardinality(good) \in Nat /\ Cardinality(bad) \in Nat
        /\ Cardinality(backers) \in Nat /\ Cardinality(Replicas \ Correct) \in Nat
    <3> HIDE DEF good, bad, backers
    <3> QED BY <2>5, FS_CardinalityType
  <2> HIDE DEF good, bad, backers
  <2>10. Cardinality(backers) > F
    BY <1>1, <2>2, <2>7, <2>8, <2>9, PBFTAssumption DEF FewFaulty, CommitThreshold
  <2> QED BY <2>10 DEF backers
<1>2. IInv => (FewFaulty => CommitBacked)
  BY <1>1
<1> QED BY <1>2, ReplicasInvariant, PTL

\* A replica publishes no PREPARE and no COMMIT of a view older than the one
\* it has installed (_cancel_obsolete_protocol_activity), whatever timers were
\* running and whatever its behaviour is.
THEOREM VotesAreCurrent == Spec => NoVoteForOlderView
<1> DEFINE Fresh == \A r \in Replicas : \A m \in inbox'[r] \ inbox[r] :
                      (m.type \in {"PREPARE", "COMMIT"} /\ m.from \in Replicas)
                      => m.view >= rep'[m.from].current_view
<1>1. ASSUME IInv, Next PROVE Fresh
  <2>1. CASE \E q \in Requests : ClientRequest(q)
    <3>1. PICK q \in Requests : ClientRequest(q)
      BY <2>1
    <3>2. \A r \in Replicas : \A m \in inbox'[r] \ inbox[r] : m.type = "REQUEST"
      BY <3>1 DEF ClientRequest, Vote
    <3> QED BY <3>2
  <2>2. CASE \E r \in Replicas : \E t, rest :
               rest \subseteq inbox[r] /\ StepOK(r, t) /\ Step(r, t, rest)
    <3>1. PICK r \in Replicas : \E t, rest :
                 rest \subseteq inbox[r] /\ StepOK(r, t) /\ Step(r, t, rest)
      BY <2>2
    <3>2. PICK t, rest : rest \subseteq inbox[r] /\ StepOK(r, t) /\ Step(r, t, rest)
      BY <3>1
    <3>3. ReplicaInv(r, t) /\ IsState(t)
      BY <3>2 DEF StepOK, ReplicaInv, KeysInv
    <3>4. rep'[r].current_view = t.current_view
      <4>1. [t EXCEPT !.out = {}].current_view = t.current_view
        BY <3>3 DEF IsState, Fields
      <4>2. rep = [a \in Replicas |-> rep[a]]
        BY <1>1 DEF IInv
      <4>3. rep'[r] = [t EXCEPT !.out = {}]
        <5>1. rep' = [rep EXCEPT ![r] = [t EXCEPT !.out = {}]]
          BY <3>2 DEF Step
        <5> DEFINE z == [t EXCEPT !.out = {}]
        <5> HIDE DEF z
        <5>2. rep' = [rep EXCEPT ![r] = z]
          BY <5>1 DEF z
        <5>3. rep'[r] = z
          BY <4>2, <5>2
        <5> QED BY <5>3 DEF z
      <4> QED BY <4>1, <4>3
    <3>5. ASSUME NEW d \in Replicas, NEW m \in inbox'[d] \ inbox[d]
          PROVE  \E o \in t.out : m = o[2]
      BY <3>2, <3>5 DEF Step
    <3>6. ASSUME NEW d \in Replicas, NEW m \in inbox'[d] \ inbox[d],
                 m.type \in {"PREPARE", "COMMIT"}, m.from \in Replicas
          PROVE  m.view >= rep'[m.from].current_view
      <4>1. Current(r, t, m)
        BY <3>3, <3>5, <3>6 DEF ReplicaInv, OutInv
      <4> QED BY <3>4, <3>6, <4>1 DEF Current
    <3> QED BY <3>6
  <2> QED BY <1>1, <2>1, <2>2, NextIsGood
<1>2. IInv /\ [Next]_vars => [Fresh]_vars
  BY <1>1
<1> QED BY <1>2, ReplicasInvariant, PTL DEF Spec, NoVoteForOlderView

\* While one request was asked, a correct replica that works on an uncommitted
\* instance of its view has its progress timeout armed or has asked for the
\* next view, for every F, any number of faulty replicas with the modelled
\* behaviours and any number of view changes (progress_timeout.py,
\* _activate_new_view).
THEOREM StalledAreWatched == Spec => []StalledIsWatched
<1>1. Spec => []KInv
  <2>1. Init => KInv
    BY KnownInit
  <2>2. IInv /\ KInv /\ [Next]_vars => KInv'
    BY KnownNext
  <2> QED BY <2>1, <2>2, ReplicasInvariant, PTL DEF Spec
<1>2. Spec => []OneKeys
  BY <1>1, ViewHasOneKey, ReplicasInvariant, PTL
<1>3. Spec => []WInv
  <2>1. Init => WInv
    BY WatchedInit
  <2>2. IInv /\ KInv /\ WInv /\ OneKeys' /\ [Next]_vars => WInv'
    BY WatchedNext
  <2> QED BY <1>1, <1>2, <2>1, <2>2, ReplicasInvariant, PTL DEF Spec
<1>4. KInv /\ WInv => StalledIsWatched
  <2> SUFFICES ASSUME KInv, WInv, NEW r \in Correct, Cardinality(asked) = 1,
                      param[r].timeout, rep[r].current_key # NoKey,
                      rep[r].current_key \notin rep[r].committed
               PROVE  \/ rep[r].timeout_view = rep[r].current_view
                      \/ rep[r].current_view + 1 \in rep[r].view_change_sent
    BY DEF StalledIsWatched
  <2>1. Single
    <3>1. \E q : asked = {q}
      BY FS_Singleton DEF KInv
    <3> QED BY <3>1 DEF Single
  <2> QED BY <2>1 DEF WInv, Watched
<1> QED BY <1>1, <1>3, <1>4, PTL
=============================================================================
