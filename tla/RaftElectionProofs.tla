------------------------- MODULE RaftElectionProofs -------------------------
(***************************************************************************)
(* Proofs about RaftElection, for every cluster and every bound: at most   *)
(* one leader per term, at most one vote per coordinator and term, and a   *)
(* leader hint that is always true.                                        *)
(*                                                                         *)
(* The argument: a vote in the history is in the voter's store until the   *)
(* voter's term moves on (VotesKept), so a voter never gives two; the      *)
(* winner of an election holds the votes of a quorum (ElectedBacked), and  *)
(* two quorums share a voter.                                              *)
(***************************************************************************)
EXTENDS RaftElection, FiniteSetTheorems, TLAPS

-----------------------------------------------------------------------------
(* The inductive invariant.                                                *)

VotesKept ==
    \A v \in votes :
        \/ v.term < currentTerm[v.voter]
        \/ v.term = currentTerm[v.voter] /\ v.for = votedFor[v.voter]

Vote(p, t, n) == [voter |-> p, term |-> t, for |-> n]
Win(t, n) == [term |-> t, node |-> n]

GrantedCast ==
    \A n \in Node : \A p \in election[n].granted : Vote(p, election[n].term, n) \in votes

BackedBy(Q, t, n) ==
    Cardinality(Q) >= QuorumSize /\ \A p \in Q : Vote(p, t, n) \in votes

ElectedBacked ==
    \A l \in elected : \E Q \in SUBSET Node : BackedBy(Q, l.term, l.node)

LeadersElected ==
    \A n \in Node : role[n] = "Leader" => Win(currentTerm[n], n) \in elected

HeartbeatsElected ==
    \A m \in net : m.type = "AppendEntries" => Win(m.term, m.from) \in elected

VoteInv   == VotesKept /\ OneVotePerTerm
LeaderInv == LeadersElected /\ HeartbeatsElected /\ LeaderHintTrue
IInv == TypeOK /\ VoteInv /\ GrantedCast /\ ElectedBacked /\ LeaderInv

\* What a step may do to the stored term and vote.
VoteStep ==
    \A n \in Node :
        /\ currentTerm[n] <= currentTerm'[n]
        /\ currentTerm'[n] = currentTerm[n] /\ votedFor[n] # None
             => votedFor'[n] = votedFor[n]

-----------------------------------------------------------------------------
(* Facts about quorums and about votes.                                    *)

\* Two sets of at least clusterSize / 2 + 1 coordinators share one.
LEMMA QuorumsMeet ==
    ASSUME NEW P \in SUBSET Node, NEW Q \in SUBSET Node,
           Cardinality(P) >= QuorumSize, Cardinality(Q) >= QuorumSize
    PROVE  P \cap Q # {}
<1>1. IsFiniteSet(Node) /\ Cardinality(Node) \in Nat
  BY NodeAssumption, FS_CardinalityType
<1>2. /\ IsFiniteSet(P) /\ IsFiniteSet(Q)
      /\ Cardinality(P) \in Nat /\ Cardinality(Q) \in Nat
  BY <1>1, FS_Subset, FS_CardinalityType
<1>3. /\ Cardinality(P \cup Q) = Cardinality(P) + Cardinality(Q) - Cardinality(P \cap Q)
  BY <1>2, FS_Union
<1>4. Cardinality(P \cup Q) <= Cardinality(Node)
  BY <1>1, FS_Subset
<1>5. 2 * QuorumSize > Cardinality(Node)
  BY <1>1 DEF QuorumSize
<1>6. P \cap Q = {} => Cardinality(P \cap Q) = 0
  BY FS_EmptySet
<1>7. QuorumSize \in Int
  BY <1>1 DEF QuorumSize
<1> QED
  BY <1>1, <1>2, <1>3, <1>4, <1>5, <1>6, <1>7

\* The votes given so far stay in the store, or their term is over.
LEMMA OldVotes ==
    ASSUME IInv, TypeOK', VoteStep, NEW v \in votes
    PROVE  \/ v.term < currentTerm'[v.voter]
           \/ v.term = currentTerm'[v.voter] /\ v.for = votedFor'[v.voter]
<1>1. /\ v.voter \in Node /\ v.for \in Node /\ v.term \in Nat
      /\ currentTerm[v.voter] \in Nat
  BY DEF IInv, TypeOK, VoteType
<1>2. currentTerm'[v.voter] \in Nat
  BY <1>1 DEF TypeOK
<1>3. v.for # None
  BY <1>1, NodeAssumption
<1>4. \/ v.term < currentTerm[v.voter]
      \/ v.term = currentTerm[v.voter] /\ v.for = votedFor[v.voter]
  BY DEF IInv, VoteInv, VotesKept
<1>5. /\ currentTerm[v.voter] <= currentTerm'[v.voter]
      /\ currentTerm'[v.voter] = currentTerm[v.voter] /\ votedFor[v.voter] # None
             => votedFor'[v.voter] = votedFor[v.voter]
  BY <1>1 DEF VoteStep
<1> QED
  BY <1>1, <1>2, <1>3, <1>4, <1>5

\* A step that grants no vote.
LEMMA NoVote ==
    ASSUME IInv, TypeOK', VoteStep, votes' = votes
    PROVE  VoteInv'
<1>1. VotesKept'
  BY OldVotes DEF VotesKept
<1>2. OneVotePerTerm'
  BY DEF IInv, VoteInv, OneVotePerTerm
<1> QED
  BY <1>1, <1>2 DEF VoteInv

\* A step that grants the vote it stores.
LEMMA NewVote ==
    ASSUME IInv, TypeOK', VoteStep, NEW n \in Node, NEW c \in Node, NEW t \in Nat,
           votes' = votes \cup {Vote(n, t, c)},
           currentTerm'[n] = t, votedFor'[n] = c
    PROVE  VoteInv'
<1> DEFINE w == Vote(n, t, c)
<1>1. w.voter = n /\ w.term = t /\ w.for = c
  BY DEF Vote
<1>2. \A v \in votes : \/ v.term < currentTerm'[v.voter]
                       \/ v.term = currentTerm'[v.voter] /\ v.for = votedFor'[v.voter]
  BY OldVotes
<1>3. VotesKept'
  BY <1>1, <1>2 DEF VotesKept
<1>4. \A v \in votes : v.voter = n /\ v.term = t => v.for = c
  BY <1>2
<1>5. OneVotePerTerm'
  <2> SUFFICES ASSUME NEW u \in votes', NEW v \in votes',
                      u.voter = v.voter, u.term = v.term
               PROVE  u.for = v.for
    BY DEF OneVotePerTerm
  <2>1. CASE u \in votes /\ v \in votes
    BY <2>1 DEF IInv, VoteInv, OneVotePerTerm
  <2>2. CASE u = w \/ v = w
    BY <1>1, <1>4, <2>2
  <2> QED
    BY <2>1, <2>2
<1> QED
  BY <1>3, <1>5 DEF VoteInv

\* Votes are never taken back, so the winners stay backed.
LEMMA StillBacked ==
    ASSUME IInv, votes \subseteq votes', elected' = elected
    PROVE  ElectedBacked'
<1> SUFFICES ASSUME NEW l \in elected
             PROVE  \E Q \in SUBSET Node : BackedBy(Q, l.term, l.node)'
  BY DEF ElectedBacked
<1>1. PICK Q \in SUBSET Node : BackedBy(Q, l.term, l.node)
  BY DEF IInv, ElectedBacked
<1>2. BackedBy(Q, l.term, l.node)'
  BY <1>1 DEF BackedBy, Vote
<1> QED
  BY <1>2

-----------------------------------------------------------------------------
(* One lemma per action.                                                   *)

LEMMA InitIInv == Init => IInv
<1> SUFFICES ASSUME Init PROVE IInv
  OBVIOUS
<1>1. TypeOK
  BY DEF Init, TypeOK, NoElection, ElectionType
<1>2. VoteInv
  BY DEF Init, VoteInv, VotesKept, OneVotePerTerm
<1>3. GrantedCast
  BY DEF Init, GrantedCast, NoElection
<1>4. ElectedBacked
  BY DEF Init, ElectedBacked
<1>5. LeaderInv
  BY DEF Init, LeaderInv, LeadersElected, HeartbeatsElected, LeaderHintTrue
<1> QED
  BY <1>1, <1>2, <1>3, <1>4, <1>5 DEF IInv

\* The requests Send adds.
LEMMA SendTyped ==
    ASSUME net \subseteq MessageType, NEW n \in Node, NEW t \in Nat,
           NEW S \in SUBSET Peers(n), NEW type \in {"RequestVote", "AppendEntries"},
           Send(type, n, t, S)
    PROVE  /\ net' \subseteq MessageType
           /\ \A m \in net' : m \in net \/ (m.type = type /\ m.term = t /\ m.from = n)
  BY DEF Send, MessageType, Peers

LEMMA BeginElectionStep ==
    ASSUME IInv, NEW n \in Node, NEW S \in SUBSET Peers(n), BeginElection(n, S)
    PROVE  IInv' /\ VoteStep
<1> DEFINE t == currentTerm[n] + 1
           e == [term |-> t, granted |-> {n}, highest |-> t]
<1>1. t \in Nat /\ currentTerm[n] \in Nat /\ t > currentTerm[n]
  BY DEF IInv, TypeOK
<1>2. /\ currentTerm' = [currentTerm EXCEPT ![n] = t]
      /\ votedFor' = [votedFor EXCEPT ![n] = n]
      /\ role' = [role EXCEPT ![n] = "Candidate"]
      /\ leaderId' = [leaderId EXCEPT ![n] = None]
      /\ election' = [election EXCEPT ![n] = e]
      /\ votes' = votes \cup {Vote(n, t, n)}
      /\ elected' = elected /\ crashes' = crashes
      /\ Send("RequestVote", n, t, S)
  BY DEF BeginElection, Vote
<1>3. e \in ElectionType /\ Vote(n, t, n) \in VoteType
  BY <1>1 DEF ElectionType, Vote, VoteType
<1>4. /\ net' \subseteq MessageType
      /\ \A m \in net' : m \in net \/ m.type = "RequestVote"
  BY <1>1, <1>2, SendTyped DEF IInv, TypeOK
<1>5. e.term = t /\ e.granted = {n}
  OBVIOUS
<1> HIDE DEF t, e
<1>6. TypeOK'
  BY <1>1, <1>2, <1>3, <1>4 DEF IInv, TypeOK
<1>7. VoteStep
  BY <1>1, <1>2 DEF VoteStep, IInv, TypeOK
<1>8. VoteInv'
  <2>1. currentTerm'[n] = t /\ votedFor'[n] = n
    BY <1>2 DEF IInv, TypeOK
  <2> QED
    BY <1>1, <1>2, <1>6, <1>7, <2>1, NewVote
<1>9. GrantedCast'
  <2> SUFFICES ASSUME NEW k \in Node, NEW p \in election'[k].granted
               PROVE  Vote(p, election'[k].term, k) \in votes'
    BY DEF GrantedCast, Vote
  <2>1. CASE k = n
    BY <1>2, <1>5, <2>1 DEF IInv, TypeOK
  <2>2. CASE k # n
    BY <1>2, <2>2 DEF IInv, TypeOK, GrantedCast
  <2> QED
    BY <2>1, <2>2
<1>10. ElectedBacked'
  BY <1>2, StillBacked
<1>11. LeaderInv'
  <2>1. LeadersElected'
    BY <1>2 DEF IInv, TypeOK, LeaderInv, LeadersElected, Win
  <2>2. HeartbeatsElected'
    BY <1>2, <1>4 DEF IInv, LeaderInv, HeartbeatsElected, Win
  <2>3. LeaderHintTrue'
    BY <1>2 DEF IInv, TypeOK, LeaderInv, LeaderHintTrue
  <2> QED
    BY <2>1, <2>2, <2>3 DEF LeaderInv
<1> QED
  BY <1>6, <1>7, <1>8, <1>9, <1>10, <1>11 DEF IInv

\* The winner holds the votes of a quorum.
LEMMA WinElectionStep ==
    ASSUME IInv, NEW n \in Node, NEW S \in SUBSET Peers(n), WinElection(n, S)
    PROVE  IInv' /\ VoteStep
<1> DEFINE t == currentTerm[n]
<1>1. t \in Nat /\ election[n] \in ElectionType
  BY DEF IInv, TypeOK
<1>2. /\ UNCHANGED <<currentTerm, votedFor, votes, crashes>>
      /\ role' = [role EXCEPT ![n] = "Leader"]
      /\ leaderId' = [leaderId EXCEPT ![n] = n]
      /\ elected' = elected \cup {Win(t, n)}
      /\ election' = [election EXCEPT ![n] = NoElection]
      /\ Send("AppendEntries", n, t, S)
  BY DEF WinElection, durable, Win
<1>3. /\ election[n].term = t
      /\ Cardinality(election[n].granted) >= QuorumSize
      /\ election[n].granted \in SUBSET Node
  BY <1>1 DEF WinElection, Won, ElectionType
<1>4. /\ net' \subseteq MessageType
      /\ \A m \in net' : m \in net \/ (m.type = "AppendEntries" /\ m.term = t /\ m.from = n)
  BY <1>1, <1>2, SendTyped DEF IInv, TypeOK
<1>5. Win(t, n) \in LeaderType /\ NoElection \in ElectionType /\ NoElection.granted = {}
  BY <1>1 DEF Win, LeaderType, NoElection, ElectionType
<1>6. TypeOK'
  BY <1>2, <1>4, <1>5 DEF IInv, TypeOK
<1>7. VoteStep
  BY <1>2 DEF VoteStep, IInv, TypeOK
<1>8. VoteInv'
  BY <1>2, <1>6, <1>7, NoVote
<1>9. GrantedCast'
  <2> SUFFICES ASSUME NEW k \in Node, NEW p \in election'[k].granted
               PROVE  Vote(p, election'[k].term, k) \in votes'
    BY DEF GrantedCast, Vote
  <2> QED
    BY <1>2, <1>5 DEF IInv, TypeOK, GrantedCast
<1>10. ElectedBacked'
  <2> SUFFICES ASSUME NEW l \in elected'
               PROVE  \E Q \in SUBSET Node : BackedBy(Q, l.term, l.node)
    BY <1>2 DEF ElectedBacked, BackedBy, Vote
  <2>1. CASE l \in elected
    BY <2>1 DEF IInv, ElectedBacked
  <2>2. CASE l = Win(t, n)
    <3>1. BackedBy(election[n].granted, t, n)
      BY <1>3 DEF BackedBy, IInv, GrantedCast
    <3>2. l.term = t /\ l.node = n
      BY <2>2 DEF Win
    <3> QED
      BY <1>3, <3>1, <3>2
  <2> QED
    BY <1>2, <2>1, <2>2
<1>11. LeaderInv'
  <2>1. LeadersElected'
    BY <1>2 DEF IInv, TypeOK, LeaderInv, LeadersElected, Win
  <2>2. HeartbeatsElected'
    BY <1>2, <1>4 DEF IInv, LeaderInv, HeartbeatsElected, Win
  <2>3. LeaderHintTrue'
    BY <1>2 DEF IInv, TypeOK, LeaderInv, LeaderHintTrue, Win
  <2> QED
    BY <2>1, <2>2, <2>3 DEF LeaderInv
<1> QED
  BY <1>6, <1>7, <1>8, <1>9, <1>10, <1>11 DEF IInv

\* Nobody gains a role by learning of a higher term.
LEMMA LoseElectionStep ==
    ASSUME IInv, NEW n \in Node, LoseElection(n)
    PROVE  IInv' /\ VoteStep
<1> DEFINE t == IF election[n].highest > election[n].term THEN election[n].highest ELSE 0
           cur == currentTerm[n]
<1>1. t \in Nat /\ cur \in Nat
  <2>1. election[n] \in ElectionType
    BY DEF IInv, TypeOK
  <2> QED
    BY <2>1 DEF IInv, TypeOK, ElectionType
<1>2. /\ ObserveHigherTerm(n, t)
      /\ election' = [election EXCEPT ![n] = NoElection]
      /\ UNCHANGED <<net, votes, elected, crashes>>
  BY DEF LoseElection, history
<1> HIDE DEF t
<1>3. /\ currentTerm' = [currentTerm EXCEPT ![n] = IF t > cur THEN t ELSE cur]
      /\ votedFor' = [votedFor EXCEPT ![n] = IF t > cur THEN None ELSE votedFor[n]]
      /\ role' = [role EXCEPT ![n] = IF t > cur THEN "Follower" ELSE role[n]]
      /\ leaderId' = [leaderId EXCEPT ![n] = IF t > cur THEN None ELSE leaderId[n]]
  BY <1>1, <1>2 DEF ObserveHigherTerm, Larger, IInv, TypeOK
<1>4. NoElection \in ElectionType /\ NoElection.granted = {}
  BY DEF NoElection, ElectionType
<1>5. TypeOK'
  BY <1>1, <1>2, <1>3, <1>4 DEF IInv, TypeOK
<1>6. VoteStep
  BY <1>1, <1>3 DEF VoteStep, IInv, TypeOK
<1>7. VoteInv'
  BY <1>2, <1>5, <1>6, NoVote
<1>8. GrantedCast'
  <2> SUFFICES ASSUME NEW k \in Node, NEW p \in election'[k].granted
               PROVE  Vote(p, election'[k].term, k) \in votes'
    BY DEF GrantedCast, Vote
  <2> QED
    BY <1>2, <1>4 DEF IInv, TypeOK, GrantedCast
<1>9. ElectedBacked'
  BY <1>2, StillBacked
<1>10. LeaderInv'
  <2>1. LeadersElected'
    BY <1>1, <1>2, <1>3 DEF IInv, TypeOK, LeaderInv, LeadersElected, Win
  <2>2. HeartbeatsElected'
    BY <1>2 DEF IInv, LeaderInv, HeartbeatsElected, Win
  <2>3. LeaderHintTrue'
    BY <1>1, <1>2, <1>3 DEF IInv, TypeOK, LeaderInv, LeaderHintTrue
  <2> QED
    BY <2>1, <2>2, <2>3 DEF LeaderInv
<1> QED
  BY <1>5, <1>6, <1>7, <1>8, <1>9, <1>10 DEF IInv

\* The vote is stored with the term before it is answered.
LEMMA HandleRequestVoteStep ==
    ASSUME IInv, NEW m \in net, NEW upToDate \in BOOLEAN, NEW answered \in BOOLEAN,
           HandleRequestVote(m, upToDate, answered)
    PROVE  IInv' /\ VoteStep
<1> DEFINE n == m.to
           c == m.from
           t == m.term
           cur == currentTerm[n]
           yes == Grants(m, upToDate)
           e == [term |-> election[c].term,
                 granted |-> IF yes THEN election[c].granted \cup {n} ELSE election[c].granted,
                 highest |-> Larger(election[c].highest, Larger(cur, t))]
<1>1. m \in MessageType /\ n \in Node /\ c \in Node /\ t \in Nat /\ cur \in Nat
  BY DEF IInv, TypeOK, MessageType
<1>2. /\ currentTerm' = [currentTerm EXCEPT ![n] = IF t > cur THEN t ELSE cur]
      /\ votedFor' = [votedFor EXCEPT ![n] =
                        IF yes THEN c ELSE IF t > cur THEN None ELSE votedFor[n]]
      /\ role' = [role EXCEPT ![n] = IF t > cur THEN "Follower" ELSE role[n]]
      /\ leaderId' = [leaderId EXCEPT ![n] = IF t > cur THEN None ELSE leaderId[n]]
      /\ votes' = IF yes THEN votes \cup {Vote(n, t, c)} ELSE votes
      /\ election' = IF answered THEN [election EXCEPT ![c] = e] ELSE election
      /\ net' = net \ {m} /\ elected' = elected /\ crashes' = crashes
  BY <1>1 DEF HandleRequestVote, Vote, Larger, IInv, TypeOK
<1>3. yes => t > cur \/ (t = cur /\ votedFor[n] \in {None, c})
  BY DEF Grants
<1>4. answered => election[c].term = t
  BY DEF HandleRequestVote
<1>5. e \in ElectionType /\ e.term = election[c].term
  <2>1. election[c] \in ElectionType
    BY <1>1 DEF IInv, TypeOK
  <2> QED
    BY <1>1, <2>1 DEF ElectionType, Larger
<1>6. e.granted = IF yes THEN election[c].granted \cup {n} ELSE election[c].granted
  OBVIOUS
<1>7. Vote(n, t, c) \in VoteType
  BY <1>1 DEF Vote, VoteType
<1> HIDE DEF n, c, t, yes, e
<1>8. TypeOK'
  BY <1>1, <1>2, <1>5, <1>7 DEF IInv, TypeOK
<1>9. VoteStep
  BY <1>1, <1>2, <1>3 DEF VoteStep, IInv, TypeOK
<1>10. VoteInv'
  <2>1. CASE yes
    <3>1. currentTerm'[n] = t /\ votedFor'[n] = c
      BY <1>1, <1>2, <1>3, <2>1 DEF IInv, TypeOK
    <3> QED
      BY <1>1, <1>2, <1>8, <1>9, <2>1, <3>1, NewVote
  <2>2. CASE ~yes
    BY <1>2, <1>8, <1>9, <2>2, NoVote
  <2> QED
    BY <2>1, <2>2
<1>11. GrantedCast'
  <2> SUFFICES ASSUME NEW k \in Node, NEW p \in election'[k].granted
               PROVE  Vote(p, election'[k].term, k) \in votes'
    BY DEF GrantedCast, Vote
  <2>1. votes \subseteq votes' /\ (yes => Vote(n, t, c) \in votes')
    BY <1>2
  <2>2. CASE answered /\ k = c
    <3>1. election'[k] = e /\ e.term = t /\ election[k].term = t
      BY <1>1, <1>2, <1>4, <1>5, <2>2 DEF IInv, TypeOK
    <3>2. p \in election[k].granted \/ (yes /\ p = n)
      BY <1>6, <2>2, <3>1
    <3> QED
      BY <2>1, <2>2, <3>1, <3>2 DEF IInv, GrantedCast
  <2>3. CASE ~(answered /\ k = c)
    <3>1. election'[k] = election[k]
      BY <1>1, <1>2, <2>3 DEF IInv, TypeOK
    <3> QED
      BY <2>1, <3>1 DEF IInv, GrantedCast
  <2> QED
    BY <2>2, <2>3
<1>12. ElectedBacked'
  BY <1>2, StillBacked
<1>13. LeaderInv'
  <2>1. LeadersElected'
    BY <1>1, <1>2 DEF IInv, TypeOK, LeaderInv, LeadersElected, Win
  <2>2. HeartbeatsElected'
    BY <1>2 DEF IInv, LeaderInv, HeartbeatsElected, Win
  <2>3. LeaderHintTrue'
    BY <1>1, <1>2 DEF IInv, TypeOK, LeaderInv, LeaderHintTrue
  <2> QED
    BY <2>1, <2>2, <2>3 DEF LeaderInv
<1> QED
  BY <1>8, <1>9, <1>10, <1>11, <1>12, <1>13 DEF IInv

\* Steps that leave the elections and the histories of votes and wins alone.
LEMMA OrdinaryStep ==
    ASSUME IInv, TypeOK', VoteStep, UNCHANGED <<votes, elected>>,
           \A k \in Node : election'[k] = election[k] \/ election'[k].granted = {}
    PROVE  VoteInv' /\ GrantedCast' /\ ElectedBacked'
<1>1. VoteInv'
  BY NoVote
<1>2. ElectedBacked'
  BY StillBacked
<1>3. GrantedCast'
  BY DEF IInv, GrantedCast, Vote
<1> QED
  BY <1>1, <1>2, <1>3

LEMMA SendHeartbeatStep ==
    ASSUME IInv, NEW n \in Node, NEW S \in SUBSET Peers(n), SendHeartbeat(n, S)
    PROVE  IInv' /\ VoteStep
<1>1. currentTerm[n] \in Nat /\ role[n] = "Leader"
  BY DEF SendHeartbeat, IInv, TypeOK
<1>2. /\ UNCHANGED <<currentTerm, votedFor, role, leaderId, election, votes, elected, crashes>>
      /\ Send("AppendEntries", n, currentTerm[n], S)
  BY DEF SendHeartbeat, durable, volatile, history
<1>3. /\ net' \subseteq MessageType
      /\ \A m \in net' : m \in net \/ (m.term = currentTerm[n] /\ m.from = n)
  BY <1>1, <1>2, SendTyped DEF IInv, TypeOK
<1>4. TypeOK'
  BY <1>2, <1>3 DEF IInv, TypeOK
<1>5. VoteStep
  BY <1>2 DEF VoteStep, IInv, TypeOK
<1>6. VoteInv' /\ GrantedCast' /\ ElectedBacked'
  BY <1>2, <1>4, <1>5, OrdinaryStep
<1>7. LeaderInv'
  BY <1>1, <1>2, <1>3
     DEF IInv, LeaderInv, LeadersElected, HeartbeatsElected, LeaderHintTrue, Win
<1> QED
  BY <1>4, <1>5, <1>6, <1>7 DEF IInv

\* An accepted heartbeat names the leader of its term, which the receiver is
\* then in.
LEMMA HandleHeartbeatStep ==
    ASSUME IInv, NEW m \in net, NEW answered \in BOOLEAN, HandleHeartbeat(m, answered)
    PROVE  IInv' /\ VoteStep
<1> DEFINE n == m.to
           l == m.from
           t == currentTerm[n]
           down == StepsDown(m, answered)
<1>1. /\ m \in MessageType /\ n \in Node /\ l \in Node
      /\ m.term \in Nat /\ t \in Nat /\ currentTerm[l] \in Nat
  BY DEF IInv, TypeOK, MessageType
<1>2. down => t > m.term /\ t > currentTerm[l] /\ l # n
  BY <1>1 DEF StepsDown, Larger
<1>3. \A k \in Node :
        /\ currentTerm'[k] = IF k = l /\ down THEN t
                             ELSE IF k = n /\ m.term > t THEN m.term ELSE currentTerm[k]
        /\ votedFor'[k] = IF (k = l /\ down) \/ (k = n /\ m.term > t) THEN None ELSE votedFor[k]
        /\ role'[k] = IF (k = l /\ down) \/ (k = n /\ m.term >= t) THEN "Follower" ELSE role[k]
        /\ leaderId'[k] = IF k = l /\ down THEN None
                          ELSE IF k = n /\ m.term >= t THEN l ELSE leaderId[k]
  BY <1>1, <1>2 DEF HandleHeartbeat, LeaderHint, Larger, IInv, TypeOK
<1>4. /\ UNCHANGED <<election, votes, elected, crashes>> /\ net' = net \ {m}
      /\ m.type = "AppendEntries"
  BY DEF HandleHeartbeat, history
<1>5. TypeOK'
  <2>1. /\ currentTerm' \in [Node -> Nat]
        /\ votedFor' \in [Node -> Node \cup {None}]
    BY <1>1 DEF HandleHeartbeat, Larger, IInv, TypeOK
  <2>2. role' \in [Node -> {"Follower", "Candidate", "Leader"}]
    BY <1>1 DEF HandleHeartbeat, IInv, TypeOK
  <2>3. leaderId' \in [Node -> Node \cup {None}]
    BY <1>1 DEF HandleHeartbeat, LeaderHint, IInv, TypeOK
  <2> QED
    BY <1>4, <2>1, <2>2, <2>3 DEF IInv, TypeOK
<1> HIDE DEF n, l, down
<1>6. VoteStep
  BY <1>1, <1>2, <1>3 DEF VoteStep, IInv, TypeOK
<1>7. VoteInv' /\ GrantedCast' /\ ElectedBacked'
  BY <1>4, <1>5, <1>6, OrdinaryStep
<1>8. Win(m.term, l) \in elected
  BY <1>4 DEF IInv, LeaderInv, HeartbeatsElected, l
<1>9. LeaderInv'
  <2>1. LeadersElected'
    <3> SUFFICES ASSUME NEW k \in Node, role'[k] = "Leader"
                 PROVE  Win(currentTerm'[k], k) \in elected'
      BY DEF LeadersElected, Win
    <3>1. role[k] = "Leader" /\ currentTerm'[k] = currentTerm[k]
      BY <1>1, <1>3
    <3> QED
      BY <1>4, <3>1 DEF IInv, LeaderInv, LeadersElected
  <2>2. HeartbeatsElected'
    BY <1>4 DEF IInv, LeaderInv, HeartbeatsElected, Win
  <2>3. LeaderHintTrue'
    <3> SUFFICES ASSUME NEW k \in Node, leaderId'[k] # None
                 PROVE  Win(currentTerm'[k], leaderId'[k]) \in elected
      BY <1>4 DEF LeaderHintTrue, Win
    <3>1. CASE k = n /\ m.term >= t
      <4>1. currentTerm'[k] = m.term /\ leaderId'[k] = l
        BY <1>1, <1>2, <1>3, <3>1
      <4> QED
        BY <1>8, <4>1
    <3>2. CASE ~(k = n /\ m.term >= t)
      <4>1. currentTerm'[k] = currentTerm[k] /\ leaderId'[k] = leaderId[k]
        BY <1>1, <1>3, <3>2
      <4> QED
        BY <4>1 DEF IInv, LeaderInv, LeaderHintTrue, Win
    <3> QED
      BY <3>1, <3>2
  <2> QED
    BY <2>1, <2>2, <2>3 DEF LeaderInv
<1> QED
  BY <1>5, <1>6, <1>7, <1>9 DEF IInv

LEMMA LoseRequestStep ==
    ASSUME IInv, NEW m \in net, LoseRequest(m)
    PROVE  IInv' /\ VoteStep
<1>1. /\ UNCHANGED <<currentTerm, votedFor, role, leaderId, election, votes, elected, crashes>>
      /\ net' = net \ {m}
  BY DEF LoseRequest, durable, volatile, history
<1>2. TypeOK'
  BY <1>1 DEF IInv, TypeOK
<1>3. VoteStep
  BY <1>1 DEF VoteStep, IInv, TypeOK
<1>4. VoteInv' /\ GrantedCast' /\ ElectedBacked'
  BY <1>1, <1>2, <1>3, OrdinaryStep
<1>5. LeaderInv'
  BY <1>1 DEF IInv, LeaderInv, LeadersElected, HeartbeatsElected, LeaderHintTrue, Win
<1> QED
  BY <1>2, <1>3, <1>4, <1>5 DEF IInv

\* A restarted coordinator has no role, no hint and no election, and a term
\* and vote that VoteStep allows.
LEMMA CrashStep ==
    ASSUME IInv, NEW n \in Node, ForgetVolatile(n), VoteStep,
           currentTerm' \in [Node -> Nat], votedFor' \in [Node -> Node \cup {None}],
           \A k \in Node \ {n} : currentTerm'[k] = currentTerm[k],
           net' \subseteq net, UNCHANGED <<votes, elected>>
    PROVE  IInv'
<1>1. /\ role' = [role EXCEPT ![n] = "Follower"]
      /\ leaderId' = [leaderId EXCEPT ![n] = None]
      /\ election' = [election EXCEPT ![n] = NoElection]
      /\ crashes' = crashes + 1
  BY DEF ForgetVolatile
<1>2. NoElection \in ElectionType /\ NoElection.granted = {}
  BY DEF NoElection, ElectionType
<1>3. TypeOK'
  BY <1>1, <1>2 DEF IInv, TypeOK
<1>4. \A k \in Node : election'[k] = election[k] \/ election'[k].granted = {}
  BY <1>1, <1>2 DEF IInv, TypeOK
<1>5. VoteInv' /\ GrantedCast' /\ ElectedBacked'
  BY <1>3, <1>4, OrdinaryStep
<1>6. LeaderInv'
  <2>1. LeadersElected'
    BY <1>1 DEF IInv, TypeOK, LeaderInv, LeadersElected, Win
  <2>2. HeartbeatsElected'
    BY DEF IInv, LeaderInv, HeartbeatsElected, Win
  <2>3. LeaderHintTrue'
    BY <1>1 DEF IInv, TypeOK, LeaderInv, LeaderHintTrue
  <2> QED
    BY <2>1, <2>2, <2>3 DEF LeaderInv
<1> QED
  BY <1>3, <1>5, <1>6 DEF IInv

LEMMA RestartStep ==
    ASSUME IInv, NEW n \in Node, Restart(n)
    PROVE  IInv' /\ VoteStep
<1>1. /\ UNCHANGED <<currentTerm, votedFor, net, votes, elected>>
      /\ ForgetVolatile(n)
  BY DEF Restart, LoadState
<1>2. VoteStep
  BY <1>1 DEF VoteStep, IInv, TypeOK
<1>3. currentTerm' \in [Node -> Nat] /\ votedFor' \in [Node -> Node \cup {None}]
  BY <1>1 DEF IInv, TypeOK
<1> QED
  BY <1>1, <1>2, <1>3, CrashStep

LEMMA CrashInRequestVoteStep ==
    ASSUME IInv, NEW m \in net, CrashInRequestVote(m)
    PROVE  IInv' /\ VoteStep
<1>1. m.to \in Node /\ m.term \in Nat /\ currentTerm[m.to] \in Nat
  BY DEF IInv, TypeOK, MessageType
<1>2. /\ m.term > currentTerm[m.to]
      /\ currentTerm' = [currentTerm EXCEPT ![m.to] = m.term]
      /\ votedFor' = [votedFor EXCEPT ![m.to] = None]
      /\ ForgetVolatile(m.to) /\ net' = net \ {m} /\ UNCHANGED <<votes, elected>>
  BY DEF CrashInRequestVote
<1>3. VoteStep
  BY <1>1, <1>2 DEF VoteStep, IInv, TypeOK
<1>4. /\ currentTerm' \in [Node -> Nat] /\ votedFor' \in [Node -> Node \cup {None}]
      /\ \A k \in Node \ {m.to} : currentTerm'[k] = currentTerm[k]
  BY <1>1, <1>2 DEF IInv, TypeOK
<1>5. net' \subseteq net
  BY <1>2
<1> QED
  BY <1>1, <1>2, <1>3, <1>4, <1>5, CrashStep

-----------------------------------------------------------------------------
(* The theorems.                                                           *)

\* Every step keeps the invariant and what is stored of a vote.
LEMMA NextStep ==
    ASSUME IInv, [Next]_vars
    PROVE  IInv' /\ VoteStep
<1>1. ASSUME NEW n \in Node, NodeStep(n)
      PROVE  IInv' /\ VoteStep
  BY <1>1, BeginElectionStep, WinElectionStep, SendHeartbeatStep, LoseElectionStep,
     RestartStep DEF NodeStep
<1>2. ASSUME NEW m \in net, RequestStep(m)
      PROVE  IInv' /\ VoteStep
  BY <1>2, HandleRequestVoteStep, HandleHeartbeatStep, CrashInRequestVoteStep,
     LoseRequestStep DEF RequestStep
<1>3. CASE UNCHANGED vars
  <2>1. UNCHANGED <<currentTerm, votedFor, role, leaderId, election, net, votes, elected, crashes>>
    BY <1>3 DEF vars, durable, volatile, history
  <2>2. TypeOK'
    BY <2>1 DEF IInv, TypeOK
  <2>3. VoteStep
    BY <2>1 DEF VoteStep, IInv, TypeOK
  <2>4. VoteInv' /\ GrantedCast' /\ ElectedBacked'
    BY <2>1, <2>2, <2>3, OrdinaryStep
  <2>5. LeaderInv'
    BY <2>1 DEF IInv, LeaderInv, LeadersElected, HeartbeatsElected, LeaderHintTrue, Win
  <2> QED
    BY <2>2, <2>3, <2>4, <2>5 DEF IInv
<1> QED
  BY <1>1, <1>2, <1>3 DEF Next

\* The inductive invariant holds in every reachable state.
THEOREM Invariant == Spec => []IInv
<1>1. Init => IInv
  BY InitIInv
<1>2. IInv /\ [Next]_vars => IInv'
  BY NextStep
<1> QED
  BY <1>1, <1>2, PTL DEF Spec

\* Two winners of a term share a voter, and that voter voted once.
LEMMA BackedWinnersAgree == IInv => ElectionSafety
<1> SUFFICES ASSUME IInv, NEW k \in elected, NEW l \in elected, k.term = l.term
             PROVE  k.node = l.node
  BY DEF ElectionSafety
<1>1. PICK P \in SUBSET Node : BackedBy(P, k.term, k.node)
  BY DEF IInv, ElectedBacked
<1>2. PICK Q \in SUBSET Node : BackedBy(Q, l.term, l.node)
  BY DEF IInv, ElectedBacked
<1>3. PICK p \in P : p \in Q
  BY <1>1, <1>2, QuorumsMeet DEF BackedBy
<1>4. /\ Vote(p, k.term, k.node) \in votes
      /\ Vote(p, k.term, l.node) \in votes
  BY <1>1, <1>2, <1>3 DEF BackedBy
<1> QED
  BY <1>4 DEF IInv, VoteInv, OneVotePerTerm, Vote

\* The fields of every coordinator keep their types.
THEOREM TypeCorrect == Spec => []TypeOK
<1>1. IInv => TypeOK
  BY DEF IInv
<1> QED
  BY <1>1, Invariant, PTL

\* No coordinator votes twice in a term, across crashes and repeated requests.
THEOREM VotesOnce == Spec => []OneVotePerTerm
<1>1. IInv => OneVotePerTerm
  BY DEF IInv, VoteInv
<1> QED
  BY <1>1, Invariant, PTL

\* At most one coordinator wins a term.
THEOREM OneLeaderPerTerm == Spec => []ElectionSafety
  BY BackedWinnersAgree, Invariant, PTL

\* The leader hint is never stale.
THEOREM HintIsTrue == Spec => []LeaderHintTrue
<1>1. IInv => LeaderHintTrue
  BY DEF IInv, LeaderInv
<1> QED
  BY <1>1, Invariant, PTL

\* Stored terms only grow, and a stored vote only goes with its term.
THEOREM StoredVoteStable == Spec => VoteStable
<1>1. IInv /\ [Next]_vars => VoteStep
  BY NextStep
<1> QED
  BY <1>1, Invariant, PTL DEF Spec, VoteStable, VoteStep
=============================================================================
