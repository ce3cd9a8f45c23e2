---------------------------- MODULE RaftElection ----------------------------
(***************************************************************************)
(* Leader election among the coordinators of the distributed experiment    *)
(* platform (src/t1_1/emina demirovic/distributed-experiment-platform/src/ *)
(* Coordinator/Raft): RaftElectionService.StartElectionAsync, the vote and *)
(* heartbeat handlers of RaftNodeState, and its persistent term and vote.  *)
(*                                                                         *)
(* An action is a piece of code under the _sync lock of RaftNodeState.     *)
(* Logs are the subject of RaftReplication: here a voter may find the      *)
(* candidate's log up to date or not, and a heartbeat is an AppendEntries  *)
(* request seen through the term, the role and the leader hint only.       *)
(***************************************************************************)
EXTENDS Integers, FiniteSets

CONSTANTS
    Node,       \* the coordinators of the cluster
    None,       \* C#'s null
    MaxTerm,    \* bound: the last term an election may start
    MaxNet,     \* bound on the requests in transit
    MaxCrash    \* bound on the number of crashes

ASSUME NodeAssumption == IsFiniteSet(Node) /\ None \notin Node
ASSUME BoundAssumption == {MaxTerm, MaxNet, MaxCrash} \subseteq Nat

VARIABLES
    currentTerm,    \* RaftPersistentStateEntity.CurrentTerm (survives a crash)
    votedFor,       \* RaftPersistentStateEntity.VotedFor (survives a crash)
    role,           \* RaftNodeState._role
    leaderId,       \* RaftNodeState._leaderId, the hint given to clients
    election,       \* the StartElectionAsync call in progress
    net,            \* RequestVote and AppendEntries requests on their way
    votes,          \* history: the votes granted
    elected,        \* history: the elections won
    crashes         \* history: how many crashes have happened

durable  == <<currentTerm, votedFor>>
volatile == <<role, leaderId, election>>
history  == <<votes, elected, crashes>>
vars == <<durable, volatile, net, history>>

Peers(n) == Node \ {n}
QuorumSize == Cardinality(Node) \div 2 + 1

Larger(a, b) == IF a < b THEN b ELSE a

\* _electionLock is free.
NoElection == [term |-> 0, granted |-> {}, highest |-> 0]

VoteType == [voter : Node, term : Nat, for : Node]
LeaderType == [term : Nat, node : Node]
ElectionType == [term : Nat, granted : SUBSET Node, highest : Nat]
MessageType == [type : {"RequestVote", "AppendEntries"},
                term : Nat, from : Node, to : Node]

Init ==
    /\ currentTerm = [n \in Node |-> 0]
    /\ votedFor    = [n \in Node |-> None]
    /\ role        = [n \in Node |-> "Follower"]
    /\ leaderId    = [n \in Node |-> None]
    /\ election    = [n \in Node |-> NoElection]
    /\ net = {}
    /\ votes = {}
    /\ elected = {}
    /\ crashes = 0

Send(type, n, t, S) ==
    /\ Cardinality(net) + Cardinality(S) <= MaxNet
    /\ net' = net \cup {[type |-> type, term |-> t, from |-> n, to |-> p] : p \in S}

-----------------------------------------------------------------------------
(* StartElectionAsync, started by the election timer or by the             *)
(* start-election endpoint, whatever the role.                             *)

\* BeginElection, and the requests to the peers in S; the calls to the others
\* fail at once.
BeginElection(n, S) ==
    LET t == currentTerm[n] + 1 IN
    /\ election[n].term = 0
    /\ t <= MaxTerm
    /\ currentTerm' = [currentTerm EXCEPT ![n] = t]
    /\ votedFor' = [votedFor EXCEPT ![n] = n]
    /\ role' = [role EXCEPT ![n] = "Candidate"]
    /\ leaderId' = [leaderId EXCEPT ![n] = None]
    /\ election' = [election EXCEPT ![n] = [term |-> t, granted |-> {n}, highest |-> t]]
    /\ votes' = votes \cup {[voter |-> n, term |-> t, for |-> n]}
    /\ Send("RequestVote", n, t, S)
    /\ UNCHANGED <<elected, crashes>>

\* Variant: the role and the term are not tested again after the answers.
WonWithoutRecheck(n) ==
    /\ election[n].highest <= election[n].term
    /\ Cardinality(election[n].granted) >= QuorumSize

Won(n) ==
    /\ election[n].highest <= election[n].term
    /\ Cardinality(election[n].granted) >= QuorumSize
    /\ currentTerm[n] = election[n].term
    /\ role[n] = "Candidate"

\* Task.WhenAll has returned: every call is answered or has failed, and
\* TryBecomeLeader succeeds.  SendHeartbeatAsync follows, reaching S.
WinElection(n, S) ==
    /\ election[n].term # 0
    /\ Won(n)
    /\ role' = [role EXCEPT ![n] = "Leader"]
    /\ leaderId' = [leaderId EXCEPT ![n] = n]
    /\ elected' = elected \cup {[term |-> currentTerm[n], node |-> n]}
    /\ election' = [election EXCEPT ![n] = NoElection]
    /\ Send("AppendEntries", n, currentTerm[n], S)
    /\ UNCHANGED <<durable, votes, crashes>>

\* What a node is after ObserveHigherTerm(t).
ObserveHigherTerm(n, t) ==
    /\ currentTerm' = [currentTerm EXCEPT ![n] = Larger(@, t)]
    /\ votedFor' = [votedFor EXCEPT ![n] = IF t > currentTerm[n] THEN None ELSE @]
    /\ role' = [role EXCEPT ![n] = IF t > currentTerm[n] THEN "Follower" ELSE @]
    /\ leaderId' = [leaderId EXCEPT ![n] = IF t > currentTerm[n] THEN None ELSE @]

\* The election is lost: too few votes, a higher term, or no longer a candidate
\* of that term.
LoseElection(n) ==
    /\ election[n].term # 0
    /\ ~Won(n)
    /\ election' = [election EXCEPT ![n] = NoElection]
    /\ ObserveHigherTerm(n, IF election[n].highest > election[n].term
                            THEN election[n].highest ELSE 0)
    /\ UNCHANGED <<net, history>>

-----------------------------------------------------------------------------
(* The handlers.                                                           *)

Grants(m, upToDate) ==
    /\ upToDate
    /\ \/ m.term > currentTerm[m.to]
       \/ m.term = currentTerm[m.to] /\ votedFor[m.to] \in {None, m.from}

\* HandleRequestVote.  The term is stored, then the vote, then the answer is
\* sent; it is collected by the election of m.from if that still waits.
HandleRequestVote(m, upToDate, answered) ==
    LET n == m.to
        c == m.from
        newer == m.term > currentTerm[n]
        granted == Grants(m, upToDate)
    IN  /\ m.type = "RequestVote"
        /\ answered => election[c].term = m.term
        /\ currentTerm' = [currentTerm EXCEPT ![n] = Larger(@, m.term)]
        /\ votedFor' = [votedFor EXCEPT ![n] =
              IF granted THEN c ELSE IF newer THEN None ELSE @]
        /\ role' = [role EXCEPT ![n] = IF newer THEN "Follower" ELSE @]
        /\ leaderId' = [leaderId EXCEPT ![n] = IF newer THEN None ELSE @]
        /\ votes' = IF granted THEN votes \cup {[voter |-> n, term |-> m.term, for |-> c]}
                    ELSE votes
        /\ election' =
              IF answered
              THEN [election EXCEPT ![c] =
                      [term    |-> @.term,
                       granted |-> IF granted THEN @.granted \cup {n} ELSE @.granted,
                       highest |-> Larger(@.highest, Larger(currentTerm[n], m.term))]]
              ELSE election
        /\ net' = net \ {m}
        /\ UNCHANGED <<elected, crashes>>

\* RaftHeartbeatSender, every 500 ms and after a submission, reaching S.
SendHeartbeat(n, S) ==
    /\ role[n] = "Leader"
    /\ Send("AppendEntries", n, currentTerm[n], S)
    /\ UNCHANGED <<durable, volatile, history>>

\* Variant: the hint is taken from any heartbeat, an old one too.
HintFromAny(m) == m.from

\* The leader hint after m: the sender, if the heartbeat is accepted.
LeaderHint(m) == IF m.term >= currentTerm[m.to] THEN m.from ELSE leaderId[m.to]

\* Variant: the term of an answer is not looked at.
AnswerIgnored(m, answered) == FALSE

\* The answer to m comes back with a term the sender has not seen.
StepsDown(m, answered) ==
    answered /\ currentTerm[m.to] > Larger(m.term, currentTerm[m.from])

\* HandleAppendEntries, without its log.  A node of a higher term answers with
\* that term, and the sender steps down if the answer reaches it in time.
HandleHeartbeat(m, answered) ==
    LET n == m.to
        l == m.from
        t == currentTerm[n]
        down == StepsDown(m, answered)
    IN  /\ m.type = "AppendEntries"
        /\ currentTerm' = [currentTerm EXCEPT ![n] = Larger(t, m.term), ![l] = IF down THEN t ELSE @]
        /\ votedFor' = [votedFor EXCEPT ![n] = IF m.term > t THEN None ELSE @,
                                        ![l] = IF down THEN None ELSE @]
        /\ role' = [role EXCEPT ![n] = IF m.term >= t THEN "Follower" ELSE @,
                                ![l] = IF down THEN "Follower" ELSE @]
        /\ leaderId' = [leaderId EXCEPT ![n] = LeaderHint(m), ![l] = IF down THEN None ELSE @]
        /\ net' = net \ {m}
        /\ UNCHANGED <<election, history>>

LoseRequest(m) ==
    /\ net' = net \ {m}
    /\ UNCHANGED <<durable, volatile, history>>

-----------------------------------------------------------------------------
(* Crashes: the term and the vote are read back, the rest starts anew.     *)

ForgetVolatile(n) ==
    /\ crashes < MaxCrash
    /\ crashes' = crashes + 1
    /\ role' = [role EXCEPT ![n] = "Follower"]
    /\ leaderId' = [leaderId EXCEPT ![n] = None]
    /\ election' = [election EXCEPT ![n] = NoElection]

\* Variant: the vote is kept in memory only.
LoadWithoutVote(n) == votedFor' = [votedFor EXCEPT ![n] = None]

\* LoadOrCreate of the persistent state store.
LoadState(n) == UNCHANGED votedFor

Restart(n) ==
    /\ ForgetVolatile(n)
    /\ LoadState(n)
    /\ UNCHANGED <<currentTerm, net, votes, elected>>

\* A crash inside HandleRequestVote, between the two Save calls.
CrashInRequestVote(m) ==
    /\ m.type = "RequestVote"
    /\ m.term > currentTerm[m.to]
    /\ currentTerm' = [currentTerm EXCEPT ![m.to] = m.term]
    /\ votedFor' = [votedFor EXCEPT ![m.to] = None]
    /\ ForgetVolatile(m.to)
    /\ net' = net \ {m}
    /\ UNCHANGED <<votes, elected>>

-----------------------------------------------------------------------------
NodeStep(n) ==
    \/ \E S \in SUBSET Peers(n) :
         BeginElection(n, S) \/ WinElection(n, S) \/ SendHeartbeat(n, S)
    \/ LoseElection(n)
    \/ Restart(n)

RequestStep(m) ==
    \/ \E upToDate, answered \in BOOLEAN : HandleRequestVote(m, upToDate, answered)
    \/ \E answered \in BOOLEAN : HandleHeartbeat(m, answered)
    \/ CrashInRequestVote(m)
    \/ LoseRequest(m)

Next ==
    \/ \E n \in Node : NodeStep(n)
    \/ \E m \in net : RequestStep(m)

Spec == Init /\ [][Next]_vars

(***************************************************************************)
(* Fairness.  A leader sends heartbeats every 500 ms for as long as it     *)
(* leads, and every request is delivered or lost in the end (weak          *)
(* fairness).  Two coordinators that both lead are both alive: the network *)
(* between them is not down for ever, so one's heartbeat reaches the other *)
(* again and again and the answer comes back (strong fairness).            *)
(***************************************************************************)
Rivals == {r \in Node \X Node : r[1] # r[2] /\ role[r[1]] = "Leader" /\ role[r[2]] = "Leader"}

ReachRival ==
    \E r \in Rivals : \E S \in SUBSET Peers(r[1]) : r[2] \in S /\ SendHeartbeat(r[1], S)
RivalAnswers ==
    \E r \in Rivals, m \in net : m.from = r[1] /\ m.to = r[2] /\ HandleHeartbeat(m, TRUE)

Fairness ==
    /\ WF_vars(\E m \in net : LoseRequest(m))
    /\ SF_vars(ReachRival)
    /\ SF_vars(RivalAnswers)

FairSpec == Spec /\ Fairness

-----------------------------------------------------------------------------
(* Properties                                                              *)

\* Type correctness.
TypeOK ==
    /\ currentTerm \in [Node -> Nat]
    /\ votedFor \in [Node -> Node \cup {None}]
    /\ role \in [Node -> {"Follower", "Candidate", "Leader"}]
    /\ leaderId \in [Node -> Node \cup {None}]
    /\ election \in [Node -> ElectionType]
    /\ net \subseteq MessageType
    /\ votes \subseteq VoteType
    /\ elected \subseteq LeaderType
    /\ crashes \in Nat

\* A coordinator grants at most one vote per term, however requests are
\* repeated, reordered or answered around a crash: HandleRequestVote saves the
\* vote before it answers and the constructor reads it back.
OneVotePerTerm ==
    \A v, w \in votes : v.voter = w.voter /\ v.term = w.term => v.for = w.for

\* At most one coordinator ever wins the election of a term.
ElectionSafety == \A k, l \in elected : k.term = l.term => k.node = l.node

\* The leader hint of a NotLeader answer names the leader of the term the
\* coordinator is in, never that of an earlier one.
LeaderHintTrue ==
    \A n \in Node : leaderId[n] # None =>
        [term |-> currentTerm[n], node |-> leaderId[n]] \in elected

\* Terms never go back and a vote is never changed within a term, by a crash
\* in the middle of HandleRequestVote neither.
VoteStable ==
    [][\A n \in Node :
         /\ currentTerm[n] <= currentTerm'[n]
         /\ currentTerm'[n] = currentTerm[n] /\ votedFor[n] # None
              => votedFor'[n] = votedFor[n]]_vars

\* Some leader has been superseded by one of a later term.
StaleLeader ==
    \E l, n \in Node :
        role[l] = "Leader" /\ role[n] = "Leader" /\ currentTerm[l] < currentTerm[n]

\* A leader that has been superseded does not stay leader for ever: its own
\* heartbeats, or those of its successor, make it step down.
StaleLeaderStepsDown == StaleLeader ~> ~StaleLeader
=============================================================================
