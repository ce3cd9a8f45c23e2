--------------------------- MODULE RaftReplication ---------------------------
(***************************************************************************)
(* Log replication among the coordinators of the distributed experiment    *)
(* platform (C#, src/t1_1/emina demirovic/distributed-experiment-platform/ *)
(* src/Coordinator/Raft): RaftHeartbeatSender, RaftReplicationTracker,     *)
(* RaftLogManager, RaftCommitManager, RaftCommandSubmitter and the         *)
(* AppendEntries handler of RaftNodeState.                                 *)
(*                                                                         *)
(* An action is a piece of code that runs under one lock: the handlers of  *)
(* RaftNodeState hold its _sync lock, each call of a manager holds that    *)
(* manager's lock.  SendHeartbeatAsync and SubmitAsync make several such   *)
(* calls in a row, and the request handlers of the same process may run    *)
(* between them: the constant Preempt says in which of these windows.      *)
(* Elections are one step here; module RaftElection has their messages.    *)
(***************************************************************************)
EXTENDS Integers, Sequences, FiniteSets

CONSTANTS
    Node,       \* the coordinators of the cluster (RaftOptions.NodeId and Peers)
    Command,    \* the commands clients submit, each with its own CommandId
    MaxTerm,    \* bound: the last term an election may start
    MaxLog,     \* bound on the log in which a leader accepts a command
    MaxNet,     \* bound on the requests in transit
    MaxCrash,   \* bound on the number of crashes
    Preempt     \* the unlocked windows in which other code may run

(***************************************************************************)
(* The places where the code tests its role, releases the lock and acts on *)
(* the answer later: SubmitAsync between the role test and AppendCommand   *)
(* ("append"), SendHeartbeatAsync between the role test, the reads of the  *)
(* log and the read of the commit index for each peer ("replicate"), and   *)
(* there between the read of the previous entry's term and the read of the *)
(* entries too ("entries"), SubmitAsync between the second role test and   *)
(* the read of the commit index ("acknowledge").  A window outside Preempt *)
(* is one where the schedule is assumed to run nothing else.               *)
(***************************************************************************)
Window == {"append", "replicate", "entries", "acknowledge"}

ASSUME NodeAssumption == IsFiniteSet(Node)
ASSUME BoundAssumption == {MaxTerm, MaxLog, MaxNet, MaxCrash} \subseteq Nat
ASSUME PreemptAssumption == Preempt \subseteq Window

VARIABLES
    currentTerm,    \* RaftPersistentStateEntity.CurrentTerm (survives a crash)
    log,            \* the RaftLogEntries table (survives a crash)
    commitIndex,    \* RaftCommitStateEntity.CommitIndex (survives a crash)
    role,           \* RaftNodeState._role, a candidate being a follower here
    tracker,        \* RaftReplicationTracker: _term and _states
    round,          \* the SendHeartbeatAsync call in progress
    submit,         \* a SubmitAsync call inside a window
    net,            \* AppendEntries requests on their way
    issued,         \* history: the commands submissions have used
    acked,          \* history: submissions answered Committed
    crashes         \* history: how many crashes have happened

replicaVars == <<currentTerm, log, commitIndex, role>>
callVars    == <<tracker, round, submit>>
history     == <<issued, acked, crashes>>
vars == <<replicaVars, callVars, net, history>>

Peers(n) == Node \ {n}

\* clusterSize / 2 + 1
QuorumSize == Cardinality(Node) \div 2 + 1
Quorum == {Q \in SUBSET Node : Cardinality(Q) >= QuorumSize}

TermAt(l, i) == IF i = 0 THEN 0 ELSE l[i].term
LastTerm(l) == TermAt(l, Len(l))
Smaller(a, b) == IF a < b THEN a ELSE b
Larger(a, b) == IF a < b THEN b ELSE a

\* NoRound and NoSubmit: the call's lock is free.
NoRound == [term |-> 0, todo |-> {}, head |-> {}, draft |-> {}]
NoTracker == [term |-> -1, next |-> [p \in Node |-> 1], match |-> [p \in Node |-> 0]]
NoSubmit == [pc |-> "idle"]

Entry == [term : Nat, cmd : Command]
DraftType == [term : Nat, from : Node, to : Node, prev : Nat, prevTerm : Nat,
              entries : Seq(Entry)]
MessageType == [term : Nat, from : Node, to : Node, prev : Nat, prevTerm : Nat,
                entries : Seq(Entry), commit : Nat, waited : BOOLEAN]
TrackerType == [term : Int, next : [Node -> Nat \ {0}], match : [Node -> Nat]]
RoundType == [term : Nat, todo : SUBSET Node, head : SUBSET DraftType,
              draft : SUBSET DraftType]
SubmitType ==
    {NoSubmit} \cup [pc : {"checked"}, entry : Entry]
               \cup [pc : {"polled"}, index : Nat, entry : Entry]

Init ==
    /\ currentTerm = [n \in Node |-> 0]
    /\ log         = [n \in Node |-> << >>]
    /\ commitIndex = [n \in Node |-> 0]
    /\ role        = [n \in Node |-> "Follower"]
    /\ tracker     = [n \in Node |-> NoTracker]
    /\ round       = [n \in Node |-> NoRound]
    /\ submit      = [n \in Node |-> NoSubmit]
    /\ net = {}
    /\ issued = {}
    /\ acked = {}
    /\ crashes = 0

-----------------------------------------------------------------------------
(* Elections, seen from the log.                                           *)

\* Variant: only the lengths of the logs are compared.
UpToDateByLength(n, lastIndex, lastTerm) == lastIndex >= Len(log[n])

IsCandidateLogUpToDate(n, lastIndex, lastTerm) ==
    \/ lastTerm > LastTerm(log[n])
    \/ lastTerm = LastTerm(log[n]) /\ lastIndex >= Len(log[n])

\* n wins the election of a new term with the votes of Q.  Terms between the
\* voters' and the new one had no leader and leave no trace in the logs.
Elect(n, Q) ==
    /\ n \in Q
    /\ \A v \in Q : IsCandidateLogUpToDate(v, Len(log[n]), LastTerm(log[n]))
    /\ \E u \in Q :
         /\ \A v \in Q : currentTerm[v] <= currentTerm[u]
         /\ currentTerm[u] < MaxTerm
         /\ currentTerm' = [v \in Node |-> IF v \in Q THEN currentTerm[u] + 1
                                           ELSE currentTerm[v]]
    /\ role' = [v \in Node |-> IF v = n THEN "Leader"
                               ELSE IF v \in Q THEN "Follower" ELSE role[v]]
    /\ UNCHANGED <<log, commitIndex, callVars, net, history>>

-----------------------------------------------------------------------------
(* The leader's side: RaftHeartbeatSender and RaftReplicationTracker.      *)

EnsureInitialized(tr, term, lastIndex) ==
    IF tr.term = term THEN tr
    ELSE [term  |-> term,
          next  |-> [p \in Node |-> lastIndex + 1],
          match |-> [p \in Node |-> 0]]

\* What ReplicateToPeerSafelyAsync reads for p: the suffix from the peer's
\* next index and the entry before it, under the term of the snapshot the
\* round started from.  The commit index is read last.
Draft(n, p, tr, term) ==
    LET prev == tr.next[p] - 1 IN
    [term |-> term, from |-> n, to |-> p,
     prev |-> prev, prevTerm |-> TermAt(log[n], prev),
     entries |-> SubSeq(log[n], prev + 1, Len(log[n]))]

\* A draft before and after GetEntriesFrom: the entries are those of the log as
\* it is then, none if it has become too short.
Bare(d) == [d EXCEPT !.entries = << >>]
Filled(n, d) == [d EXCEPT !.entries = SubSeq(log[n], d.prev + 1, Len(log[n]))]

\* GetTermAt throws when the previous entry is gone: nothing is sent then.
Readable(n, p, tr) == tr.next[p] - 1 <= Len(log[n])

Request(d, commit) ==
    [term |-> d.term, from |-> d.from, to |-> d.to, prev |-> d.prev,
     prevTerm |-> d.prevTerm, entries |-> d.entries, commit |-> commit,
     waited |-> TRUE]

\* The calls of n have timed out or their process is gone: the requests may
\* still arrive, but nobody waits for the answers.
Abandon(n) ==
    {[m EXCEPT !.waited = (@ /\ m.from # n)] : m \in net}

\* SendHeartbeatAsync up to the sending of the requests.  Started by the
\* heartbeat timer, by a won election and by a submission; _sendLock allows
\* one at a time.  The calls to the peers outside S fail at once (a round that
\* reaches nobody is one whose only request is lost).
StartRound(n, S) ==
    LET t == currentTerm[n]
        tr == EnsureInitialized(tracker[n], t, Len(log[n]))
    IN  /\ round[n].term = 0
        /\ role[n] = "Leader"
        /\ S = {} => Peers(n) = {}
        /\ tracker' = [tracker EXCEPT ![n] = tr]
        /\ \/ /\ "replicate" \in Preempt
              /\ round' = [round EXCEPT ![n] =
                    [term |-> t, todo |-> S, head |-> {}, draft |-> {}]]
              /\ UNCHANGED net
           \/ /\ "replicate" \notin Preempt
              /\ Cardinality(net) + Cardinality(S) <= MaxNet
              /\ round' = [round EXCEPT ![n] =
                    [term |-> t, todo |-> {}, head |-> {}, draft |-> {}]]
              /\ net' = net \cup {Request(Draft(n, p, tr, t), commitIndex[n]) :
                                     p \in {q \in S : Readable(n, q, tr)}}
        /\ UNCHANGED <<replicaVars, submit, history>>

\* The task of one peer reads the log: the term of the previous entry
\* (GetTermAt) and, unless others may run then, the entries after it
\* (GetEntriesFrom).
ReadLog(n, p) ==
    LET torn == "entries" \in Preempt
        d == Draft(n, p, tracker[n], round[n].term)
        readable == Readable(n, p, tracker[n])
    IN  /\ p \in round[n].todo
        /\ round[n].head = {} /\ round[n].draft = {}
        /\ round' = [round EXCEPT ![n] =
             [term |-> @.term, todo |-> @.todo \ {p},
              head  |-> IF readable /\ torn THEN {Bare(d)} ELSE {},
              draft |-> IF readable /\ ~torn THEN {d} ELSE {}]]
        /\ UNCHANGED <<replicaVars, tracker, submit, net, history>>

\* GetEntriesFrom, when others may have run since GetTermAt.
ReadEntries(n) ==
    /\ round[n].head # {}
    /\ round' = [round EXCEPT ![n] =
         [term |-> @.term, todo |-> @.todo, head |-> {},
          draft |-> {Filled(n, d) : d \in @.head}]]
    /\ UNCHANGED <<replicaVars, tracker, submit, net, history>>

\* It then reads the commit index and sends the request.
SendAppendEntries(n) ==
    /\ Cardinality(net) < MaxNet
    /\ \E d \in round[n].draft : net' = net \cup {Request(d, commitIndex[n])}
    /\ round' = [round EXCEPT ![n] =
         [term |-> @.term, todo |-> @.todo, head |-> {}, draft |-> {}]]
    /\ UNCHANGED <<replicaVars, tracker, submit, history>>

\* Variant: the match index is recorded one entry too high.
RecordOneTooMany(tr, p, through) ==
    [tr EXCEPT !.match[p] = Larger(@, through + 1), !.next[p] = through + 2]

RecordSuccess(tr, p, through) ==
    LET match == Larger(tr.match[p], through) IN
    [term  |-> tr.term,
     next  |-> [tr.next EXCEPT ![p] = match + 1],
     match |-> [tr.match EXCEPT ![p] = match]]

\* Variant: the next index never moves back.
RecordNoFailure(tr, p) == tr

RecordFailure(tr, p) ==
    [tr EXCEPT !.next[p] = IF @ > 1 THEN @ - 1 ELSE @]

\* Variant: entries of earlier terms are committed by counting too.
CommittableAnyTerm(n, term) ==
    {i \in (commitIndex[n] + 1)..Len(log[n]) :
        1 + Cardinality({p \in Peers(n) : tracker[n].match[p] >= i}) >= QuorumSize}

\* The indexes TryAdvanceLeaderCommit may commit: entries of the current
\* term, above the commit index, held by a quorum.
Committable(n, term) ==
    {i \in (commitIndex[n] + 1)..Len(log[n]) :
        /\ log[n][i].term = term
        /\ 1 + Cardinality({p \in Peers(n) : tracker[n].match[p] >= i}) >= QuorumSize}

\* SendHeartbeatAsync after Task.WhenAll: every call has been answered or
\* has failed, and TryAdvanceLeaderCommit takes the highest index it may.
\* The code tests the role before it takes the lock of the commit manager.  A
\* leader deposed in between still commits only entries of the round's term
\* that its quorum has acknowledged, so the two are one step here.
FinishRound(n) ==
    /\ round[n].term # 0
    /\ round[n].todo = {} /\ round[n].head = {} /\ round[n].draft = {}
    /\ LET leads == role[n] = "Leader" /\ currentTerm[n] = round[n].term
           ready == Committable(n, round[n].term)
       IN  \/ /\ leads
              /\ \E i \in ready : /\ \A j \in ready : j <= i
                                  /\ commitIndex' = [commitIndex EXCEPT ![n] = i]
           \/ /\ ~leads \/ ready = {}
              /\ UNCHANGED commitIndex
    /\ round' = [round EXCEPT ![n] = NoRound]
    /\ net' = Abandon(n)
    /\ UNCHANGED <<currentTerm, role, log, tracker, submit, history>>

-----------------------------------------------------------------------------
(* The follower's side: RaftNodeState.HandleAppendEntries.                 *)

\* The i-th entry of m is not in the log l.
Differs(l, m, i) == ~(m.prev + i <= Len(l) /\ l[m.prev + i] = m.entries[i])

\* Variant: the term of the previous entry is not compared.
MatchesWithoutTerm(l, m, committed) ==
    /\ m.prev <= Len(l)
    /\ \A i \in 1..Len(m.entries) :
         m.prev + i <= committed => ~Differs(l, m, i)

\* TryAppendEntries: the previous entry is there, and no entry at or below
\* the commit index would have to be replaced.
LogMatches(l, m, committed) ==
    /\ m.prev <= Len(l)
    /\ m.prevTerm = TermAt(l, m.prev)
    /\ \A i \in 1..Len(m.entries) :
         m.prev + i <= committed => ~Differs(l, m, i)

HasEntries(l, m) == \A i \in 1..Len(m.entries) : ~Differs(l, m, i)

\* Variant: what follows the request's entries is cut off every time.
TruncatedLog(l, m) == SubSeq(l, 1, m.prev) \o m.entries

\* The log after a conflicting suffix is deleted and the rest appended.
AppendedLog(l, m) ==
    IF HasEntries(l, m) THEN l ELSE SubSeq(l, 1, m.prev) \o m.entries

\* Variant: the commit index follows the leader's backwards.
FollowLeaderCommit(committed, leaderCommit, l) == Smaller(leaderCommit, Len(l))

\* Math.Min(leaderCommit, localLastLogIndex), never backwards.
AdvanceFollowerCommit(committed, leaderCommit, l) ==
    Larger(committed, Smaller(leaderCommit, Len(l)))

\* The term and the success flag of the answer to m.
ReplyTerm(m) == Larger(m.term, currentTerm[m.to])
ReplySuccess(m) ==
    m.term >= currentTerm[m.to] /\ LogMatches(log[m.to], m, commitIndex[m.to])

\* ReplicateToPeerSafelyAsync after its await: the tracker it leaves.
TrackerAfter(m) ==
    LET n == m.from IN
    IF ReplyTerm(m) > m.term \/ role[n] # "Leader" \/ currentTerm[n] # m.term
    THEN tracker
    ELSE [tracker EXCEPT ![n] =
            IF ReplySuccess(m) THEN RecordSuccess(@, m.to, m.prev + Len(m.entries))
            ELSE RecordFailure(@, m.to)]

\* Handling m at m.to and, when the answer arrives at the call that waits for
\* it, the rest of ReplicateToPeerSafelyAsync at m.from: it commutes with
\* everything m.from may do before the answer arrives, except what makes the
\* answer ignored.  A higher term in the answer makes m.from
\* a follower (ObserveHigherTerm).
HandleAppendEntries(m, answered) ==
    LET n == m.to
        l == m.from
        ok == ReplySuccess(m)
        higher == answered /\ ReplyTerm(m) > Larger(m.term, currentTerm[l])
    IN  /\ answered => m.waited
        /\ currentTerm' = [currentTerm EXCEPT
              ![n] = ReplyTerm(m), ![l] = IF higher THEN ReplyTerm(m) ELSE @]
        /\ role' = [role EXCEPT
              ![n] = IF m.term >= currentTerm[n] THEN "Follower" ELSE @,
              ![l] = IF higher THEN "Follower" ELSE @]
        /\ log' = [log EXCEPT ![n] = IF ok THEN AppendedLog(@, m) ELSE @]
        /\ commitIndex' = [commitIndex EXCEPT ![n] =
              IF ok THEN AdvanceFollowerCommit(@, m.commit, AppendedLog(log[n], m)) ELSE @]
        /\ tracker' = IF answered THEN TrackerAfter(m) ELSE tracker
        /\ net' = net \ {m}
        /\ UNCHANGED <<round, submit, history>>

\* The network loses a request.
LoseRequest(m) ==
    /\ net' = net \ {m}
    /\ UNCHANGED <<replicaVars, callVars, history>>

-----------------------------------------------------------------------------
(* Submission of commands: RaftCommandSubmitter.SubmitAsync.               *)

\* The role test, and AppendCommand unless the window lets others in first.
\* A node that is not the leader answers NotLeader and changes nothing.
SubmitCheck(n, c) ==
    LET e == [term |-> currentTerm[n], cmd |-> c] IN
    /\ submit[n].pc = "idle"
    /\ role[n] = "Leader"
    /\ c \notin issued /\ Len(log[n]) < MaxLog
    /\ issued' = issued \cup {c}
    /\ \/ /\ "append" \in Preempt
          /\ submit' = [submit EXCEPT ![n] = [pc |-> "checked", entry |-> e]]
          /\ UNCHANGED log
       \/ /\ "append" \notin Preempt
          /\ log' = [log EXCEPT ![n] = Append(@, e)]
          /\ UNCHANGED submit
    /\ UNCHANGED <<currentTerm, role, commitIndex, tracker, round, net, acked, crashes>>

\* AppendCommand, with the term read by the role test.
AppendCommand(n) ==
    /\ submit[n].pc = "checked"
    /\ log' = [log EXCEPT ![n] = Append(@, submit[n].entry)]
    /\ submit' = [submit EXCEPT ![n] = NoSubmit]
    /\ UNCHANGED <<currentTerm, role, commitIndex, tracker, round, net, history>>

\* A submission waits for the entry at i, which carries the leader's term.
\* The second role test passes.  (Failing it, or the deadline, ends the call
\* and changes nothing: the entry stays in the log.)  Without the window the
\* answer is Committed exactly for the entries of the leader's committed
\* prefix, and nothing need be recorded.
SubmitPoll(n, i) ==
    /\ "acknowledge" \in Preempt
    /\ submit[n].pc = "idle"
    /\ role[n] = "Leader"
    /\ log[n][i].term = currentTerm[n]
    /\ submit' = [submit EXCEPT ![n] = [pc |-> "polled", index |-> i, entry |-> log[n][i]]]
    /\ UNCHANGED <<replicaVars, tracker, round, net, history>>

\* Variant: the answer comes one entry too early.
SubmitDecideEarly(n) ==
    LET s == submit[n] IN
    /\ s.pc = "polled"
    /\ acked' = IF commitIndex[n] + 1 >= s.index
                THEN acked \cup {[node |-> n, index |-> s.index, entry |-> s.entry]}
                ELSE acked
    /\ submit' = [submit EXCEPT ![n] = NoSubmit]
    /\ UNCHANGED <<replicaVars, tracker, round, net, issued, crashes>>

\* Then the commit index decides: Committed, or another try.
SubmitDecide(n) ==
    LET s == submit[n] IN
    /\ s.pc = "polled"
    /\ acked' = IF commitIndex[n] >= s.index
                THEN acked \cup {[node |-> n, index |-> s.index, entry |-> s.entry]}
                ELSE acked
    /\ submit' = [submit EXCEPT ![n] = NoSubmit]
    /\ UNCHANGED <<replicaVars, tracker, round, net, issued, crashes>>

-----------------------------------------------------------------------------
(* Crashes.  The stores keep the term, the log and the commit index; every *)
(* other field starts from scratch.                                        *)

LoseVolatile(n) ==
    /\ crashes < MaxCrash
    /\ crashes' = crashes + 1
    /\ role' = [role EXCEPT ![n] = "Follower"]
    /\ tracker' = [tracker EXCEPT ![n] = NoTracker]
    /\ round' = [round EXCEPT ![n] = NoRound]
    /\ submit' = [submit EXCEPT ![n] = NoSubmit]
    /\ UNCHANGED <<issued, acked>>

Restart(n) ==
    /\ LoseVolatile(n)
    /\ net' = Abandon(n)
    /\ UNCHANGED <<currentTerm, log, commitIndex>>

\* A crash inside HandleAppendEntries: the term is stored, the log has lost
\* its conflicting suffix and got the entries up to k, the commit index is as
\* before (each is a transaction of its own).
CrashInAppendEntries(m) ==
    LET n == m.to
        new == AppendedLog(log[n], m)
    IN  /\ ReplySuccess(m)
        /\ \E k \in m.prev..Len(new) :
             /\ \E i \in 1..Len(m.entries) : m.prev + i <= k + 1 /\ Differs(log[n], m, i)
             /\ log' = [log EXCEPT ![n] = SubSeq(new, 1, k)]
        /\ currentTerm' = [currentTerm EXCEPT ![n] = m.term]
        /\ LoseVolatile(n)
        /\ net' = Abandon(n) \ {m}
        /\ UNCHANGED commitIndex

-----------------------------------------------------------------------------
\* SendHeartbeatAsync goes on: at any time one of these is its next step.
RoundStep(n) ==
    \/ \E p \in Peers(n) : ReadLog(n, p)
    \/ ReadEntries(n)
    \/ SendAppendEntries(n)
    \/ FinishRound(n)

NodeStep(n) ==
    \/ \E Q \in Quorum : Elect(n, Q)
    \/ \E S \in SUBSET Peers(n) : StartRound(n, S)
    \/ RoundStep(n)
    \/ \E c \in Command : SubmitCheck(n, c)
    \/ AppendCommand(n)
    \/ Restart(n)

\* A submission that waits for its answer.
AwaitStep(n) ==
    \/ \E i \in 1..Len(log[n]) : SubmitPoll(n, i)
    \/ SubmitDecide(n)

RequestStep(m) ==
    \/ \E answered \in BOOLEAN : HandleAppendEntries(m, answered)
    \/ CrashInAppendEntries(m)
    \/ LoseRequest(m)

ReplicationNext ==
    \/ \E n \in Node : NodeStep(n)
    \/ \E m \in net : RequestStep(m)

Next == ReplicationNext \/ \E n \in Node : AwaitStep(n)

Spec == Init /\ [][Next]_vars

(***************************************************************************)
(* Fairness.  RaftHeartbeatBackgroundService runs a round every 500 ms for *)
(* as long as the process lives, and every call of a round ends by an      *)
(* answer, an error or the 2 s timeout of the HTTP client (weak fairness). *)
(* A request is delivered or lost in the end, and a peer that is called    *)
(* again and again is reached again and again and answers (strong          *)
(* fairness): the network between two live coordinators is not down for    *)
(* ever.  What a submission does after it has appended its entry is left   *)
(* out: it writes nothing that a round reads.                              *)
(***************************************************************************)
Reach(n, p) == \E S \in SUBSET Peers(n) : p \in S /\ StartRound(n, S)

Answer(n, p) ==
    \E m \in net : m.from = n /\ m.to = p /\ HandleAppendEntries(m, TRUE)

Fairness ==
    /\ \A n \in Node : WF_vars(RoundStep(n))
    /\ WF_vars(\E m \in net : LoseRequest(m))
    /\ \A n \in Node : \A p \in Peers(n) :
         SF_vars(Reach(n, p)) /\ SF_vars(Answer(n, p))

FairSpec == Init /\ [][ReplicationNext]_vars /\ Fairness

-----------------------------------------------------------------------------
(* Properties                                                              *)

\* n leads the term in which the entry at i of its log was submitted to it.
LeadsWith(n, i) ==
    role[n] = "Leader" /\ i <= Len(log[n]) /\ log[n][i].term = currentTerm[n]

\* Type correctness of the coordinator's fields.  The next index of every
\* peer stays positive, so that the previous index of a request is never
\* negative (the handlers throw on a negative one).
TypeOK ==
    /\ currentTerm \in [Node -> Nat]
    /\ log \in [Node -> Seq(Entry)]
    /\ commitIndex \in [Node -> Nat]
    /\ role \in [Node -> {"Follower", "Leader"}]
    /\ tracker \in [Node -> TrackerType]
    /\ round \in [Node -> RoundType]
    /\ submit \in [Node -> SubmitType]
    /\ net \subseteq MessageType
    /\ issued \subseteq Command
    /\ acked \subseteq [node : Node, index : Nat, entry : Entry]
    /\ crashes \in Nat

\* The commit index never points past the end of the log.
CommitWithinLog == \A n \in Node : commitIndex[n] <= Len(log[n])

\* No step of anyone, not even a crash in the middle of a handler, moves a
\* coordinator's commit index back or changes an entry at or below it:
\* TryAppendEntries refuses to replace committed entries, and DeleteFrom and
\* Append are separate transactions that only touch what lies above them.
CommittedPrefixStable ==
    [][\A n \in Node :
         /\ commitIndex[n] <= commitIndex'[n]
         /\ commitIndex[n] <= Len(log'[n])
         /\ \A i \in 1..commitIndex[n] : log'[n][i] = log[n][i]]_vars

\* Two coordinators never commit different commands at the same index, so
\* that RaftStateMachineApplier applies the same commands everywhere.
StateMachineSafety ==
    \A m, n \in Node : \A i \in 1..Smaller(commitIndex[m], commitIndex[n]) :
        log[m][i] = log[n][i]

\* Two logs that agree on the term at an index agree up to that index: the
\* comparison of the previous entry's term in TryAppendEntries is enough.
LogMatching ==
    \A m, n \in Node : \A i \in 1..Smaller(Len(log[m]), Len(log[n])) :
        log[m][i].term = log[n][i].term =>
            \A j \in 1..i : log[m][j] = log[n][j]

\* A leader holds everything that a coordinator of its term or an earlier
\* one has committed: IsCandidateLogUpToDate keeps others from winning.
LeaderHoldsCommitted ==
    \A m, n \in Node :
        role[n] = "Leader" /\ currentTerm[m] <= currentTerm[n] =>
            /\ commitIndex[m] <= Len(log[n])
            /\ \A i \in 1..commitIndex[m] : log[n][i] = log[m][i]

\* What the leader's tracker says a peer of the same term has, it has: late
\* requests and requests cut short by a crash never take it away again.
MatchIndexSound ==
    \A n \in Node : \A p \in Peers(n) :
        /\ role[n] = "Leader"
        /\ tracker[n].term = currentTerm[n]
        /\ currentTerm[p] = currentTerm[n]
        => /\ tracker[n].match[p] <= Smaller(Len(log[n]), Len(log[p]))
           /\ \A i \in 1..tracker[n].match[p] : log[p][i] = log[n][i]

\* SubmitAsync answers Committed only for an index that its node has
\* committed, and the entry there is the submitted one unless the node has
\* been deposed between the second role test and the answer.  (The entry that
\* took its place may even be of an earlier term: the new leader's own log.)
AcknowledgedOrReplaced ==
    \A a \in acked :
        /\ a.index <= commitIndex[a.node]
        /\ \/ log[a.node][a.index] = a.entry
           \/ currentTerm[a.node] > a.entry.term

\* A command appended by a leader commits unless that leader's term ends: the
\* next index walks back until the logs match, and the rounds go on.
ReplicationProgress ==
    \A n \in Node : \A i \in 1..MaxLog :
        LeadsWith(n, i) ~> (commitIndex[n] >= i \/ ~LeadsWith(n, i))
=============================================================================
