# Verification of the distributed-algorithms projects

The repository collects student projects on distributed algorithms. This
development models the four of them that carry the most protocol logic:

- the *distributed experiment platform* (C#,
  `src/t1_1/emina demirovic/distributed-experiment-platform`): a coordinator that
  hands experiments to workers, replicated with its own Raft;
- the *PBFT emergency stop* (Python on ROS 2,
  `src/t1_2/marija ninkovic/ros2-pbft-emergency-stop`): PBFT replicas with view
  change, and the client, monitor and safety supervisor around them;
- *Tendermint* (Python, `src/t1_1/tamara stankovic/tendermint-tamara`);
- *HotStuff*, basic variant (Python, `src/t1_2/anja vranjesevic/HotStuff`).

Each protocol is a module of its own; `MC*` modules and `.cfg` files are the
instances TLC checks; `*Proofs` modules hold theorems checked by TLAPS.
`PROJECT.json` lists components, runs, the lines every definition translates,
the hazards of the code, and for every property a plausible bug it would catch.

## 1. Inventory

### The distributed experiment platform

Paths are relative to the platform's `src/` directory.

| part | state | operations | interacts with |
|---|---|---|---|
| election (`Coordinator/Raft/RaftNodeState.cs`, `RaftElectionService.cs`) | term and vote (database), role, leader hint | candidacy, vote handler, step-down | peers over HTTP; the heartbeat sender after a win |
| replication (`RaftHeartbeatSender.cs`, `RaftReplicationTracker.cs`, `RaftLogManager.cs`, `RaftCommitManager.cs`) | log and commit index (database), next and match index per peer | a round of AppendEntries, its handler, the two commit rules | peers; election through the term |
| submission (`RaftCommandSubmitter.cs`) | a call in progress | append, replicate, wait for the commit index, apply | handlers and services of a leader |
| state machine applier (`RaftStateMachineApplier.cs`) | LastApplied (database) | apply the next committed entry, mark it | command processor |
| command processor (`Coordinator/Commands`) | experiments, events, AppliedCommands (database) | six commands, each one transaction | everything above and below |
| registry, handlers (`Services/ExperimentRegistry.cs`, `Controllers`) | workers' last heartbeats (memory) | create, assign, cancel, progress, complete, next experiment, register, heartbeat | clients, workers |
| scheduler, recovery, startup recovery (`Services`) | what a loop has read | assign the next pending experiment, requeue those of lost workers, return those found running at start | registry, processor or submitter |
| worker (`Worker/WorkerService.cs`) | its execution | register, heartbeat, poll, execute, report, watch for cancellation | handlers over HTTP |

What is hard: handlers run concurrently with rounds and submissions of the same
process, and locks are released between a test and the act that relies on it; a
request may arrive after its call has timed out; one handler makes several
database transactions with possible crashes in between; a command is built from
rows read in an earlier transaction; workers that are taken for dead go on.

Correct means: one vote per coordinator and term, one leader per term, true
leader hints, stale leaders that step down; what is committed somewhere is never
lost, changed or contradicted, and what a leader appends commits while its term
lasts; "Committed" is said only of entries that are; replicas with the same
LastApplied hold the same experiments; an attempt belongs to one worker, a worker
has one experiment, a cancellation is kept, and every experiment ends.

### The PBFT emergency stop

| part | state | operations | interacts with |
|---|---|---|---|
| replica (`pbft_replica.py`, `replica/*.py`) | view, cached requests, instances by (view, sequence), votes and early-vote buffers, certificates, timers | request, PRE-PREPARE, PREPARE, COMMIT, VIEW-CHANGE, NEW-VIEW callbacks; progress timeout; delay, recovery and manual timers; fifteen fault behaviours | the other replicas over topics |
| client (`client_node.py`) | request sent, decision received, its timer | publish, decision callback, timeout, shutdown | replicas, supervisor, monitor |
| monitor (`pbft_monitor.py`) | committed statuses observed, instances announced | status callback, announcement | replicas, decision topic |
| safety supervisor (`safety_supervisor.py`) | pending request, deadline, fail-safe latch, output | request, decision and timeout callbacks | decision topic, the vehicle's stop |
| performance monitor, scenario evaluator, test console | measurements, verdicts, a user interface | listen, start launch files | read only |

What is hard: votes that arrive before the message they are for; delay timers and
buffers of a view that is over; one progress timer that is cancelled and re-armed
by many paths; requests and decisions on different topics, in any order; decisions
that stay on the topic for nodes that join later.

Correct means: replicas agree on what they commit, a commit and a certificate are
backed by correct replicas, no vote for a view that was left, no stalled replica
without a timer; the vehicle is released only on a quorum's decision for the
pending request, and a latched fail-safe is final.

### Tendermint

`node.py`: a thread per node with round, step, locked and valid value; eight
"upon" rules over the log of messages, three timeouts, decisions per height; a
weighted round-robin proposer; crashed nodes and nodes that vote nil, or whose proposals
equivocate always or at random (`config.py`, `network.py`). Hard: timers of rounds that are over,
rules and timeouts that race for the one vote of a round, locks against fresh
proposals. Correct: agreement, one vote per round and type, locks and decisions
backed by quorums, and a decision when timers outlast messages.

### HotStuff

`hotstuff/replica.py`: four phases per view, votes and certificates, locked and
prepare QC, the block tree, a queue of commands, fetching of missing branches and
decisions put off until they are there, a pacemaker with view timeouts; fault
injection in `byzantine.py` and `demos/harness.py` (crash, restart with empty
state, equivocating and censoring leaders). Hard: views cut short at any point,
replicas that come back without lock and log, decisions that arrive before their
ancestors. Correct: committed logs are prefixes of one branch, one certified node
per phase and view, committed branches stay locked, commands are not lost.

### The other projects

| project | language | status |
|---|---|---|
| HotStuff, chained replica (`hotstuff/chained_replica.py`) | Python | planned |
| `src/t1_2/minja mrdjen/istanbul-bft-consensus` | Go | planned |
| `src/t1_3/aleksandra ilijoski/ibft-projekat` | Go | after the other Istanbul BFT |
| `src/t1_3/aleksa naglic/tendermint-sim` | Rust | a second instance of `Tendermint` |
| `src/t1_3/ognjen peric/HotStuffBFT` | Go | a second instance of `HotStuff` |
| `src/t1_2/tijana gajdos/go-distributed-algorithms-main`, `src/t1_3/isidora mickovic/pbft-simulator` | Go | smaller PBFT replicas |
| `src/t1_3/david vucenovic/nbft`, `src/t1_3/jelena gajic/NBFT_projekat` | Python, C++ | NBFT, see section 7 |

## 2. Plan

Done, in this order: `RaftElection`, `RaftReplication` and their proofs;
`ExperimentCommands`, `ExperimentLifecycle` (an abstract specification),
`ExperimentPlatform`, `StateMachineApplier`; `PBFTReplica`; `EmergencyStop` and its
proofs; `Tendermint`; `HotStuff`; the proofs about `Tendermint`,
`ExperimentPlatform`, `StateMachineApplier`, `PBFTReplica` and `HotStuff`, and the
safety of `RaftReplication` and of `HotStuff` as a whole.

Next: the chained HotStuff replica beside `HotStuff`; Istanbul BFT (locks, round
change and its justification); the second implementations as further instances.

## 3. The modules

### RaftElection

One action per piece of code that holds the `_sync` lock of `RaftNodeState`.
`BeginElection` starts `StartElectionAsync`: it stores the new term and the vote
for itself and sends the requests; `HandleRequestVote` handles one at the peer
and records the answer with the candidate when the call still waits;
`WinElection` and `LoseElection` are what follows `Task.WhenAll`
(`TryBecomeLeader`, or `ObserveHigherTerm` with the highest term answered).
Whether a voter finds the candidate's log up to date is left open here.
`CrashInRequestVote` is a crash between the two saves of a vote (the new term,
then the vote); `Restart` one anywhere else. Heartbeats carry the term, move the
leader hint and make a stale leader step down.

### RaftReplication

`Elect` is a whole election as one step, with the log comparison of
`IsCandidateLogUpToDate`. This loses nothing that the logs can show: a candidacy
that fails only raises terms, and the terms in which nobody leads leave no trace
in a log; the step may also be taken by a leader, because the start-election
endpoint allows that. `StartRound`, `ReadLog`, `ReadEntries`, `SendAppendEntries`,
`HandleAppendEntries` and `FinishRound` are `SendHeartbeatAsync` and the handler
of the requests; `RoundStep` is whichever of them comes next in a round. A request stays in transit until it is delivered or lost, also
after its call has timed out (`waited` is false then, and the answer is
ignored). The answer is processed in the step that handles the request: between
the two the leader can do nothing that the answer could change, except what
makes the answer ignored, and that is the case `answered = FALSE`.
`CrashInAppendEntries` leaves any prefix of the entries being written.

The constant `Preempt` names the places where the code tests its role, releases
the lock and acts later. A place outside `Preempt` is assumed to be passed
without interruption. The windows are
- "append": between the role test of a submission and the append;
- "replicate": in a round between the role test, the reads of the log and the read
  of the commit index, for each peer;
- "entries": there also between the two reads of the log, of the previous entry's
  term (`GetTermAt`, `RaftHeartbeatSender.cs:148`) and of the entries
  (`GetEntriesFrom`, line 152); `ReadEntries` is the second of them;
- "acknowledge": between the second role test of a submission and the read of the
  commit index.
The runs show which guarantees survive which window. One gap between a test and an
act is not a window: at the end of a round the role is tested before
`TryAdvanceLeaderCommit` takes its lock, and `FinishRound` is both. A leader deposed
in between still commits only entries of the round's term that a quorum has
acknowledged, which is what it would have committed before.
`AwaitStep` is a submission that waits for its answer; `ReplicationNext` is
everything else, and the fair specification is about that.

### ExperimentCommands, ExperimentLifecycle

A row is its status, worker, attempt, cancellation flag and progress. A command
is accepted or rejected by the `WHERE` clause of its transaction (`Accepts`), and
an accepted one replaces the row (`Effect`). The progress report, which is
written by the registry and not by the processor, is treated as one more
command. `ExperimentLifecycle` says what clients may rely on: an experiment is
created once, each start is a new attempt, only a running attempt is given back
or comes to a result, a finished experiment never changes.

### ExperimentPlatform

The default configuration, `ClientCommandReplicationEnabled = false`. A handler
or service reads in one step, which puts the command it builds into `calls`, and
applies it in a later one (`ApplyCall`); each background service has at most one
command under way. The scheduler's cycle is `BeginScheduling`, `VisitWorker`,
`AssignNext`; the order in which it visits workers is left open. `job[w]` is the
worker's execution. A coordinator restart empties memory and calls; workers go
on. The time during which the coordinator is down is not a state of its own:
calls made in it are lost calls. `LoseResult` is every way in which an execution has
no result for its worker: an exception of the executor or of a progress report, which
the polling loop only logs (`WorkerService.cs:222`), a lost report, a lost answer.
`UncancelledNext` is the platform without
cancellations and progress reports, which the fair specification is about (why:
section 5).

### StateMachineApplier

`ClientCommandReplicationEnabled = true`. The log is the sequence of committed
entries that `RaftReplication` provides (without its "replicate" window, see the
finding); each coordinator knows a growing prefix. `Proposals` are the commands
that handlers and services build from the rows of the coordinator they run on.
`Apply` and `MarkApplied` are two transactions, with a crash possible in between;
a rejected command (`Rejects`) throws before `MarkApplied`.

### PBFTReplica

A replica is a single-threaded ROS node, so a callback is one action. Its state is
a record whose fields have the names of the source; a callback is an operator on
that record that collects what it publishes in `out`. `inbox[r]` holds what was
published and not yet handled by `r`: messages arrive in any order between topics
and senders, and may stay away for ever. `Redeliver` is one more copy of a
duplicating sender.
`param[r]` is what the replica was started with: its fault behaviour
(`byzantine_behavior`), whether it has a progress timeout, the manual view change.
A request id stands for id, digest and value together; `valid` says whether a
message passes the receivers' checks of them. The progress timer is the view it was
armed in.

### EmergencyStop

Clients, monitor and supervisor with every early return of their callbacks. The
replicas only commit here, in growing views. `topic` is all that was ever
published on `/pbft/decision` (reliable, transient local), each subscriber has its
own position in it, and `Foreign` are decisions other publishers may put there.
`launch` is the launch file in use. The module composes with `PBFTReplica` through
what a replica commits: `DecisionBacked` rests on the statuses being true, which
`CommitBacked` and `Agreement` there are about.

### Tendermint

The messages sent so far are one set: the network delays them for any time, so a
rule may fire as soon as what it counts has been sent. Every rule and timeout is an
operator from a node's record to the set of its outcomes (empty when it does not
apply); `try_rules` and `check_timeouts` take one. Proposers follow from the
weighted schedule, computed once. A faulty node follows the rules, and what
it broadcasts is changed by the mode of the configuration: two proposals to two
halves of the nodes, or nil votes.

### HotStuff

A node of the tree is the sequence of (view, command) pairs from genesis to it,
which is what its hash covers; a QC is its type, view and node and exists once a
leader has built it (signatures are not forged). A handler is an operator from a
replica's record and a message to the new record and the messages sent. `Deliver`
is one pass of the replica's loop, with the view synchronisation in front of it.
`Crash` and `Restart` are those of `demos/harness.py`: a fresh replica takes the
place of the crashed one.

### The MC modules

Several of them explore a set of *scenarios* in one run, as different initial
states. In `MCRaftScenarios` and `MCExperimentScenarios` a scenario bounds an
instance in some dimensions so that it can be large in others; the fixed order of
interchangeable commands and workers is a symmetry (`OrderedSpec` of
`MCRaftReplication` has it too; it concerns submissions only, of which no fairness is
assumed). In `MCPBFT`, `MCTendermint` and
`MCHotStuff` a scenario names the topics and receivers whose messages may be slow;
all other messages are handled at once, in one fixed order. Every behaviour
explored is a behaviour of the module's own `Spec`; what the scenarios limit is
which asynchrony is explored, and each is listed in the MC module with what it is
for. A scenario of `MCHotStuff` also names the kinds of messages that are still
handled when their receiver has left the view (`late`): none; every kind but COMMIT
(`TardyScenarios`, where the hypothesis of the theorems about `HotStuff` is met and
nothing more); or every kind (`LateScenarios`). A *timely* scenario lets timers expire only when nothing else can happen,
which is what a timer longer than every delay means; the properties
`TimelyProgress`, `TimelyDecision` and `TimelyCommit` say that the system does not
come to rest there before its work is done.

## 4. Runs

All bounds are constants of the modules, or fields of the scenarios, and named there.

| run | instance | what it shows |
|---|---|---|
| `election` | 3 coordinators, terms to 2, 1 crash, fair | one vote and one leader per term, also with a crash between the two saves of a vote; true hints; a superseded leader steps down |
| `replication_safety` | 3 coordinators, six scenarios: terms to 4 over one entry, three terms and commands over two entries, requests that overtake each other or come after their timeout, a crash inside a request, a waiting submission in two terms with two commands | state machine safety, log matching, leader completeness, sound match and commit indexes; "Committed" is about the submitted entry unless the node was deposed just before the answer |
| `replication_progress` | 2 coordinators, terms to 2, 2 entries, a crash, windows "append", "replicate" and "entries" open, fair | committed prefixes never change; an appended command commits while the leader's term lasts |
| `replication_stale_commit` | 3 coordinators, terms to 3, window "replicate" open | **violation** of state machine safety (section 5) |
| `experiment_safety` | five scenarios: 2 workers and 1 experiment with a false timeout, a lost report or a restart; cancellations with progress and 2 calls at a time; 2 experiments and 1 worker | one worker per attempt, one experiment per worker, cancellations kept, `ExperimentLifecycle` implemented |
| `experiment_progress` | 1 experiment, 1 worker, every fault once, manual assignments, fair | every experiment comes to a result |
| `applier_safety` | 2 coordinators, 4 commands, 2 open, 1 crash, fair | equal LastApplied means equal experiments; a replica applies everything committed unless an entry is rejected |
| `pbft_replicas` | 4 replicas, views to 2, each of the fifteen behaviours at the first primary, the second or a backup; delayed votes; two requests; a slow replica; manual view change | agreement, commits and certificates backed by correct replicas, no vote for an older view, a stalled replica is watched, requests are executed when timers outlast delays |
| `emergency_stop` | 2 clients, 4 replicas (one faulty), views to 1, five launch files, two foreign decisions, fair timers | release only on a quorum's later decision for the pending request, fail-safe final, decisions backed, every wait ends |
| `tendermint` | 4 nodes, rounds to 2, the scenarios of `config.py`: equal and weighted power, a crashed or lying proposer, two heights | agreement, one vote per round, a decided value stays the only one with quorums, locks backed, decisions when timers outlast messages |
| `hotstuff` | 4 replicas, views to 5, rotating and fixed leaders, slow phases, a crash with restart, equivocating and censoring leaders, late messages of every kind but COMMIT | committed logs are prefixes of one branch without holes, one certified node per phase and view, committed branches are locked, no command is lost |
| `hotstuff_late` | 4 replicas, views to 2, messages of left views still arrive, COMMITs too | **violation** of agreement (section 5) |

Why the bounds are enough to be interesting. Three coordinators are the smallest
cluster with a minority; two terms allow a deposed leader, three a deposed leader
whose successor is deposed, four the sequence in which an old entry is replicated
again and then overwritten; two entries hold a conflict with something before it.
A waiting submission has a second command beside it, so that its entry may be
replaced by another leader's between the last role test and the answer: TLC reaches
that, and then only the second half of `AcknowledgedOrReplaced` holds.
Two workers and one experiment are what a stolen attempt needs, two experiments and
one worker what a second assignment needs; four commands are create, assign and two
that compete. Four replicas are the smallest cluster with a Byzantine one; three
views, or rounds, are two changes, so that the first replacement may fail too; five
views of HotStuff are one turn of the leaders and one more. In `tendermint` any two
quorums of the running nodes share one, which the configuration does not enforce
(section 5).

Deadlock is checked where the system must not stop (the experiment platform). The
protocol runs stop when their bounded terms, views and requests are used up.

Fairness. Raft: a round is started every 500 ms for as long as the process lives,
a round that is under way goes on (`RoundStep`), and each of its calls ends within the
timeout of the HTTP client (weak fairness); a
peer that is called again and again is reached again and again (strong fairness:
two live coordinators are not separated for ever). Experiments: the services run
every two seconds and their commands are local transactions; a worker that is up
sends heartbeats, polls, ends its execution, at the latest by its timeout, and
reports (weak fairness). Applier: it runs every 200 ms and after every submission
(weak fairness of its two transactions). Supervisor: the timer of a node that spins
is served (weak fairness of `decision_timeout_callback`); nothing is assumed of
network, replicas and clients. Nothing is assumed about crashes, or lost and late
messages; a missed heartbeat of a live worker is a fault with a bound, the timeout
of a dead one is certain to come.

## 5. Disagreements found

With a run that ends in a counterexample:

1. `replication_stale_commit` (`RaftHeartbeatSender.cs:148-169`). The request to
   a peer is put together after the lock is released: the log is read, then the
   commit index, under the term of an earlier snapshot. In the trace n1 has an entry
   of its term 1 that nobody else has. n2, leader of term 2 with an empty log, has
   read that there is nothing to send; it is deposed by n3, takes over n3's entry
   and commit index 1 in term 3, and then sends the empty request under term 2 with
   that commit index. n1 has not heard of term 3 and accepts; `AdvanceFollowerCommit`
   takes the smaller of the leader's commit index and n1's own last index
   (`RaftCommitManager.cs:141-144`), so n1 commits its leftover entry, about which
   the request says nothing, where n2 and n3 have committed another.
2. `hotstuff_late` (`hotstuff/replica.py:255-325`). No handler compares the view of
   a message with the replica's own. PRE-COMMITs of view 1 that arrive after view 2
   has committed another node are still voted for, the leader of view 1 completes
   its quorum, and its COMMIT moves locks back to view 1 and is voted for as well:
   two conflicting committed logs without a faulty replica. The check is needed in
   `on_commit` only: `NoForks` (section 6) proves agreement when a COMMIT of a left
   view has no effect, with every other message as late as it likes, and
   `TardyScenarios` explores that.

Known, and expressed in how a property is stated:

- `RaftCommandSubmitter.cs:84`: between the second role test and the read of the
  commit index the leader may be deposed and its entry replaced; the client is told
  Committed. `AcknowledgedOrReplaced` says that this is the only way. The entry that
  took its place may be of an earlier term: it comes from the new leader's log.
- `RaftCommandSubmitter.cs:39`: between the role test and the append (the window
  "append") the leader may be deposed and its successor's entries may arrive; then an
  entry of the old term is appended behind newer ones, and term and index do not
  identify an entry any more. With four terms and four commands log matching fails in
  this way. The theorems about logs therefore assume that window closed, and so do
  the scenarios of `replication_safety`.
- `RaftHeartbeatSender.cs:148-152`: the term of the previous entry and the entries
  are two reads (the window "entries"). A leader of term 3 with the log [a(1)] reads
  the previous term 1; its successor of term 4 replaces that log by [x(2), y(4)]; the
  deposed leader goes on to read y(4) and sends it as what follows index 1 of term 1.
  A follower that still has [a(1)] and has not heard of term 4 then has
  [a(1), y(4)]: log matching fails, with the window "append" closed. The model shows
  it with "replicate" and "entries" open, four terms and logs of two entries (TLC
  finds the 36 states when its search is confined to these elections). The theorems about logs
  therefore assume that nobody runs between these two reads (`RequestsWhole`); of
  the runs `replication_progress` has the window open, where committed prefixes
  stay and commands commit all the same.
- `RaftStateMachineApplier.cs:54`: of two commands built from the same row and both
  committed, the second throws on every coordinator at every try, and nothing after
  it is applied. `AppliedUnlessRejected` says that nothing else stops an applier;
  `ReplicasAgree` holds all the same.
- `CoordinatorCommandProcessor.cs:706-727`: startup recovery returns a running
  experiment to Pending with its cancellation still requested, and the next
  assignment clears the request. `CancellationKept` excepts that step only.
- `ExperimentRegistry.cs:189-192`, `ExperimentsController.cs:428`: after a
  cancellation between assignment and poll, or after the execution has ended, nobody
  may end the experiment while its worker is online. `EveryExperimentEnds` is stated
  for clients that cancel nothing.
- `config.py:70` of Tendermint accepts every total power above 3f while the quorum
  is 2f + 1, and then two quorums need not share a node.
- `view_change.py:36` of PBFT leaves committed instances out of VIEW-CHANGE
  certificates, so a sequence number may get another request in a later view, which
  the project's README (line 310) excludes; `Agreement` of `PBFTReplica` is about
  one view and sequence number. `progress_timeout.py:109`: the commit of one request
  cancels the timer that watched another; `StalledIsWatched` is about a single
  request.

## 6. Proofs

The theorems hold for every value of the constants: every cluster, set of commands,
clients, configurations or decisions, and every bound. They assume only the named
`ASSUME`s of the modules (finite sets of coordinators, natural bounds, what the code
validates about a configuration). A theorem that needs more says so in its
statement, as a hypothesis inside the box; such hypotheses are

- `AppendsAtomic`, `RequestsWhole`, `ReadsAtomic` (`RaftReplicationProofs`): nothing
  runs in the window "append" of a submission; nothing runs in a round between the
  reads of the previous term and of the entries ("entries", unless "replicate" is
  closed anyway); nothing runs in the window "replicate" of a round at all;
- `Tight` (`TendermintProofs`): the nodes started have a power of 3f + 1 at most;
- `FewFaulty` (`PBFTReplicaProofs`): at most f replicas have a faulty behaviour;
- `CommitsOnTime` (`HotStuffProofs`): a COMMIT delivered to a replica that has left
  its view has the effect of its loss;
- `~ ClientAssigns` (`ExperimentPlatformProofs`): clients leave assignments to the
  scheduler.

Without the conditions of Raft, Tendermint and HotStuff the properties are false of the code
(section 5); f is the protocol's own bound on faulty replicas; a client that assigns
by hand may give a busy worker a second experiment, which the code allows.

`RaftElectionProofs`: `OneLeaderPerTerm`, `VotesOnce`, `HintIsTrue`,
`StoredVoteStable`, `TypeCorrect`. Two winners of a term have quorums with a common
voter, who voted once. To make that inductive the invariant ties the history of
votes to the stored vote (a vote in the coordinator's current term is the stored
one, and no vote is for a later term), the answers a candidate has collected to that
history, and every leader, heartbeat in transit and hint to an election won with a
quorum.

`RaftReplicationProofs`, for every choice of `Preempt`: `TypeCorrect`,
`CommitIndexWithinLog`, `CommittedPrefixIsStable`, `AnswersAreCommitted`. The commit
index stays within the log because `TryAppendEntries` refuses to replace an entry at
or below it, also when a crash cuts the writing short after the first differing
entry; the lemmas about `AppendedLog` say this. The windows do not matter for these
properties, which is why `replication_stale_commit` is about two coordinators and
never about one coordinator's own committed prefix. For the answers the invariant
says that a leader's own entries stay where it appended them while its term lasts.

With `AppendsAtomic` and `RequestsWhole`: `LogsMatch`, `TrackerIsSound`; with
`AppendsAtomic` and the stronger `ReadsAtomic`: `CommitsAgree`, `LeadersHoldCommitted`. No state of the code remembers the logs of
past leaders, so the invariant `LogsSafe` says that there are functions from the
terms that had a leader to that leader (`Owners`) and to its log (`Logs`) such that
- every log is, up to each entry, the log of the leader who made the entry
  (`Backed`), terms do not decrease in a leader's log, and every request on its way
  is a piece of one leader's log, of its sender's unless that was deposed before it
  read (`SegmentOf`, `Sourced`): log matching follows. A request put together from
  two logs would be a piece of neither, which is why `RequestsWhole` is needed;
- what the tracker of a leader says of a peer that is still in the term is true
  (`Matched`), whatever late answers and restarts there were;
- every commit index rests on an entry that a quorum holds and all later leaders
  hold (`Stable`, `Anchored`), and an entry for which the leader may still get a
  quorum is held by later leaders and by those who acknowledged it (`Pending`).
A new leader has the votes of a quorum, which shares a voter with the quorum of any
stable or open entry; the voter's log has the entry, and `IsCandidateLogUpToDate`
with `Backed` gives it to the winner (the lemmas on `UpToDate`).

`EmergencyStopProofs`: `FailSafeFinal`, `ReleaseIsJustified`, `NobodyWaitsForEver`,
`DecisionsAreBacked`. `SupervisorInv` says what the supervisor's fields imply while
the output is released (no latch, the policy, a processed release request); with it
the latch is final. For `ReleaseIsJustified` the invariant adds that the decision
which released the output is among those handled, younger than the request and by a
quorum of replicas; for `DecisionsAreBacked` that every observed status is a
committed instance of a replica that is not faulty. Nothing is assumed of what other
publishers put on the topic.

`TendermintProofs`: `OneVote`, `LocksAreBacked`; with `Tight` also
`ChosenValueIsStable`, `NodesAgree`. The invariant (`InvHolds`) ties a correct node's
step, lock, valid value and decisions to the votes it has sent: a node that may still
vote in a round has no vote there, a lock has its quorum of PREVOTEs and its own
PRECOMMIT, and a PREVOTE against a lock needs a later quorum. A value with a quorum
of PRECOMMITs keeps the others below a quorum: of the rounds in which another value
gets one take the first (`LeastNat`; this replaces an induction over the rounds), and
a correct node in both quorums has voted against its lock without a reason.

`ExperimentPlatformProofs`: `AttemptHasOneWorker`, `CancellationStays`,
`PlatformImplementsLifecycle`; with `~ ClientAssigns` also `WorkerRunsOne`.
`PlatformInvariant` says that the event table gives each attempt number to one worker
and that what runs or is worked on has been started. Every action is one of three
kinds: it leaves the rows alone, creates a row, or applies a command to one row that
passes the command's own tests; so invariant and refinement are proved for three
kinds of steps, and the refinement maps each kind to a step of `ExperimentLifecycle`
or to a stutter. For `WorkerRunsOne` the invariant adds that the only Assign command
is the scheduler's, for the worker it is at.

`StateMachineApplierProofs`: `DatabasesAgree` from `AppliedHistory`: the committed log
determines a history of states, and a coordinator's database is in the state after
LastApplied entries, or one further between Apply and MarkApplied; that an entry
applied a second time changes nothing follows from AppliedCommands.

`PBFTReplicaProofs`: `CommittedAgree`, `CertificatesAreBacked`, `VotesAreCurrent`;
with `FewFaulty` also `CommitsAreBacked`. The invariant (`ReplicasInvariant`) says of
every replica and every message under way that a vote naming a correct replica was
sent by it, and that a key (view, sequence) is claimed for one request: by the
PRE-PREPARE of its primary or by the one NEW-VIEW of its view. None of the fifteen
behaviours sends two PRE-PREPAREs or NEW-VIEWs that disagree, which is why agreement
on one key needs no bound on their number; the backing of a commit does.

`StalledAreWatched` follows the progress timer through every callback. A replica may
work on several instances of its view while one timer watches them, so the invariant
(`Watched`) is about every uncommitted instance of the view, not only the one worked
on last, and about the views of the keys. The commit of one instance cancels the
timer for the others, so with a single request the argument needs that a view has a
single key (`ViewHasOneKey`): nobody works on a request no client asked for (`KInv`);
the primary of view 0 numbers a request once, as `processed` says it did (`Numbered`);
a later view has the one request of its NEW-VIEW (`ReplicasInvariant`). `Follows` says
what each callback keeps of this, from one state of a replica to the next, and the
callbacks are composed from the steps they make.

`HotStuffProofs`: `OneNodePerView`, of the whole specification, late messages
included: what fails in `hotstuff_late` is the locking across views, never the
certificates of one view. An equivocating leader sends different replicas different
nodes, and any leader may crash and forget what it proposed, so the argument cannot be
that a leader proposes once. It is that a view is proposed once by anybody. The
invariant (`HistoryHolds`) says that some history explains the state: the views
proposed, the node each replica was asked to vote for, and the NEW-VIEW messages each
proposal used. A replica that never crashed sends one NEW-VIEW for a view; once used
it is neither under way nor held by a leader that could propose the view, whether the
leader remembers it or restarted. A second proposal would need another quorum of
them, which has more than F replicas in common with the first, and at most F have
crashed. Hence a replica is asked to vote for one node of a view, and two quorums of
votes are for the same; QCs of the later phases repeat the node of a PREPARE QC. The
replay of deferred decisions after a fetched branch is a recursive function; that it
keeps the invariant is shown at the least position where it would not (`LeastNat`).

With `CommitsOnTime`: `NoForks`, `LogsAreBranches`, `CommittedIsLocked`, from
`SafetyHolds`. A restarted replica has lost its votes and its lock, and messages are
consumed, so the state does not remember enough; the invariant says that there are
sets G of PREPARE votes, Z of certified nodes with their views and C of COMMIT votes
such that
- a node is in Z only with a quorum of PREPARE votes in G, which are for what the
  history above says was proposed, and COMMIT votes are for nodes of Z (`GhostOK`);
- every QC and lock, held or under way, is of a node of Z, every vote is in the
  history, a QC of the COMMIT phase has a quorum in C, and a log is the branch of
  the node of such a QC (`StateSafe`, `MsgSafe`);
- a replica that never crashed has a lock no older than its latest COMMIT vote, and
  each PREPARE vote it sent is for a node that extends one of Z at least as recent as
  all it voted to commit in the views before (`Kept`, `Good`); this is `safe_node`.
`CommitsOnTime` keeps `Kept`: a COMMIT on time locks no earlier view than the lock
is of, and no PREPARE vote for a later view has been sent yet. Then a node with a quorum of COMMIT
votes is a prefix of every node of Z of its view or later (`ChosenStays`): of the
nodes that are not its extensions take a shortest; the two quorums share a replica
that never crashed, whose PREPARE vote extends a shorter node of Z of the same view
or later, which is an extension, unless its view is earlier, which `Good` excludes.
A crash adds its replica to those the quorums may lose, and F bounds them together
with the Byzantine ones.

Model-checked only:
- liveness and quiescence (`ReplicationProgress`, `StaleLeaderStepsDown`,
  `EveryExperimentEnds`, `AppliedUnlessRejected`, `EveryWaitEnds`, `TimelyProgress`,
  `TimelyDecision`, `TimelyCommit`): the prover has neither fairness nor ENABLED.

## 7. Not modelled

Of the platform: JSON encoding of commands, option validation, the database schema
and its migrations, logging; what an executor computes and its protocol with the
Python process; faults of the database; real time (an election timeout may happen at
any moment, so nothing is said about how soon an election succeeds). The registry
methods `TryAssign`, `TryComplete`, `TryRequeue` and `TryRequestCancellation` are not
used by the program any more.

Of the emergency stop: performance monitor, scenario evaluator and test console,
which nothing else reads; texts and phases of statuses; the monitor's log of
agreement violations. Of Tendermint: logging and the command line. Of HotStuff: the
chained replica (planned), the client and the ledger, which depend on the committed
log only, event log, demos and GUI data.

The Go, Rust and C++ projects are planned as in section 2. NBFT's smallest valid
configuration has seventeen nodes in groups that vote in two levels, out of TLC's
reach without an abstraction of a group's vote that the code does not have.
