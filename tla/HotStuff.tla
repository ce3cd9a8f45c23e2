------------------------------ MODULE HotStuff ------------------------------
(***************************************************************************)
(* The Basic HotStuff replicas (hotstuff/replica.py with tree, crypto,     *)
(* pacemaker and network, byzantine.py, and the fault injection of         *)
(* demos/harness.py).  A replica is an asyncio task: it handles one        *)
(* message, timeout or submission at a time, so each is one action.        *)
(*                                                                         *)
(* A node of the block tree is known by its hash, which covers the parent, *)
(* the command and the view: here it is the sequence of the <<view,        *)
(* command>> pairs from genesis to it, and tree holds the nodes a replica  *)
(* has.  Signatures are not forged, so a QC is its <<type, view, node>> and *)
(* exists once a leader has built it; every QC in a message verifies.      *)
(***************************************************************************)
EXTENDS Integers, Sequences, FiniteSets, SequencesExt

CONSTANTS N, F,        \* replicas, and faulty ones at most
          Commands,    \* the commands of the client
          Configs,     \* the clusters to run: see ValidConfig
          MaxView      \* bound: nothing is proposed beyond this view

Replicas == 0 .. N - 1
NoCommand == <<"none">>
Equivocation == <<"equivocation">>

ValidConfig(c) ==
  /\ c.fixed \in Replicas \cup {-1}               \* fixed_leader, -1: rotation
  /\ c.timeouts \in BOOLEAN
  /\ c.byzantine \subseteq Replicas /\ Cardinality(c.byzantine) <= F
  /\ c.attack \in {"equivocate", "censor"}
  /\ c.censored \subseteq Commands

ASSUME HotStuffAssumption ==
  /\ F \in Nat /\ N \in Nat /\ N >= 3 * F + 1 /\ MaxView \in Nat
  /\ \A c \in Configs : ValidConfig(c)

VARIABLES cfg,      \* the cluster
          rep,      \* rep[r]: the fields of replica r
          net,      \* messages under way
          down,     \* replicas that have crashed and not come back
          failed,   \* replicas that have ever crashed
          asked     \* commands submitted

vars == <<cfg, rep, net, down, failed, asked>>

QuorumTooLow == N - 2 * F
Quorum == N - F
Correct == Replicas \ cfg.byzantine

Leader(v) == IF cfg.fixed >= 0 THEN cfg.fixed ELSE v % N
-----------------------------------------------------------------------------
(* Nodes, the tree and QCs *)
Genesis == <<>>
GenesisQC == [type |-> "PREPARE", view |-> 0, node |-> Genesis]

Ancestor(node, k) == SubSeq(node, 1, k)

\* extends: every link from node down to the ancestor is in the tree
Extends(tree, node, ancestor) ==
  /\ IsPrefix(ancestor, node)
  /\ \A k \in Len(ancestor) .. Len(node) - 1 : Ancestor(node, k) \in tree

Executed(s) == ToSet(s.committed)
CommittedCmds(s) == {Last(b)[2] : b \in Executed(s)}

\* _first_missing_ancestor: as lengths, none or one
MissingAncestors(s, node) ==
  LET gaps == {k \in 0 .. Len(node) - 1 :
                 /\ Ancestor(node, k) \notin s.tree
                 /\ \A j \in k + 1 .. Len(node) : Ancestor(node, j) \notin Executed(s)}
  IN  {k \in gaps : \A j \in gaps : j <= k}
-----------------------------------------------------------------------------
(* Messages.  A handler yields the new state of the replica and what it     *)
(* sends.                                                                   *)
Message(type, v, r, node, qc) ==
  [type |-> type, vote |-> FALSE, view |-> v, from |-> r, node |-> node, qc |-> qc]
Vote(type, v, r, node) ==
  [type |-> type, vote |-> TRUE, view |-> v, from |-> r, node |-> node, qc |-> GenesisQC]
Branch(v, r, nodes) ==
  [type |-> "SYNC_RESP", vote |-> FALSE, view |-> v, from |-> r, nodes |-> nodes]

Send(dst, m) == {[dst |-> dst, msg |-> m]}
Broadcast(m) == {[dst |-> r, msg |-> m] : r \in Replicas}

Does(s, out) == [state |-> s, out |-> out]
Nothing(s) == Does(s, {})

SendVote(r, s, m, node) == Does(s, Send(Leader(m.view), Vote(m.type, m.view, r, node)))
RequestSync(r, s, node, peer) ==
  Does(s, Send(peer, Message("SYNC_REQ", s.view, r, node, GenesisQC)))

InitialReplica ==
  [view |-> 0, tree |-> {Genesis}, locked_qc |-> GenesisQC, prepare_qc |-> GenesisQC,
   committed |-> <<>>, pending |-> <<>>, votes |-> {}, new_view |-> {}, qcs |-> {},
   proposed |-> {}, high_qc |-> {}, decided |-> {}, left |-> {}, deferred |-> <<>>]
-----------------------------------------------------------------------------
(* View change *)
AdvanceFrom(r, s, prev) ==
  IF prev \in s.left THEN Nothing(s)
  ELSE Does([s EXCEPT !.left = @ \cup {prev}, !.view = prev + 1],
            Send(Leader(prev + 1), Message("NEW_VIEW", prev, r, Genesis, s.prepare_qc)))

SyncView(s, v) == [s EXCEPT !.left = @ \cup s.view .. v - 1, !.view = v]

\* _next_command: committed commands are dropped on the way; a censoring
\* leader leaves its victims' commands where they are
Refuses(r, c) == r \in cfg.byzantine /\ cfg.attack = "censor" /\ c \in cfg.censored

NextCommand(r, s) ==
  LET fresh == {i \in DOMAIN s.pending : /\ s.pending[i] \notin CommittedCmds(s)
                                         /\ ~ Refuses(r, s.pending[i])}
      first == IF fresh = {} THEN Len(s.pending) + 1 ELSE Min(fresh)
      kept  == SelectSeq(SubSeq(s.pending, 1, first - 1),
                         LAMBDA c : c \notin CommittedCmds(s))
  IN  [cmd  |-> IF fresh = {} THEN NoCommand ELSE s.pending[first],
       rest |-> kept \o SubSeq(s.pending, first + 1, Len(s.pending))]

\* _send_proposal of an honest and of an equivocating leader
SendProposal(r, s, v, leaf, high) ==
  LET other == Append(high.node, <<v, Equivocation>>)
      prepare(node) == Message("PREPARE", v, r, node, high)
  IN  IF r \in cfg.byzantine /\ cfg.attack = "equivocate"
      THEN Does([s EXCEPT !.tree = @ \cup {leaf, other}],
                {[dst |-> i, msg |-> prepare(IF i % 2 = 0 THEN leaf ELSE other)] : i \in Replicas})
      ELSE Does([s EXCEPT !.tree = @ \cup {leaf}], Broadcast(prepare(leaf)))

TryPropose(r, s, v) ==
  LET ready == {h \in s.high_qc : h[1] = v /\ v \notin s.proposed /\ Leader(v) = r}
      next  == NextCommand(r, s)
      taken == [s EXCEPT !.pending = next.rest]
  IN  IF ready = {} THEN Nothing(s)
      ELSE IF next.cmd = NoCommand THEN Nothing(taken)
      ELSE LET high == (CHOOSE h \in ready : TRUE)[2]
           IN  SendProposal(r, [taken EXCEPT !.proposed = @ \cup {v}], v,
                            Append(high.node, <<v, next.cmd>>), high)

OnNewView(r, s, m) ==
  LET start == m.view + 1
      held  == {x \in s.new_view : x[1] # start \/ x[2] # m.from} \cup {<<start, m.from, m.qc>>}
      mine  == {x[3] : x \in {y \in held : y[1] = start}}
      high  == CHOOSE q \in mine : \A p \in mine : p.view <= q.view
      t     == [s EXCEPT !.new_view = held]
  IN  IF Leader(start) # r THEN Nothing(s)
      ELSE IF /\ Cardinality({x \in held : x[1] = start}) >= Quorum
              /\ \A h \in s.high_qc : h[1] # start
           THEN TryPropose(r, [t EXCEPT !.high_qc = @ \cup {<<start, high>>}], start)
           ELSE Nothing(t)
-----------------------------------------------------------------------------
(* The phases: what the leader sends, and the votes it collects *)
FromLeader(m) == m.from = Leader(m.view)
MatchingQC(m, type) == m.qc.type = type /\ m.qc.view = m.view

SafeNode(s, node, qc) ==
  \/ /\ s.locked_qc.node \in s.tree
     /\ Extends(s.tree, node, s.locked_qc.node)
  \/ qc.view > s.locked_qc.view

OnPrepare(r, s, m) ==
  LET t == [s EXCEPT !.tree = @ \cup {m.node}, !.view = Max({@, m.view})]
  IN  IF ~ FromLeader(m) THEN Nothing(s)
      ELSE IF m.qc.node \notin t.tree THEN RequestSync(r, t, m.qc.node, m.from)
      ELSE IF Extends(t.tree, m.node, m.qc.node) /\ SafeNode(t, m.node, m.qc)
           THEN SendVote(r, t, m, m.node)
      ELSE Nothing(t)

OnPreCommit(r, s, m) ==
  LET t == [s EXCEPT !.prepare_qc = m.qc]
  IN  IF ~ (FromLeader(m) /\ MatchingQC(m, "PREPARE")) THEN Nothing(s)
      ELSE IF m.qc.node \in s.tree THEN SendVote(r, t, m, m.qc.node) ELSE Nothing(t)

\* Votes in COMMIT without taking the lock
OnCommitUnlocked(r, s, m) ==
  IF FromLeader(m) /\ MatchingQC(m, "PRE_COMMIT") /\ m.qc.node \in s.tree
  THEN SendVote(r, s, m, m.qc.node) ELSE Nothing(s)

OnCommit(r, s, m) ==
  IF FromLeader(m) /\ MatchingQC(m, "PRE_COMMIT") /\ m.qc.node \in s.tree
  THEN SendVote(r, [s EXCEPT !.locked_qc = m.qc], m, m.qc.node) ELSE Nothing(s)

\* _tally; a vote is counted once for each signer (build_qc)
Tally(s, qc, from) == [s EXCEPT !.votes = @ \cup {<<qc, from>>}]
Formed(s, qc) == Cardinality({x \in s.votes : x[1] = qc}) >= Quorum

\* Then the QC of the phase and the message that carries it.  _formed and qcs
\* hold the same keys.
OnVote(r, s, m) ==
  LET qc     == [type |-> m.type, view |-> m.view, node |-> m.node]
      t      == Tally(s, qc, m.from)
      built  == [t EXCEPT !.qcs = @ \cup {qc}]
      next   == CASE m.type = "PREPARE" -> "PRE_COMMIT" [] m.type = "PRE_COMMIT" -> "COMMIT"
                  [] OTHER -> "DECIDE"
  IN  IF qc \in s.qcs THEN Nothing(s)
      ELSE IF ~ Formed(t, qc) THEN Nothing(t)
      ELSE Does(IF m.type = "PREPARE" THEN [built EXCEPT !.prepare_qc = qc] ELSE built,
                Broadcast(Message(next, m.view, r, Genesis, qc)))

\* execute: node and the ancestors not executed yet, oldest first
Execute(s, node) ==
  LET chain == {k \in 1 .. Len(node) : \A j \in k .. Len(node) :
                   Ancestor(node, j) \in s.tree \ Executed(s)}
      low   == Len(node) - Cardinality(chain)
  IN  [s EXCEPT !.committed = @ \o [i \in 1 .. Cardinality(chain) |-> Ancestor(node, low + i)]]

Decided(r, s, m) ==
  LET t == Execute(s, m.qc.node)
  IN  IF m.view \in t.decided THEN Nothing(t)
      ELSE AdvanceFrom(r, [t EXCEPT !.decided = @ \cup {m.view}], m.view)

\* Executes what it has
OnDecideAtOnce(r, s, m) ==
  IF FromLeader(m) /\ MatchingQC(m, "COMMIT") THEN Decided(r, s, m) ELSE Nothing(s)

OnDecide(r, s, m) ==
  LET node    == m.qc.node
      missing == IF node \notin s.tree THEN {Len(node)} ELSE MissingAncestors(s, node)
  IN  IF ~ (FromLeader(m) /\ MatchingQC(m, "COMMIT")) THEN Nothing(s)
      ELSE IF missing = {} THEN Decided(r, s, m)
      ELSE RequestSync(r, [s EXCEPT !.deferred = Append(@, m)],
                       Ancestor(node, CHOOSE k \in missing : TRUE), m.from)
-----------------------------------------------------------------------------
(* Catch-up *)
OnSyncReq(r, s, m) ==
  LET held == {Ancestor(m.node, k) : k \in {i \in 1 .. Len(m.node) : \A j \in i .. Len(m.node) :
                                              Ancestor(m.node, j) \in s.tree}}
  IN  IF held = {} THEN Nothing(s) ELSE Does(s, Send(m.from, Branch(s.view, r, held)))

\* The branch is stored and forgotten
OnSyncRespNoReplay(r, s, m) == Nothing([s EXCEPT !.tree = @ \cup m.nodes])

OnSyncResp(r, s, m) ==
  LET n == Len(s.deferred)
      replayed[k \in 0 .. n] ==
        IF k = 0 THEN Nothing([s EXCEPT !.tree = @ \cup m.nodes, !.deferred = <<>>])
        ELSE LET x == OnDecide(r, replayed[k - 1].state, s.deferred[k])
             IN  Does(x.state, replayed[k - 1].out \cup x.out)
  IN  replayed[n]

\* dispatch: a leader's message from a view ahead moves the replica there first
Phases == {"PREPARE", "PRE_COMMIT", "COMMIT", "DECIDE"}

Dispatch(r, s, m) ==
  LET t == IF m.type \in Phases /\ ~ m.vote /\ m.view > s.view THEN SyncView(s, m.view) ELSE s
  IN  IF m.vote THEN OnVote(r, t, m)
      ELSE CASE m.type = "NEW_VIEW"     -> OnNewView(r, t, m)
             [] m.type = "PREPARE"      -> OnPrepare(r, t, m)
             [] m.type = "PRE_COMMIT"   -> OnPreCommit(r, t, m)
             [] m.type = "COMMIT"       -> OnCommit(r, t, m)
             [] m.type = "DECIDE"       -> OnDecide(r, t, m)
             [] m.type = "SYNC_REQ"     -> OnSyncReq(r, t, m)
             [] m.type = "SYNC_RESP"    -> OnSyncResp(r, t, m)
-----------------------------------------------------------------------------
(* The cluster *)
Boot(r) == AdvanceFrom(r, InitialReplica, 0)

Init ==
  /\ cfg \in Configs
  /\ rep = [r \in Replicas |-> Boot(r).state]
  /\ net = UNION {Boot(r).out : r \in Replicas}
  /\ down = {} /\ failed = {} /\ asked = {}

\* Messages to a partitioned replica are dropped
Reaches(out) == {p \in out : p.dst \notin down}

Take(r, step, rest) ==
  /\ rep' = [rep EXCEPT ![r] = step.state]
  /\ net' = rest \cup Reaches(step.out)

Deliver(p) ==
  /\ p \in net /\ p.dst \notin down
  /\ p.msg.type = "NEW_VIEW" => p.msg.view < MaxView
  /\ Take(p.dst, Dispatch(p.dst, rep[p.dst], p.msg), net \ {p})
  /\ UNCHANGED <<cfg, down, failed, asked>>

\* drop_prob, or the inbox of a crashed replica
Lose(p) ==
  /\ p \in net
  /\ net' = net \ {p}
  /\ UNCHANGED <<cfg, rep, down, failed, asked>>

\* Client.submit: every replica buffers the command, once
Submit(c) ==
  LET step(r) == LET t == [rep[r] EXCEPT !.pending = Append(@, c)] IN TryPropose(r, t, t.view)
  IN  /\ c \notin asked
      /\ asked' = asked \cup {c}
      /\ rep' = [r \in Replicas |-> IF r \in down THEN rep[r] ELSE step(r).state]
      /\ net' = net \cup UNION {Reaches(step(r).out) : r \in Replicas \ down}
      /\ UNCHANGED <<cfg, down, failed>>

OnTimeout(r) ==
  /\ cfg.timeouts /\ r \notin down
  /\ rep[r].view < MaxView /\ rep[r].view \notin rep[r].left
  /\ Take(r, AdvanceFrom(r, rep[r], rep[r].view), net)
  /\ UNCHANGED <<cfg, down, failed, asked>>

Crash(r) ==
  /\ r \notin failed /\ Cardinality(failed \cup cfg.byzantine \cup {r}) <= F
  /\ down' = down \cup {r} /\ failed' = failed \cup {r}
  /\ UNCHANGED <<cfg, rep, net, asked>>

\* A fresh replica takes the place of the crashed one
Restart(r) ==
  /\ r \in down
  /\ down' = down \ {r}
  /\ rep' = [rep EXCEPT ![r] = Boot(r).state]
  /\ net' = net \cup {p \in Boot(r).out : p.dst \notin down'}
  /\ UNCHANGED <<cfg, failed, asked>>

Next ==
  \/ \E p \in net : Deliver(p) \/ Lose(p)
  \/ \E c \in Commands : Submit(c)
  \/ \E r \in Replicas : OnTimeout(r) \/ Crash(r) \/ Restart(r)

Spec == Init /\ [][Next]_vars
-----------------------------------------------------------------------------
\* No two correct replicas commit conflicting branches: of any two logs one
\* is a prefix of the other (on_decide and execute of replica.py, the lock of
\* on_commit and safe_node; "Theorem 2" of demos/harness.py).
Agreement ==
  \A a, b \in Correct : \/ IsPrefix(rep[a].committed, rep[b].committed)
                        \/ IsPrefix(rep[b].committed, rep[a].committed)

\* All QCs ever formed for a phase of a view name one node, although
\* on_prepare votes for every proposal it gets, a leader may send two, and a
\* restarted one forgets that it has proposed ("Lemma 1" of demos/harness.py,
\* which looks at the QCs that correct leaders formed only).
OneQCPerView ==
  LET formed == UNION {rep[r].qcs : r \in Replicas}
  IN  \A p, q \in formed : p.type = q.type /\ p.view = q.view => p = q

\* A replica's log is one branch without holes from genesis on, whatever
\* proposals it missed and in whatever order decisions and branches reach it
\* (on_decide, _first_missing_ancestor and on_sync_resp).
LogIsBranch ==
  \A r \in Correct : \A k \in DOMAIN rep[r].committed :
     rep[r].committed[k] = Ancestor(Last(rep[r].committed), k)

\* Whatever a correct replica has committed, N - 2F correct replicas that
\* never crashed hold a lock on that branch, so no quorum can pass a node
\* that conflicts with it (on_commit, safe_node).
CommitIsLocked ==
  \A r \in Correct : rep[r].committed # <<>> =>
     Cardinality({k \in Correct \ failed :
                    IsPrefix(Last(rep[r].committed), rep[k].locked_qc.node)}) >= N - 2 * F
=============================================================================
