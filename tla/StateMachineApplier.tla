------------------------ MODULE StateMachineApplier ------------------------
(***************************************************************************)
(* Coordinators that replicate their commands                              *)
(* (ClientCommandReplicationEnabled = true).  The log is the one sequence  *)
(* of committed entries that RaftReplication provides; every coordinator   *)
(* learns a growing prefix of it and applies the entries in order to its   *)
(* own database: one transaction for the command, a later one for          *)
(* LastApplied, with a crash possible in between.                          *)
(*                                                                         *)
(* Handlers and services of a leader build a command from the rows of its  *)
(* own database and submit it.  A submission may wait for the submissions  *)
(* before it, time out and commit later, or never commit.                  *)
(***************************************************************************)
EXTENDS ExperimentCommands, Sequences, FiniteSets

CONSTANTS
    Nodes,         \* the coordinators
    MaxCommands,   \* bound: submissions
    MaxOpen,       \* bound: submissions not committed
    MaxStep,       \* bound: progress reported
    MaxCrash       \* bound: crashes

ASSUME ApplierAssumption ==
    {MaxCommands, MaxOpen, MaxStep, MaxCrash} \subseteq Nat

VARIABLES
    log,       \* the committed entries: a command and its CommandId
    open,      \* entries submitted and not committed
    commit,    \* commit[n]: CommitIndex of n (database)
    applied,   \* applied[n]: LastApplied of n (database)
    rows,      \* rows[n][e]: the row of e in the database of n
    done,      \* done[n]: CommandIds in the AppliedCommands table of n
    mid,       \* mid[n]: n has applied an entry and not yet marked it
    issued,    \* how many commands have been submitted
    crashes    \* how many crashes have happened

vars == <<log, open, commit, applied, rows, done, mid, issued, crashes>>

Init ==
    /\ log = <<>>
    /\ open = {}
    /\ commit = [n \in Nodes |-> 0]
    /\ applied = [n \in Nodes |-> 0]
    /\ rows = [n \in Nodes |-> [e \in Experiments |-> NoRow]]
    /\ done = [n \in Nodes |-> {}]
    /\ mid = [n \in Nodes |-> FALSE]
    /\ issued = 0
    /\ crashes = 0

-----------------------------------------------------------------------------
\* The commands that handlers and services build from row r of experiment e:
\* the create, cancel, assign and complete endpoints, the scheduler, and the
\* two recovery services.
Proposals(e, r) ==
    CASE r.status = "Missing" -> {CreateCommand(e)}
      [] r.status = "Pending" ->
           {CancelCommand(e)} \cup {AssignCommand(e, r, w) : w \in Workers}
      [] r.status = "Running" ->
           {CancelCommand(e), RequeueCommand(e, r), RecoverCommand(e, r)}
           \cup {CompleteCommand(e, r.worker, r.attempt, outcome) :
                   outcome \in {o \in Terminal : r.cancel = (o = "Cancelled")}}
      [] OTHER -> {}

\* SubmitAsync on coordinator n, which is or was leader.
Submit(n) ==
    /\ issued < MaxCommands /\ Cardinality(open) < MaxOpen
    /\ \E e \in Experiments : \E c \in Proposals(e, rows[n][e]) :
         open' = open \cup {[id |-> issued, command |-> c]}
    /\ issued' = issued + 1
    /\ UNCHANGED <<log, commit, applied, rows, done, mid, crashes>>

\* A quorum has the entry.  One that a later leader replaces stays open.
Commit(d) ==
    /\ d \in open
    /\ log' = Append(log, d)
    /\ open' = open \ {d}
    /\ UNCHANGED <<commit, applied, rows, done, mid, issued, crashes>>

\* The commit index of n advances, as leader or as follower (by several
\* entries in several steps).
Learn(n) ==
    /\ commit[n] < Len(log)
    /\ commit' = [commit EXCEPT ![n] = @ + 1]
    /\ UNCHANGED <<log, open, applied, rows, done, mid, issued, crashes>>

\* A worker of n reports progress, which is written to the database of n
\* and not replicated.
ReportProgress(n) ==
    /\ \E e \in Experiments, step \in 1..MaxStep :
         /\ rows[n][e].step < step
         /\ Accepts(ProgressCommand(e, rows[n][e].worker, rows[n][e].attempt,
                                    step), rows[n][e])
         /\ rows' = [rows EXCEPT ![n][e].step = step]
    /\ UNCHANGED <<log, open, commit, applied, done, mid, issued, crashes>>

-----------------------------------------------------------------------------
\* ApplyCommittedEntriesAsync

LatestCommitted(n) == commit[n]

NextIndex(n) == applied[n] + 1

UnknownCommand(n, d) == FALSE

\* GetPreviouslyAppliedResult: the command is in the AppliedCommands table.
AlreadyApplied(n, d) == d.id \in done[n]

\* One transaction: the row, and the entry of the AppliedCommands table.  A
\* command that was applied before changes nothing; one that is rejected
\* throws, and the loop ends with nothing changed.
Apply(n) ==
    /\ ~mid[n] /\ applied[n] < commit[n]
    /\ LET d == log[NextIndex(n)]
           c == d.command
       IN \/ /\ AlreadyApplied(n, d)
             /\ UNCHANGED <<rows, done>>
          \/ /\ ~AlreadyApplied(n, d)
             /\ Accepts(c, rows[n][c.exp])
             /\ rows' = [rows EXCEPT ![n][c.exp] = Effect(c, @)]
             /\ done' = [done EXCEPT ![n] = @ \cup {d.id}]
    /\ mid' = [mid EXCEPT ![n] = TRUE]
    /\ UNCHANGED <<log, open, commit, applied, issued, crashes>>

\* The next transaction: RaftCommitManager.MarkApplied.
MarkApplied(n) ==
    /\ mid[n]
    /\ applied' = [applied EXCEPT ![n] = NextIndex(n)]
    /\ mid' = [mid EXCEPT ![n] = FALSE]
    /\ UNCHANGED <<log, open, commit, rows, done, issued, crashes>>

\* A restart keeps the database and starts the loop again.  It matters only
\* between the two transactions.
Restart(n) ==
    /\ mid[n]
    /\ crashes < MaxCrash
    /\ crashes' = crashes + 1
    /\ mid' = [mid EXCEPT ![n] = FALSE]
    /\ UNCHANGED <<log, open, commit, applied, rows, done, issued>>

NodeStep(n) ==
    \/ Submit(n) \/ Learn(n) \/ ReportProgress(n)
    \/ Apply(n) \/ MarkApplied(n) \/ Restart(n)

Next ==
    \/ \E n \in Nodes : NodeStep(n)
    \/ \E d \in open : Commit(d)

Spec == Init /\ [][Next]_vars

-----------------------------------------------------------------------------
\* Safety

\* Ids of the first k entries of the log.
Ids(k) == {log[i].id : i \in 1..k}

\* The part of a row that the log determines: progress is local.
Replicated(r) == [r EXCEPT !.step = 0]

\* The database of n is not ahead of its LastApplied.
Settled(n) == done[n] \subseteq Ids(applied[n])

\* Coordinators with the same LastApplied have the same experiments,
\* whatever crashes, repeated applications and local progress reports
\* happened on the way.
ReplicasAgree ==
    \A n, m \in Nodes :
        Settled(n) /\ Settled(m) /\ applied[n] = applied[m] =>
            \A e \in Experiments :
                Replicated(rows[n][e]) = Replicated(rows[m][e])

-----------------------------------------------------------------------------
\* Liveness.  The applier runs every 200 ms and after every submission.

Fairness == \A n \in Nodes : WF_vars(Apply(n)) /\ WF_vars(MarkApplied(n))

FairSpec == Spec /\ Fairness

\* Coordinator n rejects the next entry that it has to apply.
Rejects(n) ==
    /\ applied[n] < commit[n]
    /\ LET d == log[NextIndex(n)]
       IN d.id \notin done[n] /\ ~Accepts(d.command, rows[n][d.command.exp])

\* A coordinator that is behind its commit index catches up, unless it comes
\* to an entry that its database rejects: an entry applied before a crash and
\* not marked is recognised and does not count as rejected.
AppliedUnlessRejected ==
    \A n \in Nodes :
        applied[n] < commit[n] ~> applied[n] = commit[n] \/ Rejects(n)
=============================================================================
