--------------------- MODULE StateMachineApplierProofs ---------------------
(***************************************************************************)
(* Theorems about StateMachineApplier for any number of coordinators,      *)
(* experiments, workers, submissions and crashes.                          *)
(*                                                                         *)
(* The argument: the committed log determines a history of states, and the *)
(* database of a coordinator is in the state after LastApplied entries, or *)
(* one entry further, whatever it has repeated, rejected or reported.      *)
(***************************************************************************)
EXTENDS StateMachineApplier, TLAPS

-----------------------------------------------------------------------------
\* Types

Rows ==
    [status : {"Missing", "Pending", "Running"} \cup Terminal,
     worker : Workers \cup {Nobody}, attempt : Nat, cancel : BOOLEAN, step : Nat]

\* The commands that are replicated: all but the progress reports.
Commands ==
    [type : {"Create", "Assign", "Complete", "Cancel", "Requeue", "Recover"},
     exp : Experiments, worker : Workers \cup {Nobody}, attempt : Nat,
     cancel : BOOLEAN, outcome : Terminal, step : Nat]

Entries == [id : Nat, command : Commands]

TypeInv ==
    /\ log \in Seq(Entries)
    /\ open \subseteq Entries
    /\ commit \in [Nodes -> Nat]
    /\ applied \in [Nodes -> Nat]
    /\ rows \in [Nodes -> [Experiments -> Rows]]
    /\ done \in [Nodes -> SUBSET Nat]
    /\ mid \in [Nodes -> BOOLEAN]
    /\ issued \in Nat

\* Every submission has an identifier of its own.
IdInv ==
    /\ \A d \in open : d.id < issued
    /\ \A d, g \in open : d.id = g.id => d = g
    /\ \A i \in 1 .. Len(log) : log[i].id < issued
    /\ \A i \in 1 .. Len(log), d \in open : log[i].id # d.id
    /\ \A i, j \in 1 .. Len(log) : log[i].id = log[j].id => i = j

\* The replicated part of the database of n.
Database(n) == [e \in Experiments |-> Replicated(rows[n][e])]

\* A database after a command, unchanged when the command is rejected.
After(db, c) ==
    IF Accepts(c, db[c.exp])
    THEN [db EXCEPT ![c.exp] = Replicated(Effect(c, @))] ELSE db

\* H[k] is the database after the first k entries of the log.
History(H) ==
    /\ H \in [0 .. Len(log) -> [Experiments -> Rows]]
    /\ H[0] = [e \in Experiments |-> NoRow]
    /\ \A k \in 1 .. Len(log) : H[k] = After(H[k - 1], log[k].command)

\* The database of n is the one after k entries: all that are marked as
\* applied, or these and the next one.
Reached(n, k, H) ==
    /\ k = applied[n] \/ k = applied[n] + 1
    /\ mid[n] => k = applied[n] + 1
    /\ k <= commit[n] /\ commit[n] <= Len(log)
    /\ done[n] = Ids(k)
    /\ Database(n) = H[k]

HistoryInv ==
    \E H : History(H) /\ \A n \in Nodes : \E k \in Nat : Reached(n, k, H)

IInv == TypeInv /\ IdInv /\ HistoryInv
-----------------------------------------------------------------------------
\* Rows and commands

LEMMA ProposalTypes ==
    ASSUME NEW e \in Experiments, NEW r \in Rows, NEW c \in Proposals(e, r)
    PROVE  c \in Commands
<1> USE DEF Commands, Terminal, Rows, Command
<1>1. CreateCommand(e) \in Commands /\ CancelCommand(e) \in Commands
  BY DEF CreateCommand, CancelCommand
<1>2. \A w \in Workers : AssignCommand(e, r, w) \in Commands
  BY DEF AssignCommand
<1>3. RequeueCommand(e, r) \in Commands
  BY DEF RequeueCommand
<1>4. RecoverCommand(e, r) \in Commands
  BY DEF RecoverCommand
<1>5. \A o \in Terminal : CompleteCommand(e, r.worker, r.attempt, o) \in Commands
  BY DEF CompleteCommand
<1>6. CASE r.status = "Missing"
  BY <1>1, <1>6 DEF Proposals
<1>7. CASE r.status = "Pending"
  BY <1>1, <1>2, <1>7 DEF Proposals
<1>8. CASE r.status = "Running"
  <2>1. c \in {CancelCommand(e), RequeueCommand(e, r), RecoverCommand(e, r)}
              \cup {CompleteCommand(e, r.worker, r.attempt, o) :
                      o \in {x \in Terminal : r.cancel = (x = "Cancelled")}}
    BY <1>8, Zenon DEF Proposals
  <2>2. CASE c \in {CancelCommand(e), RequeueCommand(e, r), RecoverCommand(e, r)}
    BY <1>1, <1>3, <1>4, <2>2
  <2>3. CASE \E o \in Terminal : c = CompleteCommand(e, r.worker, r.attempt, o)
    BY <1>5, <2>3
  <2> QED BY <2>1, <2>2, <2>3, Zenon
<1>9. CASE r.status \in Terminal
  BY <1>9 DEF Proposals
<1> QED BY <1>6, <1>7, <1>8, <1>9

LEMMA ReplicatedForm ==
    ASSUME NEW r \in Rows
    PROVE  Replicated(r) = [status |-> r.status, worker |-> r.worker, attempt |-> r.attempt,
                            cancel |-> r.cancel, step |-> 0]
BY DEF Replicated, Rows

LEMMA SameReplicated ==
    ASSUME NEW r \in Rows, NEW s \in Rows, r.status = s.status, r.worker = s.worker,
           r.attempt = s.attempt, r.cancel = s.cancel
    PROVE  Replicated(r) = Replicated(s)
BY ReplicatedForm, Zenon

\* What a replicated command does depends on the replicated part of the row
\* alone.
LEMMA StepIsLocal ==
    ASSUME NEW c \in Commands, NEW r \in Rows
    PROVE  /\ Replicated(r) \in Rows
           /\ Accepts(c, Replicated(r)) <=> Accepts(c, r)
           /\ Accepts(c, r) =>
                /\ Effect(c, r) \in Rows
                /\ Replicated(Effect(c, Replicated(r))) = Replicated(Effect(c, r))
<1> DEFINE p == Replicated(r)
<1>1. /\ p \in Rows /\ p.status = r.status /\ p.worker = r.worker
      /\ p.attempt = r.attempt /\ p.cancel = r.cancel /\ p.step = 0
  BY DEF Replicated, Rows
<1> HIDE DEF p
<1>2. Accepts(c, p) <=> Accepts(c, r)
  BY <1>1 DEF Accepts, CanAssign, CanComplete, CanCancel, CanRequeue, Holds, Commands
<1>3. ASSUME Accepts(c, r)
      PROVE  Effect(c, r) \in Rows /\ Replicated(Effect(c, p)) = Replicated(Effect(c, r))
  <2>1. CASE c.type = "Create"
    BY <2>1 DEF Effect, Created, NoRow, Rows, Replicated
  <2>2. CASE c.type = "Assign"
    BY <2>2 DEF Effect, Assigned, Rows, Commands, Replicated
  <2>3. CASE c.type = "Complete"
    <3>1. Effect(c, r) = Finished(c, r) /\ Effect(c, p) = Finished(c, p)
      BY <2>3 DEF Effect
    <3>2. /\ Finished(c, r) \in Rows /\ Finished(c, p) \in Rows
          /\ Finished(c, r).status = Finished(c, p).status
          /\ Finished(c, r).worker = Finished(c, p).worker
          /\ Finished(c, r).attempt = Finished(c, p).attempt
          /\ Finished(c, r).cancel = Finished(c, p).cancel
      BY <1>1 DEF Finished, Rows, Commands
    <3> QED BY <3>1, <3>2, SameReplicated
  <2>4. CASE c.type = "Cancel"
    <3>1. Effect(c, r) = CancelRequested(c, r) /\ Effect(c, p) = CancelRequested(c, p)
      BY <2>4 DEF Effect
    <3>2. /\ CancelRequested(c, r) \in Rows /\ CancelRequested(c, p) \in Rows
          /\ CancelRequested(c, r).status = CancelRequested(c, p).status
          /\ CancelRequested(c, r).worker = CancelRequested(c, p).worker
          /\ CancelRequested(c, r).attempt = CancelRequested(c, p).attempt
          /\ CancelRequested(c, r).cancel = CancelRequested(c, p).cancel
      BY <1>1 DEF CancelRequested, Rows, Terminal
    <3> QED BY <3>1, <3>2, SameReplicated
  <2>5. CASE c.type = "Requeue"
    <3>1. Effect(c, r) = Requeued(c, r) /\ Effect(c, p) = Requeued(c, p)
      BY <2>5 DEF Effect
    <3>2. /\ Requeued(c, r) \in Rows /\ Requeued(c, p) \in Rows
          /\ Requeued(c, r).status = Requeued(c, p).status
          /\ Requeued(c, r).worker = Requeued(c, p).worker
          /\ Requeued(c, r).attempt = Requeued(c, p).attempt
          /\ Requeued(c, r).cancel = Requeued(c, p).cancel
      BY <1>1 DEF Requeued, Rows, Commands, Terminal
    <3> QED BY <3>1, <3>2, SameReplicated
  <2>6. CASE c.type = "Recover"
    <3>1. Effect(c, r) = Recovered(c, r) /\ Effect(c, p) = Recovered(c, p)
      BY <2>6 DEF Effect
    <3>2. /\ Recovered(c, r) \in Rows /\ Recovered(c, p) \in Rows
          /\ Recovered(c, r).status = Recovered(c, p).status
          /\ Recovered(c, r).worker = Recovered(c, p).worker
          /\ Recovered(c, r).attempt = Recovered(c, p).attempt
          /\ Recovered(c, r).cancel = Recovered(c, p).cancel
      BY <1>1 DEF Recovered, Rows
    <3> QED BY <3>1, <3>2, SameReplicated
  <2> QED BY <2>1, <2>2, <2>3, <2>4, <2>5, <2>6 DEF Commands
<1> QED BY <1>1, <1>2, <1>3 DEF p

LEMMA AfterTypes ==
    ASSUME NEW db \in [Experiments -> Rows], NEW c \in Commands
    PROVE  After(db, c) \in [Experiments -> Rows]
<1>1. c.exp \in Experiments
  BY DEF Commands
<1>2. CASE Accepts(c, db[c.exp])
  BY <1>1, <1>2, StepIsLocal DEF After
<1> QED BY <1>2 DEF After

\* The identifiers of the first k entries do not change, and the next entry
\* has a new one.
LEMMA IdsGrow ==
    ASSUME TypeInv, NEW d \in Entries, log' = Append(log, d), NEW k \in Nat, k <= Len(log)
    PROVE  Ids(k)' = Ids(k)
BY DEF Ids, TypeInv

LEMMA NextIsNew ==
    ASSUME TypeInv, IdInv, NEW k \in Nat, k < Len(log)
    PROVE  /\ log[k + 1].id \notin Ids(k)
           /\ Ids(k + 1) = Ids(k) \cup {log[k + 1].id}
<1>1. ASSUME NEW i \in 1 .. k PROVE log[i].id # log[k + 1].id
  <2>1. Len(log) \in Nat
    BY DEF TypeInv
  <2>2. i \in 1 .. Len(log) /\ k + 1 \in 1 .. Len(log) /\ i # k + 1
    BY <2>1
  <2> QED BY <2>2 DEF IdInv
<1>2. 1 .. k + 1 = (1 .. k) \cup {k + 1}
  OBVIOUS
<1> QED BY <1>1, <1>2 DEF Ids
-----------------------------------------------------------------------------
\* The invariant holds

LEMMA LogEntries ==
    ASSUME TypeInv, NEW i \in 1 .. Len(log)
    PROVE  /\ log[i] \in Entries /\ log[i].id \in Nat
           /\ log[i].command \in Commands /\ log[i].command.exp \in Experiments
<1>1. log[i] \in Entries
  BY DEF TypeInv
<1> QED BY <1>1 DEF Entries, Commands

LEMMA InvInit == Init => IInv
<1> SUFFICES ASSUME Init PROVE IInv
  OBVIOUS
<1>1. NoRow \in Rows /\ Replicated(NoRow) = NoRow
  <2>1. NoRow \in Rows
    BY DEF NoRow, Rows
  <2>2. Replicated(NoRow) = NoRow
    BY <2>1, ReplicatedForm DEF NoRow
  <2> QED BY <2>1, <2>2
<1>2. TypeInv
  BY <1>1 DEF Init, TypeInv
<1>3. IdInv
  BY DEF Init, IdInv
<1>4. HistoryInv
  <2> DEFINE H == [k \in 0 .. Len(log) |-> [e \in Experiments |-> NoRow]]
  <2>1. Len(log) = 0
    BY DEF Init
  <2>2. History(H)
    BY <1>1, <2>1 DEF History
  <2>3. ASSUME NEW n \in Nodes PROVE Reached(n, 0, H)
    <3>1. Ids(0) = {}
      BY DEF Ids
    <3>2. Database(n) = [e \in Experiments |-> NoRow]
      BY <1>1 DEF Init, Database
    <3>3. H[0] = [e \in Experiments |-> NoRow]
      BY <2>1
    <3> QED BY <2>1, <3>1, <3>2, <3>3 DEF Init, Reached
  <2> HIDE DEF H
  <2> QED BY <2>2, <2>3 DEF HistoryInv
<1> QED BY <1>2, <1>3, <1>4 DEF IInv

LEMMA StepTypes == ASSUME IInv, [Next]_vars PROVE TypeInv'
<1> USE DEF IInv, TypeInv
<1>1. CASE UNCHANGED vars
  BY <1>1 DEF vars
<1>2. ASSUME NEW n \in Nodes, Submit(n) PROVE TypeInv'
  <2>1. PICK e \in Experiments : \E c \in Proposals(e, rows[n][e]) :
           open' = open \cup {[id |-> issued, command |-> c]}
    BY <1>2 DEF Submit
  <2>0. PICK c \in Proposals(e, rows[n][e]) :
           open' = open \cup {[id |-> issued, command |-> c]}
    BY <2>1
  <2>2. rows[n][e] \in Rows
    OBVIOUS
  <2>3. c \in Commands
    BY <2>2, ProposalTypes
  <2>4. [id |-> issued, command |-> c] \in Entries
    BY <2>3 DEF Entries
  <2> QED BY <1>2, <2>0, <2>4 DEF Submit
<1>3. ASSUME NEW d \in open, Commit(d) PROVE TypeInv'
  BY <1>3 DEF Commit
<1>4. ASSUME NEW n \in Nodes, Learn(n) PROVE TypeInv'
  BY <1>4 DEF Learn
<1>5. ASSUME NEW n \in Nodes, ReportProgress(n) PROVE TypeInv'
  <2>1. PICK e \in Experiments, s \in 1 .. MaxStep : rows' = [rows EXCEPT ![n][e].step = s]
    BY <1>5 DEF ReportProgress
  <2>2. rows[n][e] \in Rows /\ s \in Nat
    BY ApplierAssumption
  <2>3. [rows[n][e] EXCEPT !.step = s] \in Rows
    BY <2>2 DEF Rows
  <2>4. rows' = [rows EXCEPT ![n] = [rows[n] EXCEPT ![e] = [rows[n][e] EXCEPT !.step = s]]]
    BY <2>1
  <2> QED BY <1>5, <2>3, <2>4 DEF ReportProgress
<1>6. ASSUME NEW n \in Nodes, Apply(n) PROVE TypeInv'
  <2> DEFINE d == log[NextIndex(n)]
             c == d.command
  <2>1. CASE UNCHANGED <<rows, done>>
    BY <1>6, <2>1 DEF Apply
  <2>2. CASE /\ Accepts(c, rows[n][c.exp])
             /\ rows' = [rows EXCEPT ![n][c.exp] = Effect(c, @)]
             /\ done' = [done EXCEPT ![n] = @ \cup {d.id}]
    <3>1. NextIndex(n) \in 1 .. Len(log)
      BY <1>6 DEF Apply, NextIndex, HistoryInv, Reached
    <3>2. d \in Entries /\ c \in Commands /\ c.exp \in Experiments /\ d.id \in Nat
      BY <3>1, LogEntries
    <3>3. rows[n][c.exp] \in Rows
      BY <3>2
    <3>4. Effect(c, rows[n][c.exp]) \in Rows
      BY <2>2, <3>2, <3>3, StepIsLocal
    <3>5. rows' = [rows EXCEPT ![n] = [rows[n] EXCEPT ![c.exp] = Effect(c, rows[n][c.exp])]]
      BY <2>2
    <3> HIDE DEF d, c
    <3> QED BY <1>6, <2>2, <3>2, <3>4, <3>5 DEF Apply
  <2> QED BY <1>6, <2>1, <2>2 DEF Apply
<1>7. ASSUME NEW n \in Nodes, MarkApplied(n) PROVE TypeInv'
  BY <1>7 DEF MarkApplied, NextIndex
<1>8. ASSUME NEW n \in Nodes, Restart(n) PROVE TypeInv'
  BY <1>8 DEF Restart
<1> QED BY <1>1, <1>2, <1>3, <1>4, <1>5, <1>6, <1>7, <1>8 DEF Next, NodeStep

LEMMA StepIds == ASSUME IInv, [Next]_vars PROVE IdInv'
<1>1. ASSUME NEW n \in Nodes, Submit(n) PROVE IdInv'
  <2>1. PICK c : open' = open \cup {[id |-> issued, command |-> c]}
    BY <1>1 DEF Submit
  <2> DEFINE d == [id |-> issued, command |-> c]
  <2>2. d.id = issued /\ open' = open \cup {d} /\ log' = log /\ issued' = issued + 1
    BY <1>1, <2>1 DEF Submit
  <2> HIDE DEF d
  <2>3. /\ issued \in Nat /\ \A g \in open : g.id \in Nat
        /\ \A i \in 1 .. Len(log) : log[i].id \in Nat
    BY LogEntries DEF IInv, TypeInv, Entries
  <2> QED BY <2>2, <2>3 DEF IInv, IdInv
<1>2. ASSUME NEW d \in open, Commit(d) PROVE IdInv'
  <2>1. /\ log \in Seq(Entries) /\ d \in Entries
        /\ log' = Append(log, d) /\ open' = open \ {d} /\ issued' = issued
    BY <1>2 DEF Commit, IInv, TypeInv
  <2>2. /\ Len(log) \in Nat /\ Len(log') = Len(log) + 1
        /\ \A i \in 1 .. Len(log) : log'[i] = log[i]
        /\ log'[Len(log) + 1] = d
        /\ 1 .. Len(log') = (1 .. Len(log)) \cup {Len(log) + 1}
    BY <2>1
  <2> QED BY <2>1, <2>2 DEF IInv, IdInv
<1>3. CASE UNCHANGED <<log, open, issued>>
  BY <1>3 DEF IInv, IdInv
<1>4. ASSUME NEW n \in Nodes, NodeStep(n), ~ Submit(n) PROVE UNCHANGED <<log, open, issued>>
  BY <1>4 DEF NodeStep, Learn, ReportProgress, Apply, MarkApplied, Restart
<1>5. UNCHANGED vars => UNCHANGED <<log, open, issued>>
  BY DEF vars
<1> QED BY <1>1, <1>2, <1>3, <1>4, <1>5 DEF Next

\* What the node's own step does not touch stays as it is.
LEMMA OthersStay ==
    ASSUME NEW n \in Nodes, NEW m \in Nodes \ {n}, TypeInv, NEW k \in Nat, NEW H,
           Reached(m, k, H), log' = log,
           commit'[m] = commit[m], applied'[m] = applied[m], rows'[m] = rows[m],
           done'[m] = done[m], mid'[m] = mid[m]
    PROVE  Reached(m, k, H)'
BY DEF Reached, Database, Ids

LEMMA StepHistory == ASSUME IInv, [Next]_vars PROVE HistoryInv'
<1>1. PICK H : History(H) /\ \A n \in Nodes : \E k \in Nat : Reached(n, k, H)
  BY DEF IInv, HistoryInv
<1>2. TypeInv /\ IdInv /\ Len(log) \in Nat
  BY DEF IInv, TypeInv
<1>3. ASSUME log' = log PROVE History(H)'
  BY <1>1, <1>3 DEF History
<1>4. ASSUME log' = log, \A n \in Nodes : \E k \in Nat : Reached(n, k, H)'
      PROVE  HistoryInv'
  BY <1>3, <1>4 DEF HistoryInv
<1>5. CASE UNCHANGED vars
  <2>1. ASSUME NEW n \in Nodes, NEW k \in Nat, Reached(n, k, H) PROVE Reached(n, k, H)'
    BY <1>5, <2>1 DEF vars, Reached, Database, Ids
  <2> QED BY <1>1, <1>4, <1>5, <2>1 DEF vars
<1>6. ASSUME NEW n \in Nodes, Submit(n) PROVE HistoryInv'
  <2>1. ASSUME NEW m \in Nodes, NEW k \in Nat, Reached(m, k, H) PROVE Reached(m, k, H)'
    BY <1>6, <2>1 DEF Submit, Reached, Database, Ids
  <2> QED BY <1>1, <1>4, <1>6, <2>1 DEF Submit
<1>7. ASSUME NEW n \in Nodes, Learn(n) PROVE HistoryInv'
  <2>1. ASSUME NEW m \in Nodes, NEW k \in Nat, Reached(m, k, H) PROVE Reached(m, k, H)'
    <3>1. CASE m # n
      BY <1>2, <1>7, <2>1, <3>1, OthersStay DEF Learn, TypeInv
    <3>2. CASE m = n
      BY <1>2, <1>7, <2>1, <3>2 DEF Learn, Reached, Database, Ids, TypeInv
    <3> QED BY <3>1, <3>2
  <2> QED BY <1>1, <1>4, <1>7, <2>1 DEF Learn
<1>8. ASSUME NEW n \in Nodes, ReportProgress(n) PROVE HistoryInv'
  <2>1. PICK e \in Experiments, s \in 1 .. MaxStep : rows' = [rows EXCEPT ![n][e].step = s]
    BY <1>8 DEF ReportProgress
  <2>2. s \in Nat /\ rows[n][e] \in Rows
    BY <1>2, ApplierAssumption DEF TypeInv
  <2>3. /\ rows'[n] = [rows[n] EXCEPT ![e] = [rows[n][e] EXCEPT !.step = s]]
        /\ \A m \in Nodes \ {n} : rows'[m] = rows[m]
    BY <1>2, <2>1 DEF TypeInv
  <2>4. Replicated([rows[n][e] EXCEPT !.step = s]) = Replicated(rows[n][e])
    <3>1. /\ [rows[n][e] EXCEPT !.step = s] \in Rows
          /\ [rows[n][e] EXCEPT !.step = s].status = rows[n][e].status
          /\ [rows[n][e] EXCEPT !.step = s].worker = rows[n][e].worker
          /\ [rows[n][e] EXCEPT !.step = s].attempt = rows[n][e].attempt
          /\ [rows[n][e] EXCEPT !.step = s].cancel = rows[n][e].cancel
      BY <2>2 DEF Rows
    <3> QED BY <2>2, <3>1, SameReplicated
  <2>5. ASSUME NEW f \in Experiments PROVE Replicated(rows'[n][f]) = Replicated(rows[n][f])
    BY <1>2, <2>3, <2>4 DEF TypeInv
  <2>6. Database(n)' = Database(n)
    BY <2>5 DEF Database
  <2>7. ASSUME NEW m \in Nodes, NEW k \in Nat, Reached(m, k, H) PROVE Reached(m, k, H)'
    <3>1. CASE m # n
      BY <1>2, <1>8, <2>3, <2>7, <3>1, OthersStay DEF ReportProgress
    <3>2. CASE m = n
      BY <1>8, <2>6, <2>7, <3>2 DEF ReportProgress, Reached, Ids
    <3> QED BY <3>1, <3>2
  <2> QED BY <1>1, <1>4, <1>8, <2>7 DEF ReportProgress
<1>9. ASSUME NEW n \in Nodes, MarkApplied(n) PROVE HistoryInv'
  <2>1. ASSUME NEW m \in Nodes, NEW k \in Nat, Reached(m, k, H) PROVE Reached(m, k, H)'
    <3>1. CASE m # n
      BY <1>2, <1>9, <2>1, <3>1, OthersStay DEF MarkApplied, TypeInv
    <3>2. CASE m = n
      BY <1>2, <1>9, <2>1, <3>2 DEF MarkApplied, NextIndex, Reached, Database, Ids, TypeInv
    <3> QED BY <3>1, <3>2
  <2> QED BY <1>1, <1>4, <1>9, <2>1 DEF MarkApplied
<1>10. ASSUME NEW n \in Nodes, Restart(n) PROVE HistoryInv'
  <2>1. ASSUME NEW m \in Nodes, NEW k \in Nat, Reached(m, k, H) PROVE Reached(m, k, H)'
    <3>1. CASE m # n
      BY <1>2, <1>10, <2>1, <3>1, OthersStay DEF Restart, TypeInv
    <3>2. CASE m = n
      BY <1>2, <1>10, <2>1, <3>2 DEF Restart, Reached, Database, Ids, TypeInv
    <3> QED BY <3>1, <3>2
  <2> QED BY <1>1, <1>4, <1>10, <2>1 DEF Restart
<1>11. ASSUME NEW n \in Nodes, Apply(n) PROVE HistoryInv'
  <2> DEFINE d == log[NextIndex(n)]
             c == d.command
  <2>0. PICK a : a = applied[n]
    OBVIOUS
  <2>1. PICK k \in Nat : Reached(n, k, H)
    BY <1>1
  <2>2. /\ a \in Nat /\ commit[n] \in Nat /\ ~ mid[n] /\ a < commit[n] /\ commit[n] <= Len(log)
        /\ NextIndex(n) = a + 1 /\ a + 1 \in 1 .. Len(log)
    BY <1>2, <1>11, <2>0, <2>1 DEF Apply, NextIndex, Reached, TypeInv
  <2>3. /\ d.id \notin Ids(a) /\ Ids(a + 1) = Ids(a) \cup {d.id}
        /\ c \in Commands /\ c.exp \in Experiments
    BY <1>2, <2>2, NextIsNew, LogEntries
  <2>4. /\ mid'[n] = TRUE /\ applied' = applied /\ commit' = commit /\ log' = log
        /\ \A m \in Nodes \ {n} : mid'[m] = mid[m]
    BY <1>2, <1>11 DEF Apply, TypeInv
  <2>5. CASE AlreadyApplied(n, d) /\ UNCHANGED <<rows, done>>
    <3>1. k = a + 1
      BY <2>0, <2>1, <2>2, <2>3, <2>5 DEF AlreadyApplied, Reached
    <3>2. Reached(n, k, H)'
      BY <2>0, <2>1, <2>4, <2>5, <3>1 DEF Reached, Database, Ids
    <3>3. ASSUME NEW m \in Nodes \ {n}, NEW j \in Nat, Reached(m, j, H)
          PROVE  Reached(m, j, H)'
      BY <1>2, <2>4, <2>5, <3>3, OthersStay
    <3> QED BY <1>1, <1>4, <2>4, <3>2, <3>3
  <2>6. CASE /\ ~ AlreadyApplied(n, d) /\ Accepts(c, rows[n][c.exp])
             /\ rows' = [rows EXCEPT ![n][c.exp] = Effect(c, @)]
             /\ done' = [done EXCEPT ![n] = @ \cup {d.id}]
    <3>1. k = a
      BY <2>0, <2>1, <2>2, <2>3, <2>6 DEF AlreadyApplied, Reached
    <3>2. /\ rows'[n] = [rows[n] EXCEPT ![c.exp] = Effect(c, rows[n][c.exp])]
          /\ done'[n] = Ids(a + 1)
          /\ \A m \in Nodes \ {n} : rows'[m] = rows[m] /\ done'[m] = done[m]
      BY <1>2, <2>1, <2>3, <2>6, <3>1 DEF TypeInv, Reached
    <3>3. H[a + 1] = After(H[a], c)
      BY <1>1, <2>2 DEF History
    <3>4. H[a] = Database(n) /\ rows[n] \in [Experiments -> Rows]
      BY <1>2, <2>1, <3>1 DEF Reached, TypeInv
    <3> HIDE DEF c, d
    <3>5. Database(n)[c.exp] = Replicated(rows[n][c.exp])
      BY <2>3 DEF Database
    <3>6. After(Database(n), c)
            = [Database(n) EXCEPT ![c.exp] = Replicated(Effect(c, rows[n][c.exp]))]
      BY <2>3, <2>6, <3>4, <3>5, StepIsLocal DEF After
    <3>7. Database(n)'
            = [Database(n) EXCEPT ![c.exp] = Replicated(Effect(c, rows[n][c.exp]))]
      BY <2>3, <3>2, <3>4 DEF Database
    <3>8. Database(n)' = H[a + 1]
      BY <3>3, <3>4, <3>6, <3>7
    <3>9. Reached(n, a + 1, H)'
      <4>1. Ids(a + 1)' = Ids(a + 1)
        BY <2>4 DEF Ids
      <4> QED BY <2>0, <2>2, <2>4, <3>2, <3>8, <4>1 DEF Reached
    <3>10. ASSUME NEW m \in Nodes \ {n}, NEW j \in Nat, Reached(m, j, H)
           PROVE  Reached(m, j, H)'
      BY <1>2, <2>4, <3>2, <3>10, OthersStay
    <3> QED BY <1>1, <1>4, <2>2, <2>4, <3>9, <3>10
  <2> QED BY <1>11, <2>5, <2>6 DEF Apply
<1>12. ASSUME NEW d \in open, Commit(d) PROVE HistoryInv'
  <2>0. PICK L : L = Len(log)
    OBVIOUS
  <2> DEFINE F == [k \in 0 .. L + 1 |-> IF k <= L THEN H[k] ELSE After(H[L], d.command)]
  <2>1. /\ log' = Append(log, d) /\ UNCHANGED <<commit, applied, rows, done, mid>>
        /\ d \in Entries /\ d.command \in Commands
        /\ L \in Nat /\ Len(log') = L + 1
        /\ \A i \in 1 .. L : log'[i] = log[i]
        /\ log'[L + 1] = d
    BY <1>2, <1>12, <2>0 DEF Commit, TypeInv, Entries
  <2>2. /\ H \in [0 .. L -> [Experiments -> Rows]] /\ H[0] = [e \in Experiments |-> NoRow]
        /\ \A k \in 1 .. L : H[k] = After(H[k - 1], log[k].command)
    BY <1>1, <2>0 DEF History
  <2>3. PICK G : /\ \A k \in 0 .. L : G[k] = H[k]
                 /\ G[L + 1] = After(H[L], d.command)
                 /\ G \in [0 .. L + 1 -> [Experiments -> Rows]]
    <3>1. After(H[L], d.command) \in [Experiments -> Rows]
      BY <2>1, <2>2, AfterTypes
    <3>2. \A k \in 0 .. L : F[k] = H[k]
      BY <2>1
    <3>3. F[L + 1] = After(H[L], d.command)
      BY <2>1
    <3>4. ASSUME NEW k \in 0 .. L + 1
          PROVE  (IF k <= L THEN H[k] ELSE After(H[L], d.command)) \in [Experiments -> Rows]
      BY <2>1, <2>2, <3>1
    <3>5. F \in [0 .. L + 1 -> [Experiments -> Rows]]
      BY <3>4
    <3> QED BY <3>2, <3>3, <3>5
  <2>4. ASSUME NEW k \in 1 .. L + 1 PROVE G[k] = After(G[k - 1], log'[k].command)
    <3>1. CASE k \in 1 .. L
      <4>1. k - 1 \in 0 .. L /\ k \in 0 .. L
        BY <2>1, <3>1
      <4> QED BY <2>1, <2>2, <2>3, <3>1, <4>1
    <3>2. CASE k = L + 1
      <4>1. k - 1 = L /\ L \in 0 .. L
        BY <2>1, <3>2
      <4> QED BY <2>1, <2>3, <3>2, <4>1
    <3> QED BY <2>1, <3>1, <3>2
  <2>5. History(G)'
    BY <2>0, <2>1, <2>2, <2>3, <2>4 DEF History
  <2>6. ASSUME NEW n \in Nodes, NEW k \in Nat, Reached(n, k, H) PROVE Reached(n, k, G)'
    <3>1. k <= L /\ commit[n] \in Nat /\ commit[n] <= L
      BY <1>2, <2>0, <2>1, <2>6 DEF Reached, TypeInv
    <3>2. Ids(k)' = Ids(k)
      BY <1>2, <2>0, <2>1, <3>1, IdsGrow
    <3> QED BY <2>0, <2>1, <2>3, <2>6, <3>1, <3>2 DEF Reached, Database
  <2> QED BY <1>1, <2>5, <2>6 DEF HistoryInv
<1> QED BY <1>5, <1>6, <1>7, <1>8, <1>9, <1>10, <1>11, <1>12 DEF Next, NodeStep

\* The inductive invariant: the database of every coordinator is a state of
\* the history that the committed log determines.
THEOREM AppliedHistory == Spec => []IInv
<1>1. IInv /\ [Next]_vars => IInv'
  BY StepTypes, StepIds, StepHistory DEF IInv
<1> QED BY <1>1, InvInit, PTL DEF Spec

\* Coordinators with the same LastApplied have the same experiments, for any
\* number of coordinators, commands, repeated applications and crashes.
THEOREM DatabasesAgree == Spec => []ReplicasAgree
<1>1. ASSUME IInv PROVE ReplicasAgree
  <2> SUFFICES ASSUME NEW n \in Nodes, NEW m \in Nodes, Settled(n), Settled(m),
                      applied[n] = applied[m], NEW e \in Experiments
               PROVE  Replicated(rows[n][e]) = Replicated(rows[m][e])
    BY DEF ReplicasAgree
  <2>1. PICK H : \A x \in Nodes : \E k \in Nat : Reached(x, k, H)
    BY <1>1 DEF IInv, HistoryInv
  <2>2. ASSUME NEW x \in Nodes, Settled(x) PROVE Database(x) = H[applied[x]]
    <3>1. PICK k \in Nat : Reached(x, k, H)
      BY <2>1
    <3>2. CASE k = applied[x] + 1
      <4>1. applied[x] \in Nat /\ applied[x] < Len(log)
        BY <1>1, <3>1, <3>2 DEF IInv, TypeInv, Reached
      <4>2. log[applied[x] + 1].id \notin Ids(applied[x]) /\ log[applied[x] + 1].id \in Ids(k)
        BY <1>1, <3>2, <4>1, NextIsNew DEF IInv
      <4> QED BY <2>2, <3>1, <4>2 DEF Settled, Reached
    <3> QED BY <3>1, <3>2 DEF Reached
  <2>3. Database(n) = Database(m)
    BY <2>2
  <2>4. Database(n)[e] = Replicated(rows[n][e]) /\ Database(m)[e] = Replicated(rows[m][e])
    BY DEF Database
  <2> QED BY <2>3, <2>4
<1> QED BY <1>1, AppliedHistory, PTL
=============================================================================
