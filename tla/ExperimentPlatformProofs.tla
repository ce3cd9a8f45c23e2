---------------------- MODULE ExperimentPlatformProofs ----------------------
(***************************************************************************)
(* Theorems about ExperimentPlatform for any number of experiments,        *)
(* workers, calls in progress and faults.                                  *)
(***************************************************************************)
EXTENDS ExperimentPlatform, TLAPS

-----------------------------------------------------------------------------
\* Types

Rows ==
    [status : {"Missing", "Pending", "Running"} \cup Terminal,
     worker : Workers \cup {Nobody}, attempt : Nat, cancel : BOOLEAN, step : Nat]

Kinds == {"Create", "Assign", "Complete", "Cancel", "Requeue", "Recover", "Progress"}

Commands ==
    [type : Kinds, exp : Experiments, worker : Workers \cup {Nobody}, attempt : Nat,
     cancel : BOOLEAN, outcome : Terminal, step : Nat]

Calls == [by : {"http", "scheduler", "recovery", "startup"}, command : Commands]

Phases == {"starting", "idle", "executing", "reporting", "waiting"}

Jobs ==
    [phase : Phases, exp : Experiments \cup {NoExperiment}, attempt : Nat,
     stop : BOOLEAN, outcome : Terminal, step : Nat]

Starts == [exp : Experiments, worker : Workers, attempt : Nat]

TypeInv ==
    /\ row \in [Experiments -> Rows]
    /\ starts \subseteq Starts
    /\ calls \subseteq Calls
    /\ seen \in [Workers -> {"unknown", "online", "offline"}]
    /\ sched \in [todo : SUBSET Workers, at : Workers \cup {Nobody}]
    /\ sweep \subseteq Commands
    /\ boot \in [read : BOOLEAN, list : SUBSET Experiments]
    /\ job \in [Workers -> Jobs]

\* An experiment without a row has the row NoRow, and an Assign command in
\* progress names a worker.
RowInv ==
    /\ \A e \in Experiments : row[e].status = "Missing" => row[e] = NoRow
    /\ \A d \in calls : d.command.type = "Assign" => d.command.worker \in Workers
    /\ \A d \in calls : d.command.type # "Create"
    /\ \A c \in sweep : c.type = "Requeue"

\* The event table has every start once: an attempt number of an experiment
\* is given out with one worker, and none is above the row's.
StartsInv ==
    /\ \A s, t \in starts : s.exp = t.exp /\ s.attempt = t.attempt => s = t
    /\ \A s \in starts : s.attempt <= row[s.exp].attempt

Start(e, w, a) == [exp |-> e, worker |-> w, attempt |-> a]

\* What runs, and what a worker works on, has been started with it.
HolderInv ==
    /\ \A e \in Running : Start(e, row[e].worker, row[e].attempt) \in starts
    /\ \A w \in Workers : Busy(w) => Start(job[w].exp, w, job[w].attempt) \in starts

PInv == TypeInv /\ RowInv /\ StartsInv /\ HolderInv

\* While clients do not assign, every Assign command is the scheduler's only
\* one, for the worker it is at, and this worker has nothing running.
SchedulerInv ==
    /\ \A d \in calls : d.command.type = "Assign" => d.by = "scheduler"
    /\ \A d \in CallsBy("scheduler") :
         d.command.type = "Assign" /\ d.command.worker = sched.at
    /\ \A d, g \in CallsBy("scheduler") : d = g
    /\ sched.at # Nobody => \A e \in Running : row[e].worker # sched.at

SInv == PInv /\ SchedulerInv /\ OneRunningPerWorker
-----------------------------------------------------------------------------
\* What a command does to its row

LEMMA NoRowIsRow == NoRow \in Rows /\ Created \in Rows
BY DEF NoRow, Created, Rows, Terminal

LEMMA CommandTypes ==
    ASSUME NEW e \in Experiments, NEW w \in Workers \cup {Nobody}, NEW a \in Nat
    PROVE  /\ CancelCommand(e) \in Commands
           /\ \A r \in Rows : /\ AssignCommand(e, r, w) \in Commands
                              /\ RequeueCommand(e, r) \in Commands
                              /\ RecoverCommand(e, r) \in Commands
           /\ \A o \in Terminal : CompleteCommand(e, w, a, o) \in Commands
           /\ \A s \in Nat : ProgressCommand(e, w, a, s) \in Commands
<1> USE DEF Commands, Kinds, Terminal, Rows, Command
<1>1. CancelCommand(e) \in Commands
  BY DEF CancelCommand
<1>2. ASSUME NEW r \in Rows PROVE AssignCommand(e, r, w) \in Commands
  BY DEF AssignCommand
<1>3. ASSUME NEW r \in Rows PROVE RequeueCommand(e, r) \in Commands
  BY DEF RequeueCommand
<1>4. ASSUME NEW r \in Rows PROVE RecoverCommand(e, r) \in Commands
  BY DEF RecoverCommand
<1>5. ASSUME NEW o \in Terminal PROVE CompleteCommand(e, w, a, o) \in Commands
  BY DEF CompleteCommand
<1>6. ASSUME NEW s \in Nat PROVE ProgressCommand(e, w, a, s) \in Commands
  BY DEF ProgressCommand
<1> QED BY <1>1, <1>2, <1>3, <1>4, <1>5, <1>6

\* An accepted command makes one of these moves, and only Assign starts the
\* experiment, with the attempt after the row's.
LEMMA Effects ==
    ASSUME NEW c \in Commands, NEW r \in Rows, Accepts(c, r),
           c.type # "Create"
    PROVE  LET s == Effect(c, r)
           IN  /\ s \in Rows
               /\ r.status # "Missing" /\ s.status # "Missing"
               /\ c.type = "Assign" =>
                    /\ r.status = "Pending" /\ s.status = "Running"
                    /\ s.worker = c.worker
                    /\ s.attempt = r.attempt + 1 /\ s.attempt = c.attempt
               /\ c.type # "Assign" =>
                    /\ s.attempt = r.attempt
                    /\ s.status = "Running" =>
                         r.status = "Running" /\ s.worker = r.worker
                    /\ \/ s.status = r.status
                       \/ r.status = "Running" /\ s.status = "Pending"
                       \/ r.status = "Running" /\ s.status \in Terminal
                       \/ r.status = "Pending" /\ s.status = "Cancelled"
                    /\ r.cancel => s.cancel
<1> DEFINE s == Effect(c, r)
<1> USE DEF Accepts, Effect, Rows, Commands, Terminal
<1>1. CASE c.type = "Assign"
  <2>1. s = Assigned(c, r) /\ CanAssign(c, r)
    BY <1>1
  <2> QED BY <1>1, <2>1 DEF Assigned, CanAssign
<1>2. CASE c.type = "Complete"
  <2>1. s = Finished(c, r) /\ CanComplete(c, r)
    BY <1>2
  <2> QED BY <1>2, <2>1 DEF Finished, CanComplete, Holds
<1>3. CASE c.type = "Cancel"
  <2>1. s = CancelRequested(c, r) /\ CanCancel(c, r)
    BY <1>3
  <2> QED BY <1>3, <2>1 DEF CancelRequested, CanCancel
<1>4. CASE c.type = "Requeue"
  <2>1. s = Requeued(c, r) /\ CanRequeue(c, r)
    BY <1>4
  <2> QED BY <1>4, <2>1 DEF Requeued, CanRequeue, Holds
<1>5. CASE c.type = "Recover"
  <2>1. s = Recovered(c, r) /\ Holds(c, r)
    BY <1>5
  <2> QED BY <1>5, <2>1 DEF Recovered, Holds
<1>6. CASE c.type = "Progress"
  <2>1. s = Reported(c, r) /\ CanReport(c, r)
    BY <1>6
  <2> QED BY <1>6, <2>1 DEF Reported, CanReport, Holds
<1> QED BY <1>1, <1>2, <1>3, <1>4, <1>5, <1>6 DEF Kinds
-----------------------------------------------------------------------------
\* The invariant holds

LEMMA NoJobIsJob == ASSUME NEW p \in Phases PROVE NoJob(p) \in Jobs
BY DEF NoJob, Jobs, Terminal

LEMMA PInvInit == Init => PInv
<1> SUFFICES ASSUME Init PROVE PInv
  OBVIOUS
<1> USE DEF Init, NoCycle
<1>1. TypeInv
  BY NoRowIsRow, NoJobIsJob DEF TypeInv, Phases
<1>2. RowInv
  BY DEF RowInv
<1>3. StartsInv
  BY DEF StartsInv
<1>4. HolderInv
  BY DEF HolderInv, Running, NoRow, Busy, NoJob
<1> QED BY <1>1, <1>2, <1>3, <1>4 DEF PInv

\* What a step that leaves rows and starts alone does to jobs and calls.
Quiet ==
    /\ UNCHANGED <<row, starts>>
    /\ seen' \in [Workers -> {"unknown", "online", "offline"}]
    /\ sched' \in [todo : SUBSET Workers, at : Workers \cup {Nobody}]
    /\ sweep' \subseteq {c \in Commands : c.type = "Requeue"}
    /\ boot' \in [read : BOOLEAN, list : SUBSET Experiments]
    /\ \A d \in calls' : \/ d \in calls
                         \/ /\ d \in Calls /\ d.command.type # "Create"
                            /\ d.command.type = "Assign" => d.command.worker \in Workers
    /\ job' \in [Workers -> Jobs]
    /\ \A w \in Workers : Busy(w)' =>
         \/ Busy(w) /\ job'[w].exp = job[w].exp /\ job'[w].attempt = job[w].attempt
         \/ \E e \in Running : /\ row[e].worker = w
                               /\ job'[w].exp = e /\ job'[w].attempt = row[e].attempt

LEMMA QuietKeeps == ASSUME PInv, Quiet PROVE PInv'
<1> USE DEF PInv, Quiet
<1>1. TypeInv'
  BY DEF TypeInv
<1>2. RowInv'
  BY DEF RowInv, TypeInv
<1>3. StartsInv'
  BY DEF StartsInv
<1>4. HolderInv'
  BY DEF HolderInv, Running
<1> QED BY <1>1, <1>2, <1>3, <1>4

\* The jobs that are busy name an experiment.
LEMMA BusyJobs ==
    ASSUME PInv, NEW w \in Workers, Busy(w)
    PROVE  job[w] \in Jobs /\ job[w].exp \in Experiments
<1>1. Start(job[w].exp, w, job[w].attempt) \in Starts
  BY DEF PInv, TypeInv, HolderInv
<1> QED BY <1>1 DEF PInv, TypeInv, Start, Starts

LEMMA ClientQuiet ==
    ASSUME PInv, NEW e \in Experiments,
           Cancel(e) \/ \E w \in Workers : Assign(e, w)
    PROVE  Quiet
<1> USE DEF PInv, TypeInv, Quiet, RowInv, services
<1>1. CASE Cancel(e)
  <2>1. CancelCommand(e) \in Commands /\ CancelCommand(e).type = "Cancel"
    BY CommandTypes DEF CancelCommand, Command
  <2> QED BY <1>1, <2>1 DEF Cancel, HttpCall, Call, Calls, Busy
<1>2. ASSUME NEW w \in Workers, Assign(e, w) PROVE Quiet
  <2>1. /\ AssignCommand(e, row[e], w) \in Commands
        /\ AssignCommand(e, row[e], w).type = "Assign"
        /\ AssignCommand(e, row[e], w).worker = w
    BY CommandTypes DEF AssignCommand, Command
  <2> QED BY <1>2, <2>1 DEF Assign, HttpCall, Call, Calls, Busy
<1> QED BY <1>1, <1>2

LEMMA ServiceQuiet == ASSUME PInv, ServiceStep PROVE Quiet
<1> USE DEF PInv, TypeInv, Quiet, RowInv
<1>1. CASE BeginScheduling
  BY <1>1 DEF BeginScheduling, Busy
<1>2. ASSUME NEW w \in Workers, VisitWorker(w) PROVE Quiet
  BY <1>2 DEF VisitWorker, Busy
<1>3. CASE AssignNext
  <2>1. CASE UNCHANGED calls
    BY <1>3, <2>1 DEF AssignNext, Busy
  <2>2. ASSUME NEW e \in NextPending, Call("scheduler", AssignCommand(e, row[e], sched.at)),
               UNCHANGED sched
        PROVE  Quiet
    <3>1. e \in Experiments /\ sched.at \in Workers
      BY <1>3 DEF AssignNext, NextPending
    <3>2. /\ AssignCommand(e, row[e], sched.at) \in Commands
          /\ AssignCommand(e, row[e], sched.at).type = "Assign"
          /\ AssignCommand(e, row[e], sched.at).worker = sched.at
      BY <3>1, CommandTypes DEF AssignCommand, Command
    <3> QED BY <1>3, <2>2, <3>1, <3>2 DEF AssignNext, Call, Calls, Busy
  <2> QED BY <1>3, <2>1, <2>2 DEF AssignNext
<1>4. CASE BeginRecovery
  <2>1. ASSUME NEW e \in Running
        PROVE  /\ RequeueCommand(e, row[e]) \in Commands
               /\ RequeueCommand(e, row[e]).type = "Requeue"
    BY CommandTypes DEF RequeueCommand, Command, Running
  <2> QED BY <1>4, <2>1 DEF BeginRecovery, Busy
<1>5. CASE BeginStartupRecovery
  BY <1>5 DEF BeginStartupRecovery, Running, Busy
<1>6. ASSUME NEW c \in sweep, RecoverFromWorker(c) PROVE Quiet
  BY <1>6 DEF RecoverFromWorker, Call, Calls, Busy
<1>7. ASSUME NEW e \in Experiments, RecoverOnStartup(e) PROVE Quiet
  <2>1. /\ RecoverCommand(e, row[e]) \in Commands
        /\ RecoverCommand(e, row[e]).type = "Recover"
    BY CommandTypes DEF RecoverCommand, Command
  <2> QED BY <1>7, <2>1 DEF RecoverOnStartup, Call, Calls, Busy
<1> QED BY <1>1, <1>2, <1>3, <1>4, <1>5, <1>6, <1>7 DEF ServiceStep

LEMMA ReportingIsJob ==
    ASSUME NEW j \in Jobs, NEW o \in Terminal
    PROVE  [j EXCEPT !.phase = "reporting", !.outcome = o] \in Jobs
BY DEF Jobs, Phases

LEMMA WorkerQuiet ==
    ASSUME PInv, NEW w \in Workers, WorkerStep(w) \/ ExecutionStep(w)
    PROVE  Quiet
<1> USE DEF PInv, TypeInv, Quiet, RowInv, services
<1>0. \A p \in Phases : NoJob(p) \in Jobs /\ NoJob(p).phase = p
  BY NoJobIsJob DEF NoJob
<1>1. CASE Register(w)
  BY <1>0, <1>1 DEF Register, Busy, Phases
<1>2. CASE Heartbeat(w)
  BY <1>2 DEF Heartbeat, Busy
<1>3. CASE OnlineTimeout(w)
  BY <1>3 DEF OnlineTimeout, Busy
<1>4. CASE Poll(w)
  <2>1. PICK e \in NextFor(w) :
          job' = [job EXCEPT ![w] =
                    [NoJob("executing") EXCEPT !.exp = e, !.attempt = row[e].attempt]]
    BY <1>4 DEF Poll
  <2>2. e \in Running /\ e \in Experiments /\ row[e].worker = w /\ row[e].attempt \in Nat
    BY DEF NextFor, Running, Rows
  <2>3. /\ job' \in [Workers -> Jobs]
        /\ job'[w].exp = e /\ job'[w].attempt = row[e].attempt
        /\ \A v \in Workers \ {w} : job'[v] = job[v]
    BY <1>0, <2>1, <2>2 DEF Jobs, Phases, NoJob
  <2> QED BY <1>4, <2>2, <2>3 DEF Poll, Busy
<1>5. CASE FinishExecution(w)
  <2>1. PICK o \in Terminal : job' = [job EXCEPT ![w].phase = "reporting", ![w].outcome = o]
    BY <1>5 DEF FinishExecution
  <2>2. /\ job' \in [Workers -> Jobs]
        /\ job'[w].exp = job[w].exp /\ job'[w].attempt = job[w].attempt
        /\ \A v \in Workers \ {w} : job'[v] = job[v]
    <3>1. job' = [job EXCEPT ![w] = [job[w] EXCEPT !.phase = "reporting", !.outcome = o]]
      BY <2>1
    <3>2. [job[w] EXCEPT !.phase = "reporting", !.outcome = o] \in Jobs
      BY ReportingIsJob
    <3> QED BY <3>1, <3>2 DEF Jobs
  <2> QED BY <1>5, <2>2 DEF FinishExecution, Busy
<1>6. CASE PostResult(w)
  <2>1. Busy(w) /\ job[w] \in Jobs /\ job[w].exp \in Experiments
    BY <1>6, BusyJobs DEF PostResult, Busy
  <2>2. CASE /\ HttpCall(Report(w))
             /\ job' = [job EXCEPT ![w].phase = "waiting"]
    <3>1. Report(w) \in Commands /\ Report(w).type = "Complete"
      <4>1. job[w].attempt \in Nat /\ job[w].outcome \in Terminal
        BY <2>1 DEF Jobs
      <4>2. Report(w) \in Commands
        BY <2>1, <4>1, CommandTypes DEF Report
      <4> QED BY <4>2 DEF Report, CompleteCommand, Command
    <3>2. /\ job' \in [Workers -> Jobs]
          /\ job'[w].exp = job[w].exp /\ job'[w].attempt = job[w].attempt
          /\ \A v \in Workers \ {w} : job'[v] = job[v]
      BY <2>2 DEF Jobs, Phases
    <3> QED BY <1>6, <2>1, <2>2, <3>1, <3>2 DEF PostResult, HttpCall, Call, Calls, Busy
  <2>3. CASE job' = [job EXCEPT ![w] = NoJob("idle")] /\ UNCHANGED calls
    BY <1>0, <1>6, <2>3 DEF PostResult, Busy, Phases
  <2> QED BY <1>6, <2>2, <2>3 DEF PostResult
<1>7. CASE LoseResult(w)
  BY <1>0, <1>7 DEF LoseResult, Busy, Phases
<1>8. CASE WorkerCrash(w)
  BY <1>0, <1>8 DEF WorkerCrash, Busy, Phases
<1>9. CASE ReportProgress(w)
  <2>1. Busy(w) /\ job[w] \in Jobs /\ job[w].exp \in Experiments
    BY <1>9, BusyJobs DEF ReportProgress, Busy
  <2> DEFINE c == ProgressCommand(job[w].exp, w, job[w].attempt, job[w].step + 1)
  <2>2. c \in Commands /\ c.type = "Progress"
    <3>1. job[w].attempt \in Nat /\ job[w].step + 1 \in Nat
      BY <2>1 DEF Jobs
    <3>2. c \in Commands
      BY <2>1, <3>1, CommandTypes
    <3> QED BY <3>2 DEF ProgressCommand, Command
  <2>3. /\ job' \in [Workers -> Jobs]
        /\ job'[w].exp = job[w].exp /\ job'[w].attempt = job[w].attempt
        /\ \A v \in Workers \ {w} : job'[v] = job[v]
    BY <1>9 DEF ReportProgress, Jobs, Phases
  <2> HIDE DEF c
  <2>4. HttpCall(c)
    BY <1>9 DEF ReportProgress, c
  <2> QED BY <1>9, <2>1, <2>2, <2>3, <2>4 DEF ReportProgress, HttpCall, Call, Calls, Busy
<1>10. CASE MonitorCancellation(w)
  <2>1. /\ job' \in [Workers -> Jobs]
        /\ job'[w].exp = job[w].exp /\ job'[w].attempt = job[w].attempt
        /\ \A v \in Workers \ {w} : job'[v] = job[v]
    BY <1>10 DEF MonitorCancellation, Jobs, Phases
  <2> QED BY <1>10, <2>1 DEF MonitorCancellation, Busy
<1> QED BY <1>1, <1>2, <1>3, <1>4, <1>5, <1>6, <1>7, <1>8, <1>9, <1>10
        DEF WorkerStep, ExecutionStep

LEMMA RestartQuiet == ASSUME PInv, CoordinatorRestart PROVE Quiet
<1>1. \A p \in Phases : NoJob(p) \in Jobs /\ NoJob(p).phase = p
  BY NoJobIsJob DEF NoJob
<1> QED BY <1>1 DEF PInv, TypeInv, Quiet, CoordinatorRestart, NoCycle, Busy, Phases

\* Every step leaves rows and starts alone, creates a row, or applies a
\* command that is accepted.
Creates(e) ==
    /\ e \in Experiments /\ row[e] = NoRow
    /\ row' = [row EXCEPT ![e] = Created]
    /\ UNCHANGED <<starts, calls, seen, services, job>>

Updates(d) ==
    /\ d \in calls
    /\ Accepts(d.command, row[d.command.exp])
    /\ row' = [row EXCEPT ![d.command.exp] = Effect(d.command, row[d.command.exp])]
    /\ starts' = starts \cup NewStarts(d.command)
    /\ calls' = calls \ {d}
    /\ sched' = SchedulerAfter(d)
    /\ UNCHANGED <<seen, sweep, boot>>
    /\ job' \in [Workers -> Jobs]
    /\ \A w \in Workers : Busy(w)' => Busy(w) /\ job'[w] = job[w]

LEMMA Steps ==
    ASSUME PInv, [Next]_vars
    PROVE  Quiet \/ (\E e \in Experiments : Creates(e)) \/ (\E d \in calls : Updates(d))
<1>1. CASE UNCHANGED vars
  BY <1>1 DEF vars, Quiet, PInv, TypeInv, RowInv, Busy
<1>2. ASSUME NEW e \in Experiments, Create(e) PROVE Creates(e)
  <2>1. row[e].status = "Missing"
    BY <1>2 DEF Create, Accepts, CreateCommand, Command
  <2>2. Effect(CreateCommand(e), row[e]) = Created
    BY DEF Effect, CreateCommand, Command
  <2> QED BY <1>2, <2>1, <2>2 DEF Create, Creates, PInv, RowInv
<1>3. ASSUME NEW d \in calls, ApplyCall(d) PROVE Quiet \/ Updates(d)
  <2>1. /\ job' \in [Workers -> Jobs]
        /\ \A w \in Workers : Busy(w)' => Busy(w) /\ job'[w] = job[w]
    BY <1>3, NoJobIsJob DEF ApplyCall, Answer, Busy, NoJob, PInv, TypeInv, Phases
  <2>2. CASE Accepts(d.command, row[d.command.exp])
    BY <1>3, <2>1, <2>2 DEF ApplyCall, Apply, Updates
  <2>3. CASE ~ Accepts(d.command, row[d.command.exp])
    <3>1. UNCHANGED <<row, starts, sched>>
      BY <1>3, <2>3 DEF ApplyCall, Apply, SchedulerAfter
    <3> QED BY <1>3, <2>1, <3>1 DEF ApplyCall, Quiet, PInv, TypeInv, RowInv
  <2> QED BY <2>2, <2>3
<1> QED BY <1>1, <1>2, <1>3, ClientQuiet, ServiceQuiet, WorkerQuiet, RestartQuiet
        DEF Next, UncancelledNext, ClientStep

LEMMA CreatesKeeps == ASSUME PInv, NEW e \in Experiments, Creates(e) PROVE PInv'
<1> USE DEF PInv, Creates, services
<1>1. /\ row' \in [Experiments -> Rows] /\ row'[e] = Created
      /\ \A f \in Experiments \ {e} : row'[f] = row[f]
      /\ Created.status = "Pending" /\ Created.attempt = 0
      /\ row[e].status = "Missing" /\ row[e].attempt = 0
  BY NoRowIsRow DEF TypeInv, Created, NoRow
<1>2. TypeInv'
  BY <1>1 DEF TypeInv
<1>3. RowInv'
  BY <1>1 DEF RowInv
<1>4. StartsInv'
  <2>1. ASSUME NEW s \in starts PROVE s.attempt <= row'[s.exp].attempt
    BY <1>1 DEF StartsInv, TypeInv, Starts
  <2> QED BY <2>1 DEF StartsInv
<1>5. HolderInv'
  BY <1>1 DEF HolderInv, Running, Busy
<1> QED BY <1>2, <1>3, <1>4, <1>5

LEMMA UpdatesKeeps == ASSUME PInv, NEW d \in calls, Updates(d) PROVE PInv'
<1> DEFINE c == d.command
           e == c.exp
           s == Effect(c, row[e])
<1>1. c \in Commands /\ e \in Experiments /\ row[e] \in Rows /\ c.type # "Create"
      /\ Accepts(c, row[e]) /\ (c.type = "Assign" => c.worker \in Workers)
  BY DEF PInv, TypeInv, RowInv, Calls, Commands, Updates
<1>2. /\ row' \in [Experiments -> Rows] /\ row'[e] = s
      /\ \A f \in Experiments \ {e} : row'[f] = row[f]
  BY <1>1, Effects DEF PInv, TypeInv, Updates
<1>3. /\ s.status # "Missing"
      /\ c.type = "Assign" => /\ s.status = "Running" /\ s.worker = c.worker
                              /\ s.attempt = row[e].attempt + 1 /\ s.attempt = c.attempt
      /\ c.type # "Assign" => /\ s.attempt = row[e].attempt
                              /\ s.status = "Running" =>
                                   row[e].status = "Running" /\ s.worker = row[e].worker
      /\ s.attempt \in Nat /\ row[e].attempt \in Nat /\ row[e].attempt <= s.attempt
  BY <1>1, Effects DEF Rows
<1> HIDE DEF s
<1>4. /\ starts' = IF c.type = "Assign" THEN starts \cup {Start(e, c.worker, c.attempt)}
                   ELSE starts
      /\ starts' \subseteq Starts
      /\ Start(e, c.worker, c.attempt).exp = e
      /\ Start(e, c.worker, c.attempt).attempt = c.attempt
  BY <1>1 DEF PInv, TypeInv, Updates, NewStarts, Start, Starts, Commands
<1> HIDE DEF c, e
<1>5. TypeInv'
  <2>1. sched' \in [todo : SUBSET Workers, at : Workers \cup {Nobody}]
    BY DEF Updates, SchedulerAfter, PInv, TypeInv
  <2> QED BY <1>2, <1>4, <2>1 DEF TypeInv, PInv, Updates
<1>6. RowInv'
  BY <1>1, <1>2, <1>3 DEF RowInv, PInv, Updates
<1>7. StartsInv'
  <2>1. ASSUME NEW t \in starts
        PROVE  /\ t.attempt \in Nat /\ row[t.exp].attempt \in Nat
               /\ t.attempt <= row[t.exp].attempt
               /\ t.attempt <= row'[t.exp].attempt
    <3>1. t.exp \in Experiments /\ t.attempt \in Nat /\ row[t.exp].attempt \in Nat
      BY DEF PInv, TypeInv, Starts, Rows
    <3> QED BY <1>2, <1>3, <3>1 DEF PInv, StartsInv
  <2>2. CASE c.type # "Assign"
    BY <1>4, <2>1, <2>2 DEF PInv, StartsInv
  <2>3. CASE c.type = "Assign"
    <3> DEFINE n == Start(e, c.worker, c.attempt)
    <3>1. ASSUME NEW t \in starts, t.exp = e PROVE t.attempt # n.attempt
      BY <1>3, <1>4, <2>1, <2>3, <3>1
    <3>2. n.attempt <= row'[n.exp].attempt
      BY <1>2, <1>3, <1>4, <2>3
    <3>3. starts' = starts \cup {n} /\ n.exp = e
      BY <1>4, <2>3
    <3> HIDE DEF n
    <3> QED BY <2>1, <3>1, <3>2, <3>3 DEF PInv, StartsInv
  <2> QED BY <2>2, <2>3
<1>8. HolderInv'
  <2>1. ASSUME NEW f \in Experiments, row'[f].status = "Running"
        PROVE  Start(f, row'[f].worker, row'[f].attempt) \in starts'
    <3>1. CASE f # e
      BY <1>2, <1>4, <2>1, <3>1 DEF PInv, HolderInv, Running
    <3>2. CASE f = e /\ c.type # "Assign"
      BY <1>1, <1>2, <1>3, <1>4, <2>1, <3>2 DEF PInv, HolderInv, Running
    <3>3. CASE f = e /\ c.type = "Assign"
      BY <1>1, <1>2, <1>3, <1>4, <2>1, <3>3
    <3> QED BY <3>1, <3>2, <3>3
  <2>2. ASSUME NEW w \in Workers, Busy(w)'
        PROVE  Start(job'[w].exp, w, job'[w].attempt) \in starts'
    BY <1>4, <2>2 DEF PInv, HolderInv, Updates
  <2> QED BY <2>1, <2>2 DEF HolderInv, Running
<1> QED BY <1>5, <1>6, <1>7, <1>8 DEF PInv

LEMMA PInvStep == PInv /\ [Next]_vars => PInv'
BY Steps, QuietKeeps, CreatesKeeps, UpdatesKeeps

\* The inductive invariant: rows, starts, calls and jobs have their types,
\* the event table gives an attempt number to one worker, and what runs or
\* is worked on has been started.
THEOREM PlatformInvariant == Spec => []PInv
BY PInvInit, PInvStep, PTL DEF Spec

\* No two workers ever work on the same attempt of an experiment, for any
\* number of workers, calls in progress, requeues, restarts and lost reports.
THEOREM AttemptHasOneWorker == Spec => []OneWorkerPerAttempt
<1>1. ASSUME PInv PROVE OneWorkerPerAttempt
  <2> SUFFICES ASSUME NEW v \in Workers, NEW w \in Workers, Busy(v), Busy(w),
                      job[v].exp = job[w].exp, job[v].attempt = job[w].attempt
               PROVE  v = w
    BY DEF OneWorkerPerAttempt
  <2> DEFINE s == Start(job[v].exp, v, job[v].attempt)
             t == Start(job[w].exp, w, job[w].attempt)
  <2>1. s \in starts /\ t \in starts
    BY <1>1 DEF PInv, HolderInv
  <2>2. s.exp = t.exp /\ s.attempt = t.attempt /\ s.worker = v /\ t.worker = w
    BY DEF Start
  <2> HIDE DEF s, t
  <2> QED BY <1>1, <2>1, <2>2 DEF PInv, StartsInv
<1> QED BY <1>1, PlatformInvariant, PTL
-----------------------------------------------------------------------------
\* One experiment at a time for a worker

\* A step that starts nothing and leaves the scheduler at its worker.
Unscheduled ==
    /\ row' = row
    /\ sched'.at = sched.at
    /\ \A d \in calls' : d \in calls \/ (d.by # "scheduler" /\ d.command.type # "Assign")

LEMMA UnscheduledKeeps ==
    ASSUME SInv, Unscheduled PROVE SchedulerInv' /\ OneRunningPerWorker'
BY DEF SInv, Unscheduled, SchedulerInv, OneRunningPerWorker, CallsBy, Running

LEMMA SInvInit == Init => SInv
<1> SUFFICES ASSUME Init PROVE SInv
  OBVIOUS
<1>1. SchedulerInv
  BY DEF Init, SchedulerInv, CallsBy, NoCycle
<1>2. OneRunningPerWorker
  BY DEF Init, OneRunningPerWorker, Running, NoRow
<1> QED BY <1>1, <1>2, PInvInit DEF SInv

LEMMA SchedulerSteps ==
    ASSUME SInv, ServiceStep PROVE SchedulerInv' /\ OneRunningPerWorker'
<1>1. CASE BeginScheduling
  <2>1. Unscheduled
    BY <1>1 DEF BeginScheduling, Unscheduled, SInv, PInv, TypeInv
  <2> QED BY <2>1, UnscheduledKeeps
<1>2. ASSUME NEW w \in Workers, VisitWorker(w)
      PROVE  SchedulerInv' /\ OneRunningPerWorker'
  <2>1. CallsBy("scheduler") = {}
    <3>1. ASSUME NEW d \in CallsBy("scheduler") PROVE FALSE
      BY <1>2, NobodyAssumption DEF VisitWorker, SInv, SchedulerInv, PInv, RowInv, CallsBy
    <3> QED BY <3>1
  <2>2. UNCHANGED <<row, calls>> /\ CallsBy("scheduler")' = {} /\ Running' = Running
    BY <1>2, <2>1 DEF VisitWorker, CallsBy, Running
  <2>3. sched'.at # Nobody => \A e \in Running : row[e].worker # sched'.at
    BY <1>2 DEF VisitWorker, HasRunningExperiment, Running
  <2> QED BY <2>2, <2>3 DEF SInv, SchedulerInv, OneRunningPerWorker
<1>3. CASE AssignNext
  <2>1. CASE NextPending = {} /\ sched' = [sched EXCEPT !.at = Nobody] /\ UNCHANGED calls
    <3>1. UNCHANGED <<row, calls>> /\ CallsBy("scheduler")' = {} /\ Running' = Running
          /\ sched'.at = Nobody
      BY <1>3, <2>1 DEF AssignNext, CallsBy, Running, SInv, PInv, TypeInv
    <3> QED BY <3>1 DEF SInv, SchedulerInv, OneRunningPerWorker
  <2>2. ASSUME NEW e \in NextPending, Call("scheduler", AssignCommand(e, row[e], sched.at)),
               UNCHANGED sched
        PROVE  SchedulerInv' /\ OneRunningPerWorker'
    <3> DEFINE n == [by |-> "scheduler", command |-> AssignCommand(e, row[e], sched.at)]
    <3>1. /\ calls' = calls \cup {n} /\ UNCHANGED <<row, sched>> /\ Running' = Running
          /\ CallsBy("scheduler") = {}
      BY <1>3, <2>2 DEF AssignNext, Call, Running
    <3>2. /\ n.by = "scheduler" /\ n.command.type = "Assign" /\ n.command.worker = sched.at
      BY DEF AssignCommand, Command
    <3> HIDE DEF n
    <3>3. CallsBy("scheduler")' = {n}
      BY <3>1, <3>2 DEF CallsBy
    <3> QED BY <3>1, <3>2, <3>3 DEF SInv, SchedulerInv, OneRunningPerWorker
  <2> QED BY <1>3, <2>1, <2>2 DEF AssignNext
<1>4. CASE BeginRecovery
  <2>1. Unscheduled
    BY <1>4 DEF BeginRecovery, Unscheduled
  <2> QED BY <2>1, UnscheduledKeeps
<1>5. CASE BeginStartupRecovery
  <2>1. Unscheduled
    BY <1>5 DEF BeginStartupRecovery, Unscheduled
  <2> QED BY <2>1, UnscheduledKeeps
<1>6. ASSUME NEW c \in sweep, RecoverFromWorker(c)
      PROVE  SchedulerInv' /\ OneRunningPerWorker'
  <2>1. c.type = "Requeue"
    BY DEF SInv, PInv, RowInv
  <2>2. Unscheduled
    BY <1>6, <2>1 DEF RecoverFromWorker, Unscheduled, Call
  <2> QED BY <2>2, UnscheduledKeeps
<1>7. ASSUME NEW e \in Experiments, RecoverOnStartup(e)
      PROVE  SchedulerInv' /\ OneRunningPerWorker'
  <2>1. RecoverCommand(e, row[e]).type = "Recover"
    BY DEF RecoverCommand, Command
  <2>2. Unscheduled
    BY <1>7, <2>1 DEF RecoverOnStartup, Unscheduled, Call
  <2> QED BY <2>2, UnscheduledKeeps
<1> QED BY <1>1, <1>2, <1>3, <1>4, <1>5, <1>6, <1>7 DEF ServiceStep

LEMMA WorkerUnscheduled ==
    ASSUME SInv, NEW w \in Workers, WorkerStep(w) \/ ExecutionStep(w) PROVE Unscheduled
<1> USE DEF Unscheduled, services
<1>1. CASE Register(w) \/ Heartbeat(w) \/ OnlineTimeout(w) \/ Poll(w) \/ FinishExecution(w)
             \/ LoseResult(w) \/ WorkerCrash(w) \/ MonitorCancellation(w)
  BY <1>1 DEF Register, Heartbeat, OnlineTimeout, Poll, FinishExecution, LoseResult,
              WorkerCrash, MonitorCancellation
<1>2. CASE PostResult(w)
  <2>1. Report(w).type = "Complete"
    BY DEF Report, CompleteCommand, Command
  <2> QED BY <1>2, <2>1 DEF PostResult, HttpCall, Call
<1>3. CASE ReportProgress(w)
  <2> DEFINE c == ProgressCommand(job[w].exp, w, job[w].attempt, job[w].step + 1)
  <2>1. c.type = "Progress"
    BY DEF ProgressCommand, Command
  <2> HIDE DEF c
  <2>2. HttpCall(c)
    BY <1>3 DEF ReportProgress, c
  <2> QED BY <1>3, <2>1, <2>2 DEF ReportProgress, HttpCall, Call
<1> QED BY <1>1, <1>2, <1>3 DEF WorkerStep, ExecutionStep

LEMMA UpdatesScheduled ==
    ASSUME SInv, NEW d \in calls, Updates(d)
    PROVE  SchedulerInv' /\ OneRunningPerWorker'
<1> DEFINE c == d.command
           e == c.exp
           s == Effect(c, row[e])
<1>1. c \in Commands /\ e \in Experiments /\ row[e] \in Rows /\ c.type # "Create"
      /\ Accepts(c, row[e])
  BY DEF SInv, PInv, TypeInv, RowInv, Calls, Commands, Updates
<1>2. /\ row' \in [Experiments -> Rows] /\ row'[e] = s
      /\ \A f \in Experiments \ {e} : row'[f] = row[f]
  BY <1>1, Effects DEF SInv, PInv, TypeInv, Updates
<1>3. /\ c.type = "Assign" => s.status = "Running" /\ s.worker = c.worker
      /\ c.type # "Assign" /\ s.status = "Running" =>
                             row[e].status = "Running" /\ s.worker = row[e].worker
  BY <1>1, Effects
<1>4. calls' = calls \ {d} /\ sched' = SchedulerAfter(d)
  BY DEF Updates
<1>5. CASE c.type = "Assign"
  <2>1. d \in CallsBy("scheduler") /\ c.worker = sched.at /\ sched.at \in Workers
    BY <1>5 DEF SInv, SchedulerInv, CallsBy, PInv, RowInv
  <2>2. sched'.at = Nobody
    BY <1>1, <1>4, <2>1 DEF SchedulerAfter, CallsBy, SInv, PInv, TypeInv
  <2>3. CallsBy("scheduler")' = {}
    BY <1>4, <2>1 DEF CallsBy, SInv, SchedulerInv
  <2>4. SchedulerInv'
    BY <1>4, <2>2, <2>3 DEF SInv, SchedulerInv
  <2> HIDE DEF s, e, c
  <2>5. ASSUME NEW f \in Running' PROVE f = e \/ (f \in Running /\ row[f].worker # c.worker /\ row'[f] = row[f])
    BY <1>2, <2>1, NobodyAssumption DEF Running, SInv, SchedulerInv
  <2>6. OneRunningPerWorker'
    BY <1>2, <1>3, <1>5, <2>5 DEF SInv, OneRunningPerWorker
  <2> QED BY <2>4, <2>6
<1>6. CASE c.type # "Assign"
  <2>1. d \notin CallsBy("scheduler") /\ sched' = sched
    BY <1>4, <1>6 DEF SInv, SchedulerInv, CallsBy, SchedulerAfter
  <2> HIDE DEF s, e, c
  <2>2. ASSUME NEW f \in Running' PROVE f \in Running /\ row'[f].worker = row[f].worker
    BY <1>2, <1>3, <1>6 DEF Running
  <2>3. OneRunningPerWorker'
    BY <2>2 DEF SInv, OneRunningPerWorker
  <2>4. SchedulerInv'
    BY <1>4, <2>1, <2>2 DEF SInv, SchedulerInv, CallsBy
  <2> QED BY <2>3, <2>4
<1> QED BY <1>5, <1>6

LEMMA SInvStep == ASSUME ~ ClientAssigns, SInv, [Next]_vars PROVE SInv'
<1>0. PInv'
  BY PInvStep DEF SInv
<1> SUFFICES SchedulerInv' /\ OneRunningPerWorker'
  BY <1>0 DEF SInv
<1>1. CASE UNCHANGED vars
  <2>1. Unscheduled
    BY <1>1 DEF vars, Unscheduled
  <2> QED BY <2>1, UnscheduledKeeps
<1>2. ASSUME NEW e \in Experiments, Create(e)
      PROVE  SchedulerInv' /\ OneRunningPerWorker'
  <2>1. Effect(CreateCommand(e), row[e]) = Created /\ Created.status = "Pending"
    BY DEF Effect, CreateCommand, Command, Created, NoRow
  <2>2. /\ UNCHANGED <<calls, sched>>
        /\ Running' \subseteq Running /\ \A f \in Running' : row'[f] = row[f]
    BY <1>2, <2>1 DEF Create, services, Running, SInv, PInv, TypeInv
  <2> QED BY <2>2 DEF SInv, SchedulerInv, OneRunningPerWorker, CallsBy
<1>3. ASSUME NEW e \in Experiments, NEW w \in Workers, Assign(e, w) PROVE FALSE
  BY <1>3 DEF Assign
<1>4. ASSUME NEW e \in Experiments, Cancel(e) PROVE SchedulerInv' /\ OneRunningPerWorker'
  <2>1. CancelCommand(e).type = "Cancel"
    BY DEF CancelCommand, Command
  <2>2. Unscheduled
    BY <1>4, <2>1 DEF Cancel, HttpCall, Call, Unscheduled, services
  <2> QED BY <2>2, UnscheduledKeeps
<1>5. ASSUME NEW w \in Workers, WorkerStep(w) \/ ExecutionStep(w)
      PROVE  SchedulerInv' /\ OneRunningPerWorker'
  BY <1>5, WorkerUnscheduled, UnscheduledKeeps
<1>6. ASSUME NEW d \in calls, ApplyCall(d) PROVE SchedulerInv' /\ OneRunningPerWorker'
  <2>1. CASE Accepts(d.command, row[d.command.exp])
    <3>1. /\ job' \in [Workers -> Jobs]
          /\ \A w \in Workers : Busy(w)' => Busy(w) /\ job'[w] = job[w]
      BY <1>6, NoJobIsJob DEF ApplyCall, Answer, Busy, NoJob, SInv, PInv, TypeInv, Phases
    <3>2. Updates(d)
      BY <1>6, <2>1, <3>1 DEF ApplyCall, Apply, Updates
    <3> QED BY <3>2, UpdatesScheduled
  <2>2. CASE ~ Accepts(d.command, row[d.command.exp])
    <3>1. Unscheduled
      BY <1>6, <2>2 DEF ApplyCall, Apply, SchedulerAfter, Unscheduled
    <3> QED BY <3>1, UnscheduledKeeps
  <2> QED BY <2>1, <2>2
<1>7. CASE CoordinatorRestart
  <2>1. row' = row /\ calls' = {} /\ sched'.at = Nobody
    BY <1>7 DEF CoordinatorRestart, NoCycle
  <2> QED BY <2>1 DEF SInv, SchedulerInv, OneRunningPerWorker, CallsBy, Running
<1> QED BY <1>1, <1>2, <1>3, <1>4, <1>5, <1>6, <1>7, SchedulerSteps
        DEF Next, UncancelledNext, ClientStep

\* As long as clients leave the assignment to the scheduler, no worker ever
\* has two running experiments, whatever reads and commands are interleaved.
THEOREM WorkerRunsOne == ~ ClientAssigns => (Spec => []OneRunningPerWorker)
<1>1. ASSUME ~ ClientAssigns PROVE Spec => []OneRunningPerWorker
  <2>1. SInv /\ [Next]_vars => SInv'
    BY <1>1, SInvStep
  <2>2. SInv => OneRunningPerWorker
    BY DEF SInv
  <2> QED BY <2>1, <2>2, SInvInit, PTL DEF Spec
<1> QED BY <1>1
-----------------------------------------------------------------------------
\* Cancellation

\* A requested cancellation is dropped only when a row that startup recovery
\* returned to Pending is assigned again, in every interleaving of the calls
\* that were prepared before it was requested.
THEOREM CancellationStays == Spec => CancellationKept
<1> DEFINE Keeps(e) == row[e].cancel =>
                         \/ row'[e].cancel
                         \/ row[e].status = "Pending" /\ row'[e].status = "Running"
<1>1. ASSUME PInv, [Next]_vars PROVE \A e \in Experiments : Keeps(e)
  <2>1. CASE Quiet
    BY <2>1 DEF Quiet
  <2>2. ASSUME NEW e \in Experiments, Creates(e) PROVE \A f \in Experiments : Keeps(f)
    BY <1>1, <2>2 DEF Creates, NoRow, PInv, TypeInv
  <2>3. ASSUME NEW d \in calls, Updates(d) PROVE \A f \in Experiments : Keeps(f)
    <3>1. d.command \in Commands /\ d.command.exp \in Experiments /\ d.command.type # "Create"
          /\ row[d.command.exp] \in Rows /\ Accepts(d.command, row[d.command.exp])
      BY <1>1, <2>3 DEF PInv, TypeInv, RowInv, Calls, Commands, Updates
    <3>2. Keeps(d.command.exp)
      BY <1>1, <2>3, <3>1, Effects DEF Updates, PInv, TypeInv
    <3>3. \A f \in Experiments \ {d.command.exp} : row'[f] = row[f]
      BY <1>1, <2>3 DEF Updates, PInv, TypeInv
    <3> QED BY <3>2, <3>3
  <2> QED BY <1>1, <2>1, <2>2, <2>3, Steps
<1>2. PInv /\ [Next]_vars => [\A e \in Experiments : Keeps(e)]_vars
  BY <1>1
<1>3. Spec => [][\A e \in Experiments : Keeps(e)]_vars
  BY <1>2, PlatformInvariant, PTL DEF Spec
<1> QED BY <1>3 DEF CancellationKept
-----------------------------------------------------------------------------
\* The abstract specification

Status == [e \in Experiments |-> row[e].status]
Attempt == [e \in Experiments |-> row[e].attempt]

LEMMA Moves ==
    ASSUME PInv, NEW d \in calls, Updates(d)
    PROVE  \E e \in Experiments :
             \/ Lifecycle!Start(e) \/ Lifecycle!GiveBack(e) \/ Lifecycle!Finish(e)
             \/ UNCHANGED Lifecycle!vars
<1> DEFINE c == d.command
           e == c.exp
           s == Effect(c, row[e])
<1>1. c \in Commands /\ e \in Experiments /\ row[e] \in Rows /\ c.type # "Create"
      /\ Accepts(c, row[e])
  BY DEF PInv, TypeInv, RowInv, Calls, Commands, Updates
<1>2. /\ row'[e] = s /\ \A f \in Experiments \ {e} : row'[f] = row[f]
  BY <1>1 DEF PInv, TypeInv, Updates
<1>3. /\ Status[e] = row[e].status /\ Attempt[e] = row[e].attempt
      /\ Status' = [Status EXCEPT ![e] = s.status]
      /\ Attempt' = [Attempt EXCEPT ![e] = s.attempt]
  BY <1>1, <1>2 DEF Status, Attempt
<1> USE DEF Lifecycle!Move, Status, Attempt
<1>4. CASE c.type = "Assign"
  <2>1. Lifecycle!Start(e)
    BY <1>1, <1>3, <1>4, Effects DEF Lifecycle!Start
  <2> QED BY <1>1, <2>1
<1>5. CASE c.type # "Assign"
  <2>1. s.attempt = row[e].attempt
    BY <1>1, <1>5, Effects
  <2>2. UNCHANGED Attempt
    BY <1>3, <2>1
  <2>3. CASE s.status = row[e].status
    BY <1>1, <1>3, <2>2, <2>3 DEF Lifecycle!vars
  <2>4. CASE row[e].status = "Running" /\ s.status = "Pending"
    BY <1>1, <1>3, <2>2, <2>4 DEF Lifecycle!GiveBack
  <2>5. CASE row[e].status = "Running" /\ s.status \in Terminal
    BY <1>1, <1>3, <2>2, <2>5 DEF Lifecycle!Finish, Terminal
  <2>6. CASE row[e].status = "Pending" /\ s.status = "Cancelled"
    BY <1>1, <1>3, <2>2, <2>6 DEF Lifecycle!Finish
  <2> QED BY <1>1, <1>5, <2>3, <2>4, <2>5, <2>6, Effects
<1> QED BY <1>4, <1>5

\* Whatever workers, services and clients do, an experiment lives as
\* ExperimentLifecycle promises: the platform implements it.
THEOREM PlatformImplementsLifecycle == Spec => LifecycleKept
<1>1. Init => Lifecycle!Init
  BY DEF Init, Lifecycle!Init, NoRow
<1>2. ASSUME PInv, [Next]_vars PROVE [Lifecycle!Next]_(Lifecycle!vars)
  <2>1. CASE Quiet
    BY <2>1 DEF Quiet, Lifecycle!vars
  <2>2. ASSUME NEW e \in Experiments, Creates(e) PROVE Lifecycle!Create(e)
    <3>1. /\ row[e] = NoRow /\ row'[e] = Created
          /\ \A f \in Experiments \ {e} : row'[f] = row[f]
      BY <1>2, <2>2 DEF Creates, PInv, TypeInv
    <3>2. /\ row[e].status = "Missing" /\ row'[e].status = "Pending"
          /\ row'[e].attempt = row[e].attempt
      BY <3>1 DEF NoRow, Created
    <3> QED BY <3>1, <3>2 DEF Lifecycle!Create, Lifecycle!Move
  <2>3. ASSUME NEW d \in calls, Updates(d)
        PROVE  [Lifecycle!Next]_(Lifecycle!vars)
    BY <1>2, <2>3, Moves DEF Lifecycle!Next
  <2> QED BY <1>2, <2>1, <2>2, <2>3, Steps DEF Lifecycle!Next
<1> QED BY <1>1, <1>2, PlatformInvariant, PTL DEF Spec, LifecycleKept, Lifecycle!Spec
=============================================================================
