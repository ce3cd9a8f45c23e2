------------------------- MODULE ExperimentPlatform -------------------------
(***************************************************************************)
(* One coordinator that applies its commands itself (the default,          *)
(* ClientCommandReplicationEnabled = false), its background services, the  *)
(* HTTP handlers its clients and workers call, and the workers.            *)
(*                                                                         *)
(* Handlers and services read rows in one transaction and apply a command  *)
(* built from what they read in a later one, so a call is two steps here:  *)
(* the reading step puts the command into calls, ApplyCall applies it.     *)
(* The processor rejects a command whose row has moved on in between.      *)
(***************************************************************************)
EXTENDS ExperimentCommands, FiniteSets

CONSTANTS
    NoExperiment,  \* the experiment of a worker that has none
    Rank,          \* Rank[e]: the place of e in the order of GetNextPending
    ClientAssigns, \* clients use the assign endpoint
    MaxStep,       \* bound: progress reports of one execution
    MaxCalls,      \* bound: HTTP calls that have read and not yet applied
    MaxCrash,      \* bound: crashes of the coordinator
    MaxDown,       \* bound: crashes of workers
    MaxLate,       \* bound: heartbeats of live workers that come too late
    MaxLost        \* bound: completion reports that get lost

ASSUME PlatformAssumption ==
    /\ NoExperiment \notin Experiments
    /\ Rank \in [Experiments -> Nat]
    /\ {MaxStep, MaxCalls, MaxCrash, MaxDown, MaxLate, MaxLost} \subseteq Nat
    /\ ClientAssigns \in BOOLEAN

VARIABLES
    row,       \* row[e]: the row of experiment e (database)
    starts,    \* the Assigned events in the event table (database)
    calls,     \* commands built from rows read, not yet applied, and by whom
    seen,      \* seen[w]: what WorkerRegistry knows of w (memory)
    sched,     \* scheduler: workers still to visit, the worker it is at
    sweep,     \* recovery: the Requeue commands it may still issue
    boot,      \* startup recovery: whether it has read, and its list
    job,       \* job[w]: what worker w does
    faults     \* how often each kind of fault has happened

vars == <<row, starts, calls, seen, sched, sweep, boot, job, faults>>

services == <<sched, sweep, boot>>

-----------------------------------------------------------------------------
\* Workers

\* phase: starting, idle, executing, reporting or waiting for the answer;
\* stop: the cancellation monitor has seen a cancellation; outcome: what the
\* worker reports; step: the progress it has reported.
NoJob(phase) ==
    [phase |-> phase, exp |-> NoExperiment, attempt |-> 0, stop |-> FALSE,
     outcome |-> "Failed", step |-> 0]

Busy(w) == job[w].phase \in {"executing", "reporting", "waiting"}

NoCycle == [todo |-> {}, at |-> Nobody]

Init ==
    /\ row = [e \in Experiments |-> NoRow]
    /\ starts = {}
    /\ calls = {}
    /\ seen = [w \in Workers |-> "unknown"]
    /\ sched = NoCycle
    /\ sweep = {}
    /\ boot = [read |-> FALSE, list |-> {}]
    /\ job = [w \in Workers |-> NoJob("starting")]
    /\ faults = [crash |-> 0, down |-> 0, late |-> 0, lost |-> 0]

Count(kind, max) ==
    /\ faults[kind] < max
    /\ faults' = [faults EXCEPT ![kind] = @ + 1]

\* The calls in progress of one caller: "http" or a service.
CallsBy(by) == {d \in calls : d.by = by}

Call(by, c) == calls' = calls \cup {[by |-> by, command |-> c]}

HttpCall(c) == Cardinality(CallsBy("http")) < MaxCalls /\ Call("http", c)

-----------------------------------------------------------------------------
\* Handlers for clients

\* Create: a fresh identifier, nothing is read before Apply.
Create(e) ==
    /\ Accepts(CreateCommand(e), row[e])
    /\ row' = [row EXCEPT ![e] = Effect(CreateCommand(e), @)]
    /\ UNCHANGED <<starts, calls, seen, services, job, faults>>

\* Assign: the experiment is pending and some worker is online; a worker
\* that already has an experiment is not excluded.
Assign(e, w) ==
    /\ ClientAssigns
    /\ row[e].status = "Pending"
    /\ seen[w] = "online"
    /\ HttpCall(AssignCommand(e, row[e], w))
    /\ UNCHANGED <<row, starts, seen, services, job, faults>>

\* Cancel: not for an experiment that has ended.
Cancel(e) ==
    /\ row[e].status \in {"Pending", "Running"}
    /\ HttpCall(CancelCommand(e))
    /\ UNCHANGED <<row, starts, seen, services, job, faults>>

-----------------------------------------------------------------------------
\* The worker registry

\* A starting worker registers and begins its loops.
Register(w) ==
    /\ job[w].phase = "starting"
    /\ job' = [job EXCEPT ![w] = NoJob("idle")]
    /\ seen' = [seen EXCEPT ![w] = "online"]
    /\ UNCHANGED <<row, starts, calls, services, faults>>

\* A heartbeat; a worker the registry does not know registers again.
Heartbeat(w) ==
    /\ job[w].phase # "starting"
    /\ seen[w] # "online"
    /\ seen' = [seen EXCEPT ![w] = "online"]
    /\ UNCHANGED <<row, starts, calls, services, job, faults>>

\* The last heartbeat of w is older than OnlineTimeout.
OnlineTimeout(w) ==
    /\ seen[w] = "online"
    /\ seen' = [seen EXCEPT ![w] = "offline"]
    /\ IF job[w].phase = "starting" THEN UNCHANGED faults
                                    ELSE Count("late", MaxLate)
    /\ UNCHANGED <<row, starts, calls, services, job>>

-----------------------------------------------------------------------------
\* Background services of the coordinator.  Each is one loop: it applies one
\* command before it reads for the next.

\* RunSchedulingCycleAsync reads the online workers ...
BeginScheduling ==
    /\ sched = NoCycle
    /\ \E w \in Workers : seen[w] = "online"
    /\ sched' = [sched EXCEPT !.todo = {w \in Workers : seen[w] = "online"}]
    /\ UNCHANGED <<row, starts, calls, seen, sweep, boot, job, faults>>

HasAcceptedExperiment(w) == Busy(w)

HasRunningExperiment(w) ==
    \E e \in Experiments : row[e].status = "Running" /\ row[e].worker = w

\* ... and visits them, passing over those with a running experiment.
VisitWorker(w) ==
    /\ sched.at = Nobody /\ w \in sched.todo
    /\ sched' = [todo |-> sched.todo \ {w},
                 at |-> IF HasRunningExperiment(w) THEN Nobody ELSE w]
    /\ UNCHANGED <<row, starts, calls, seen, sweep, boot, job, faults>>

NeverStarted ==
    {e \in Experiments : row[e].status = "Pending" /\ row[e].attempt = 0}

NextPending ==
    {e \in Experiments :
        /\ row[e].status = "Pending"
        /\ \A f \in Experiments :
             row[f].status = "Pending" => Rank[f] <= Rank[e]}

\* The worker it is at gets the next pending experiment, if there is one.
\* A command that is rejected is followed by another try (SchedulerAfter).
AssignNext ==
    /\ sched.at # Nobody /\ CallsBy("scheduler") = {}
    /\ \/ /\ NextPending = {}
          /\ sched' = [sched EXCEPT !.at = Nobody]
          /\ UNCHANGED calls
       \/ \E e \in NextPending :
            /\ Call("scheduler", AssignCommand(e, row[e], sched.at))
            /\ UNCHANGED sched
    /\ UNCHANGED <<row, starts, seen, sweep, boot, job, faults>>

SchedulerAfter(d) ==
    IF d.by = "scheduler" /\ Accepts(d.command, row[d.command.exp])
    THEN [sched EXCEPT !.at = Nobody] ELSE sched

Running == {e \in Experiments : row[e].status = "Running"}

\* RunRecoveryCycleAsync reads the running experiments ...
BeginRecovery ==
    /\ sweep = {} /\ CallsBy("recovery") = {}
    /\ Running # {}
    /\ sweep' = {RequeueCommand(e, row[e]) : e \in Running}
    /\ UNCHANGED <<row, starts, calls, seen, sched, boot, job, faults>>

Offline(w) == seen[w] # "online"

\* ... and requeues those whose worker is not online when it gets to them.
RecoverFromWorker(c) ==
    /\ c \in sweep /\ CallsBy("recovery") = {}
    /\ sweep' = sweep \ {c}
    /\ IF Offline(c.worker) THEN Call("recovery", c) ELSE UNCHANGED calls
    /\ UNCHANGED <<row, starts, seen, sched, boot, job, faults>>

\* ExperimentStartupRecoveryService lists the running experiments once, as
\* soon as it gets to run ...
BeginStartupRecovery ==
    /\ ~boot.read
    /\ boot' = [read |-> TRUE, list |-> Running]
    /\ UNCHANGED <<row, starts, calls, seen, sched, sweep, job, faults>>

\* ... and returns each one that is still running to Pending.
RecoverOnStartup(e) ==
    /\ e \in boot.list /\ CallsBy("startup") = {}
    /\ boot' = [boot EXCEPT !.list = @ \ {e}]
    /\ IF row[e].status = "Running"
       THEN Call("startup", RecoverCommand(e, row[e]))
       ELSE UNCHANGED calls
    /\ UNCHANGED <<row, starts, seen, sched, sweep, job, faults>>

-----------------------------------------------------------------------------
\* CoordinatorCommandProcessor.Apply.  The caller is answered: a worker that
\* waits for the answer to its report returns to its loop.

Answer(c) ==
    job' = [w \in Workers |->
              IF /\ c.type = "Complete" /\ c.worker = w
                 /\ job[w].phase = "waiting"
                 /\ job[w].exp = c.exp /\ job[w].attempt = c.attempt
              THEN NoJob("idle") ELSE job[w]]

NewStarts(c) ==
    IF c.type = "Assign"
    THEN {[exp |-> c.exp, worker |-> c.worker, attempt |-> c.attempt]}
    ELSE {}

Apply(c) ==
    IF Accepts(c, row[c.exp])
    THEN /\ row' = [row EXCEPT ![c.exp] = Effect(c, @)]
         /\ starts' = starts \cup NewStarts(c)
    ELSE UNCHANGED <<row, starts>>

ApplyCall(d) ==
    /\ d \in calls
    /\ calls' = calls \ {d}
    /\ Apply(d.command)
    /\ Answer(d.command)
    /\ sched' = SchedulerAfter(d)
    /\ UNCHANGED <<seen, sweep, boot, faults>>

-----------------------------------------------------------------------------
\* The execution loop of a worker

NextFor(w) ==
    {e \in Experiments :
        row[e].status = "Running" /\ row[e].worker = w /\ ~row[e].cancel}

\* GetNextAssignedToWorker; the response carries the attempt.
Poll(w) ==
    /\ job[w].phase = "idle"
    /\ \E e \in NextFor(w) :
         job' = [job EXCEPT ![w] =
                   [NoJob("executing") EXCEPT
                      !.exp = e, !.attempt = row[e].attempt]]
    /\ UNCHANGED <<row, starts, calls, seen, services, faults>>

\* The executor reports progress; the worker does not depend on the answer.
ReportProgress(w) ==
    /\ job[w].phase = "executing" /\ job[w].step < MaxStep
    /\ job' = [job EXCEPT ![w].step = @ + 1]
    /\ HttpCall(ProgressCommand(job[w].exp, w, job[w].attempt, job[w].step + 1))
    /\ UNCHANGED <<row, starts, seen, services, faults>>

\* MonitorCancellationAsync sees that cancellation has been requested.
MonitorCancellation(w) ==
    /\ job[w].phase = "executing" /\ ~job[w].stop
    /\ row[job[w].exp].cancel
    /\ job' = [job EXCEPT ![w].stop = TRUE]
    /\ UNCHANGED <<row, starts, calls, seen, services, faults>>

\* The execution ends: by itself (also when it was told to stop), in a
\* failure or timeout, or because it was told to stop.
FinishExecution(w) ==
    /\ job[w].phase = "executing"
    /\ \E outcome \in Terminal :
         /\ outcome = "Cancelled" => job[w].stop
         /\ job' = [job EXCEPT ![w].phase = "reporting",
                               ![w].outcome = outcome]
    /\ UNCHANGED <<row, starts, calls, seen, services, faults>>

Report(w) ==
    CompleteCommand(job[w].exp, w, job[w].attempt, job[w].outcome)

\* The complete endpoint reads the row: a report that does not fit it is
\* answered with a conflict, and the worker returns to its loop.
PostResult(w) ==
    /\ job[w].phase = "reporting"
    /\ IF CanComplete(Report(w), row[job[w].exp])
       THEN /\ HttpCall(Report(w))
            /\ job' = [job EXCEPT ![w].phase = "waiting"]
       ELSE /\ job' = [job EXCEPT ![w] = NoJob("idle")]
            /\ UNCHANGED calls
    /\ UNCHANGED <<row, starts, seen, services, faults>>

\* The execution ends without a report (the executor or a report of progress
\* throws), the report does not arrive, or its answer does not: the worker logs
\* the failure and polls again.  A report that has arrived is still applied.
LoseResult(w) ==
    /\ Busy(w)
    /\ Count("lost", MaxLost)
    /\ job' = [job EXCEPT ![w] = NoJob("idle")]
    /\ UNCHANGED <<row, starts, calls, seen, services>>

-----------------------------------------------------------------------------
\* Crashes

WorkerCrash(w) ==
    /\ job[w].phase # "starting"
    /\ Count("down", MaxDown)
    /\ job' = [job EXCEPT ![w] = NoJob("starting")]
    /\ UNCHANGED <<row, starts, calls, seen, services>>

\* The database survives a restart of the coordinator; the worker registry,
\* the calls and the services start anew.
CoordinatorRestart ==
    /\ Count("crash", MaxCrash)
    /\ calls' = {}
    /\ seen' = [w \in Workers |-> "unknown"]
    /\ sched' = NoCycle /\ sweep' = {}
    /\ boot' = [read |-> FALSE, list |-> {}]
    /\ job' = [w \in Workers |->
                 IF job[w].phase = "waiting" THEN NoJob("idle") ELSE job[w]]
    /\ UNCHANGED <<row, starts>>

-----------------------------------------------------------------------------
WorkerStep(w) ==
    \/ Register(w) \/ Heartbeat(w) \/ OnlineTimeout(w)
    \/ Poll(w) \/ FinishExecution(w) \/ PostResult(w) \/ LoseResult(w)
    \/ WorkerCrash(w)

\* What an execution does beside the worker's loop.
ExecutionStep(w) == ReportProgress(w) \/ MonitorCancellation(w)

ServiceStep ==
    \/ BeginScheduling \/ \E w \in Workers : VisitWorker(w)
    \/ AssignNext
    \/ BeginRecovery \/ BeginStartupRecovery
    \/ \E c \in sweep : RecoverFromWorker(c)
    \/ \E e \in Experiments : RecoverOnStartup(e)

ClientStep ==
    \E e \in Experiments : Create(e) \/ \E w \in Workers : Assign(e, w)

\* The steps without cancellations and progress reports.
UncancelledNext ==
    \/ ClientStep
    \/ ServiceStep
    \/ \E d \in calls : ApplyCall(d)
    \/ \E w \in Workers : WorkerStep(w)
    \/ CoordinatorRestart

Next ==
    \/ UncancelledNext
    \/ \E e \in Experiments : Cancel(e)
    \/ \E w \in Workers : ExecutionStep(w)

Spec == Init /\ [][Next]_vars

-----------------------------------------------------------------------------
\* Safety

\* No two workers ever work on the same attempt of an experiment, whatever
\* timeouts, requeues, restarts and lost reports lie between: the attempt
\* number of Assign is taken from a row read earlier, and only the fence in
\* the processor keeps a number from being given out twice.
OneWorkerPerAttempt ==
    \A v, w \in Workers :
        /\ Busy(v) /\ Busy(w)
        /\ job[v].exp = job[w].exp /\ job[v].attempt = job[w].attempt
        => v = w

\* As long as clients leave the assignment to the scheduler, no worker has
\* two running experiments, although the scheduler tests for a running
\* experiment in one transaction and assigns in a later one.
OneRunningPerWorker ==
    \A e, f \in Running : row[e].worker = row[f].worker => e = f

\* A requested cancellation is never lost to a completion, a requeue or a
\* progress report that was prepared before it was requested: only the next
\* assignment of a row that startup recovery returned to Pending drops it.
CancellationKept ==
    [][\A e \in Experiments :
         row[e].cancel =>
            \/ row'[e].cancel
            \/ row[e].status = "Pending" /\ row'[e].status = "Running"]_vars

\* The experiments of the platform live as ExperimentLifecycle promises.
Lifecycle ==
    INSTANCE ExperimentLifecycle WITH
        status <- [e \in Experiments |-> row[e].status],
        attempt <- [e \in Experiments |-> row[e].attempt]

LifecycleKept == Lifecycle!Spec

-----------------------------------------------------------------------------
\* Liveness.  The services run every two seconds and Apply is a local
\* transaction; a worker that is up sends heartbeats, polls, ends its
\* execution (at the latest by its timeout) and reports.

Fairness ==
    /\ WF_vars(BeginScheduling)
    /\ WF_vars(\E w \in Workers : VisitWorker(w))
    /\ WF_vars(AssignNext)
    /\ WF_vars(BeginRecovery)
    /\ WF_vars(\E c \in sweep : RecoverFromWorker(c))
    /\ WF_vars(BeginStartupRecovery)
    /\ WF_vars(\E e \in Experiments : RecoverOnStartup(e))
    /\ \A by \in {"http", "scheduler", "recovery", "startup"} :
         WF_vars(\E d \in CallsBy(by) : ApplyCall(d))
    /\ \A w \in Workers :
         /\ WF_vars(Register(w))
         /\ WF_vars(Heartbeat(w))
         /\ WF_vars(OnlineTimeout(w) /\ UNCHANGED faults)
         /\ WF_vars(Poll(w))
         /\ WF_vars(FinishExecution(w))
         /\ WF_vars(PostResult(w))

\* Nobody cancels: NextFor hides a cancelled experiment from the worker that
\* has it, so that it may stay Running for as long as this worker is online.
FairSpec == Init /\ [][UncancelledNext]_vars /\ Fairness

\* Every experiment comes to a result, also when its worker crashes, is
\* taken for dead, or loses its report, and when the coordinator restarts.
EveryExperimentEnds ==
    \A e \in Experiments :
        row[e].status = "Pending" ~> row[e].status \in Terminal
=============================================================================
