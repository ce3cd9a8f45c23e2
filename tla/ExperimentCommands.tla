------------------------- MODULE ExperimentCommands -------------------------
(***************************************************************************)
(* The commands of the coordinator and what each does to the row of its    *)
(* experiment.  CoordinatorCommandProcessor.Apply runs one command in one  *)
(* database transaction: it either changes the row, or throws an           *)
(* InvalidOperationException and changes nothing.  The progress report of  *)
(* a worker, which ExperimentRegistry applies by itself, is treated as one *)
(* more command.  Texts, metrics, times and durations are left out.        *)
(***************************************************************************)
EXTENDS Naturals

CONSTANTS
    Experiments,   \* identifiers of the experiments clients may create
    Workers,       \* identifiers of the workers
    Nobody         \* AssignedWorkerId = null

ASSUME NobodyAssumption == Nobody \notin Workers

-----------------------------------------------------------------------------
\* Experiments.  "Missing" is an experiment that has no row.

Terminal == {"Completed", "Failed", "Cancelled"}

\* A row: status, AssignedWorkerId, Attempt, CancellationRequested, and
\* CurrentStep with 0 for null (a null step is below every reported one).
NoRow ==
    [status |-> "Missing", worker |-> Nobody, attempt |-> 0,
     cancel |-> FALSE, step |-> 0]

-----------------------------------------------------------------------------
\* Commands.  A field a command does not have keeps its default.

Command(type, e, w, a) ==
    [type |-> type, exp |-> e, worker |-> w, attempt |-> a,
     cancel |-> FALSE, outcome |-> "Failed", step |-> 0]

CreateCommand(e) == Command("Create", e, Nobody, 0)

\* Assign takes the attempt after the one of the row its caller read.
AssignCommand(e, r, w) == Command("Assign", e, w, r.attempt + 1)

\* A worker reports the outcome of the attempt it executed; WasCancelled is
\* the outcome "Cancelled".
CompleteCommand(e, w, a, outcome) ==
    [Command("Complete", e, w, a) EXCEPT
        !.outcome = outcome, !.cancel = (outcome = "Cancelled")]

CancelCommand(e) == Command("Cancel", e, Nobody, 0)

\* Requeue and Recover repeat worker and attempt of the row their caller
\* read; Requeue also decides there whether it will cancel.
RequeueCommand(e, r) ==
    [Command("Requeue", e, r.worker, r.attempt) EXCEPT !.cancel = r.cancel]

RecoverCommand(e, r) == Command("Recover", e, r.worker, r.attempt)

ProgressCommand(e, w, a, step) ==
    [Command("Progress", e, w, a) EXCEPT !.step = step]

-----------------------------------------------------------------------------
\* Acceptance: the rows a command updates.

HoldsFinished(c, r) ==
    /\ r.worker = c.worker
    /\ r.attempt = c.attempt

\* The fence: the command is about the attempt that is running now, and
\* about the worker that runs it.
Holds(c, r) ==
    /\ r.status = "Running"
    /\ r.worker = c.worker
    /\ r.attempt = c.attempt

CanAssign(c, r) == r.status = "Pending" /\ r.attempt + 1 = c.attempt

CanComplete(c, r) == Holds(c, r) /\ r.cancel = c.cancel

CanCancel(c, r) == r.status \in {"Pending", "Running"}

CanRequeueStale(c, r) == Holds(c, r)

CanRequeue(c, r) == Holds(c, r) /\ r.cancel = c.cancel

CanReport(c, r) == Holds(c, r) /\ ~r.cancel /\ r.step <= c.step

Accepts(c, r) ==
    \/ c.type = "Create" /\ r.status = "Missing"
    \/ c.type = "Assign" /\ CanAssign(c, r)
    \/ c.type = "Complete" /\ CanComplete(c, r)
    \/ c.type = "Cancel" /\ CanCancel(c, r)
    \/ c.type = "Requeue" /\ CanRequeue(c, r)
    \/ c.type = "Recover" /\ Holds(c, r)
    \/ c.type = "Progress" /\ CanReport(c, r)

-----------------------------------------------------------------------------
\* Effects: the row after an accepted command.

Created == [NoRow EXCEPT !.status = "Pending"]

AssignedSameAttempt(c, r) ==
    [status |-> "Running", worker |-> c.worker, attempt |-> r.attempt,
     cancel |-> FALSE, step |-> 0]

Assigned(c, r) ==
    [status |-> "Running", worker |-> c.worker, attempt |-> c.attempt,
     cancel |-> FALSE, step |-> 0]

Finished(c, r) == [r EXCEPT !.status = c.outcome, !.cancel = c.cancel]

\* A pending experiment is cancelled at once, a running one only marked.
CancelRequested(c, r) ==
    [r EXCEPT !.status = IF @ = "Pending" THEN "Cancelled" ELSE @,
              !.cancel = TRUE]

Requeued(c, r) ==
    [r EXCEPT !.status = IF c.cancel THEN "Cancelled" ELSE "Pending",
              !.worker = Nobody, !.cancel = c.cancel, !.step = 0]

\* Recovery on startup leaves CancellationRequested as it is.
Recovered(c, r) ==
    [r EXCEPT !.status = "Pending", !.worker = Nobody, !.step = 0]

Reported(c, r) == [r EXCEPT !.step = c.step]

Effect(c, r) ==
    CASE c.type = "Create"   -> Created
      [] c.type = "Assign"   -> Assigned(c, r)
      [] c.type = "Complete" -> Finished(c, r)
      [] c.type = "Cancel"   -> CancelRequested(c, r)
      [] c.type = "Requeue"  -> Requeued(c, r)
      [] c.type = "Recover"  -> Recovered(c, r)
      [] c.type = "Progress" -> Reported(c, r)

=============================================================================
