------------------------ MODULE ExperimentLifecycle ------------------------
(***************************************************************************)
(* What the platform promises about an experiment, whatever workers,       *)
(* services and coordinators do: it is created once, every start of it is  *)
(* a new attempt, only a running attempt is given back or comes to a       *)
(* result, a pending experiment can only be started or cancelled, and a    *)
(* finished experiment never changes again.                                *)
(***************************************************************************)
EXTENDS Naturals

CONSTANT Experiments

VARIABLES
    status,    \* status[e]: as in ExperimentCommands
    attempt    \* attempt[e]: how often e has been started

vars == <<status, attempt>>

Init ==
    /\ status = [e \in Experiments |-> "Missing"]
    /\ attempt = [e \in Experiments |-> 0]

Move(e, from, to) ==
    /\ status[e] = from
    /\ status' = [status EXCEPT ![e] = to]

Create(e) == Move(e, "Missing", "Pending") /\ UNCHANGED attempt

Start(e) ==
    /\ Move(e, "Pending", "Running")
    /\ attempt' = [attempt EXCEPT ![e] = @ + 1]

GiveBack(e) == Move(e, "Running", "Pending") /\ UNCHANGED attempt

Finish(e) ==
    /\ \/ Move(e, "Pending", "Cancelled")
       \/ \E result \in {"Completed", "Failed", "Cancelled"} :
            Move(e, "Running", result)
    /\ UNCHANGED attempt

Next ==
    \E e \in Experiments : Create(e) \/ Start(e) \/ GiveBack(e) \/ Finish(e)

Spec == Init /\ [][Next]_vars

=============================================================================
