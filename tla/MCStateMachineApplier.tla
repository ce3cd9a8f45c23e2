----------------------- MODULE MCStateMachineApplier -----------------------
(* Instances of StateMachineApplier for TLC. *)
EXTENDS StateMachineApplier, TLC

=============================================================================
