--------------------------- MODULE MCSchedulerLoop --------------------------
(* SchedulerLoop has no parameters: TLC checks it as it is. *)
EXTENDS SchedulerLoop

=============================================================================
