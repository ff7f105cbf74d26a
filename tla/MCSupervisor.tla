---------------------------- MODULE MCSupervisor ----------------------------
(* Three runs of run.sh at a time. *)
EXTENDS Supervisor

CONSTANTS r1, r2, r3

MCRunners == {r1, r2, r3}

=============================================================================
