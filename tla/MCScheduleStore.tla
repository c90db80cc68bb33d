-------------------------- MODULE MCScheduleStore --------------------------
(* Small instances of ScheduleStore for TLC.                               *)
EXTENDS ScheduleStore, TLC

Planning == {"import", "calculate", "scenario", "reset", "planner"}
Writing == {"import", "calculate", "scenario", "reset", "live"}

(* Nothing in the model tells one client from another.                      *)
Threads == Permutations(Clients)
=============================================================================
