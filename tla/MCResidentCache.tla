-------------------------- MODULE MCResidentCache --------------------------
(* A small instance of ResidentCache for TLC.                              *)
EXTENDS ResidentCache, TLC

ThreadSymmetry == Permutations(Clients)
=============================================================================
