--------------------------- MODULE MCPooledCache ---------------------------
(* A small instance of PooledCache for TLC.                                *)
EXTENDS PooledCache, TLC
=============================================================================
