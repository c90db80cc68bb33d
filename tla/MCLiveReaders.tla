--------------------------- MODULE MCLiveReaders ---------------------------
(* A small instance of LiveReaders for TLC.                                *)
EXTENDS LiveReaders, TLC

Executing == {"import", "calculate", "live"}
=============================================================================
