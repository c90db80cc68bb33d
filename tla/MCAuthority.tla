---------------------------- MODULE MCAuthority ----------------------------
(* Small instances of Authority for TLC.                                   *)
EXTENDS Authority, TLC

Symmetric == Permutations(Clients) \union Permutations(Users)
=============================================================================
