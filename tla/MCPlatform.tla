----------------------------- MODULE MCPlatform -----------------------------
(***************************************************************************)
(* A small instance of Platform for TLC.                                   *)
(***************************************************************************)
EXTENDS Platform, TLC

Symmetry == Permutations(Client) \cup Permutations(Thing)
=============================================================================
