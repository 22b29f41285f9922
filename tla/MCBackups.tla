----------------------------- MODULE MCBackups -----------------------------
(***************************************************************************)
(* Small instances of Backups for TLC.                                     *)
(***************************************************************************)
EXTENDS Backups, TLC

CallSymmetry == Permutations(Call)
=============================================================================
