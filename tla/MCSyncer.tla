------------------------------ MODULE MCSyncer ------------------------------
(* Instances of Syncer for TLC: the constants are given in the .cfg files. *)
EXTENDS Syncer, TLC

RunSymmetry == Permutations(Run)
=============================================================================
