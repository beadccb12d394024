--------------------------- MODULE MCSyncDaemon ---------------------------
EXTENDS SyncDaemon, TLC
CONSTANTS w1, w2, w3, w4

(* Slots for runs are alike.                                               *)
RunSymmetry == Permutations(Run)
=============================================================================
