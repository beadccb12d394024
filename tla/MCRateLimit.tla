---------------------------- MODULE MCRateLimit ----------------------------
EXTENDS RateLimit, TLC
CONSTANTS c1, c2, c3

(* Slots for calls are alike.                                              *)
CallSymmetry == Permutations(Call)
=============================================================================
