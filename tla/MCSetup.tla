------------------------------ MODULE MCSetup ------------------------------
EXTENDS Setup, TLC
CONSTANTS k1, k2, k3, s1, s2, s3

(* Master keys are alike.                                                  *)
KeySymmetry == Permutations(Key)
=============================================================================
