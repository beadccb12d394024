----------------------------- MODULE MCGateway -----------------------------
EXTENDS Gateway, TLC
CONSTANTS q1, q2, i1, s1, s2
=============================================================================
