------------------------- MODULE MCConfiguration ---------------------------
(* Two channels, a rule and a project's patch of it, two threads.            *)
EXTENDS Configuration, TLC

CONSTANTS c1, c2, r1, p1, k1, k2

ClientSymmetry == Permutations(Clients)
=============================================================================
