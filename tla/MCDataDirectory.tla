-------------------------- MODULE MCDataDirectory --------------------------
(* A helper beside the application and the command line; three random keys.   *)
EXTENDS DataDirectory, TLC

CONSTANTS h1, h2, k1, k2, k3

Symmetry == Permutations(Helpers) \cup Permutations(Keys)
=============================================================================
