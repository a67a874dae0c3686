------------------------ MODULE MCWindowCommands ---------------------------
(* Two commands at once; a repository with a worktree inside it and a        *)
(* directory beside it.                                                      *)
EXTENDS WindowCommands, TLC

CONSTANTS t1, t2, a, b, top, tree, side, none

MCParent == (top :> none) @@ (tree :> top) @@ (side :> none)
MCDepth == (top :> 1) @@ (tree :> 2) @@ (side :> 1) @@ (none :> 0)
MCGitRoot == (top :> top) @@ (tree :> top) @@ (side :> none)

Symmetry == Permutations(Threads) \cup Permutations(Projects)
=============================================================================
