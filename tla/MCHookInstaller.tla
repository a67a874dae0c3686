------------------------- MODULE MCHookInstaller ---------------------------
(* Two hooks, three writers of one file, an agent that writes it too.        *)
EXTENDS HookInstaller

CONSTANTS h1, h2

MCSelections == {{h1}, {h1, h2}}
=============================================================================
