------------------------- MODULE MCIngressBacklog --------------------------
(* Two hook events behind two an earlier version left that today's catalog   *)
(* no longer knows, as many as one recovery takes.                           *)
EXTENDS IngressPath

CONSTANTS e1, e2, e3, e4

\* The two events are alike, so of two behaviours that differ only in their names
\* the one where e1 comes first is enough: a symmetry reduction that, unlike
\* SYMMETRY, may be used for a liveness property.
FirstComesE1 == helper[e2] # "none" => helper[e1] # "none"

\* A fault or a clearing, not both.
OneTrouble == spent["faults"] + spent["clears"] <= 1
=============================================================================
