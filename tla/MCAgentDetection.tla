-------------------------- MODULE MCAgentDetection -------------------------
(* Two agents, each at one of two places; a window command beside the loop.   *)
(* Version 2 is verified, 3 is of its line, 5 of a line of its own.           *)
EXTENDS AgentDetection, TLC

MCLine(v) == v \div 4
MCCatalogued(a) == {2}
MCHooksOf(a, v) == {"Stop", "PreToolUse"}
MCRequired(a) == {"Stop", "PreToolUse"}
MCAgentOrder == <<"claude-code", "codex">>

CONSTANT timed_out, none
MCFirstAnswers == {<<2, none>>, <<timed_out, 3>>}
=============================================================================
