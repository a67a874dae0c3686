-------------------------- MODULE WindowCommands --------------------------
(***************************************************************************)
(* The commands that edit documents shared by everybody: the settings and  *)
(* the projects, under way together on the threads of the blocking pool,   *)
(* and a process that may stop under them.                                 *)
(***************************************************************************)
EXTENDS SettingsDocument, ProjectCache

vars == <<threadVars, settingsVars, cacheVars>>

Init == ThreadsInit /\ SettingsInit /\ CacheInit

Restart ==
  /\ AllEnd
  /\ SettingsStop
  /\ CacheRestart

Next ==
  \/ \E t \in Threads : SettingsStep(t) /\ UNCHANGED cacheVars
  \/ \E t \in Threads : CacheStep(t) /\ UNCHANGED settingsVars
  \/ Restart

Spec == Init /\ [][Next]_vars

\* The documents have their shapes, and a project's paths are its own: the
\* transactions of several commands leave the UNIQUE constraint in force.
TypeOK ==
  /\ SettingsTypeOK /\ CacheTypeOK
  /\ \A r, q \in Projects : r # q => PathsOf(r) \cap PathsOf(q) = {}

\* What the threads hold, and what each document's commands keep.
JobsOK == job \in [Threads -> {Free} \cup DocumentJobs \cup CacheJobs]
IInv == JobsOK /\ SettingsInv /\ CacheInv
=============================================================================
