--------------------------- MODULE HookInstaller ---------------------------
(***************************************************************************)
(* Hooks in one agent's configuration file, and the rows that describe     *)
(* them (installer/lifecycle.rs, installer/atomic.rs,                      *)
(* storage/integrations.rs).  The window's commands, the self-heal loop    *)
(* (agents/selfheal.rs) and the uninstaller's command line (lib.rs) run    *)
(* the same apply, step by step and at the same time; the agent and the    *)
(* user's editor write the file whenever they like.  The agent is Codex,   *)
(* whose hooks have to be trusted; for Claude Code trust is not kept.      *)
(***************************************************************************)
EXTENDS Naturals

CONSTANTS
  Hooks,       \* the agent's hook events
  Selections,  \* sets of hooks the rules may require
  MaxActions,  \* bound: commands of the window and the uninstaller
  MaxEdits,    \* bound: writes of the agent or an editor, changes of its version
  MaxErrors    \* bound: errors and process deaths in the middle of an apply

ASSUME HookAssumption ==
  /\ Selections \subseteq SUBSET Hooks
  /\ MaxActions \in Nat /\ MaxEdits \in Nat /\ MaxErrors \in Nat

VARIABLES
  file,         \* the configuration file: our entries, and the version of the rest
  rows,         \* hook_installations
  verified,     \* the agent's row: no catalog verification of UpgradeRequired
  lock,         \* who holds the lock beside the file
  proc,         \* what each actor's apply is doing, with what it has in memory
  touched,      \* history: whether others wrote the file under an actor's apply
  observed,     \* history: the forms of each hook its row had when a run was seen
  uninstalled,  \* history: the last thing a window's command recorded is an uninstall
  spent         \* how much of each bound is used up

history == <<touched, observed, uninstalled>>
vars == <<file, rows, verified, lock, proc, history, spent>>

Actors == {"window", "healer", "uninstaller"}
Nobody == "nobody"

\* An entry of ours as we would write it, or with its definition edited.
Forms == {"none", "ours", "edited"}
File == [own : [Hooks -> Forms], foreign : Nat]
Row == [form : Forms, trust : {"unconfirmed", "working"}]
NoRow == [form |-> "none", trust |-> "unconfirmed"]
Rows == [Hooks -> Row]

Stages == {"idle", "listed", "inspecting", "begun", "read", "patching", "locked", "renamed",
           "written", "building"}
EmptyFile == [own |-> [h \in Hooks |-> "none"], foreign |-> 0]
Process == [stage : Stages, want : SUBSET Hooks, read : File, left : SUBSET Hooks, records : Rows]
Idle ==
  [stage |-> "idle", want |-> {}, read |-> EmptyFile, left |-> {},
   records |-> [h \in Hooks |-> NoRow]]

Init ==
  /\ file = EmptyFile
  /\ rows = [h \in Hooks |-> NoRow]
  /\ verified \in BOOLEAN
  /\ lock = Nobody
  /\ proc = [a \in Actors |-> Idle]
  /\ touched = [a \in Actors |-> "no"]
  /\ observed = [h \in Hooks |-> {}]
  /\ uninstalled = FALSE
  /\ spent = [b \in {"actions", "edits", "faults"} |-> 0]

Stage(a) == proc[a].stage
Goes(a, p) == proc' = [proc EXCEPT ![a] = p]
Moves(a, stage) == Goes(a, [proc[a] EXCEPT !.stage = stage])

Spend(bound, limit) ==
  /\ spent[bound] < limit
  /\ spent' = [spent EXCEPT ![bound] = @ + 1]

Recorded == {h \in Hooks : rows[h] # NoRow}
Owned(f) == {h \in Hooks : f.own[h] # "none"}

\* Every apply another actor has under way notes that the file was written.
TouchedBy(a) ==
  [b \in Actors |->
     IF b = a \/ Stage(b) = "idle" THEN touched[b]
     ELSE IF lock = b THEN "sinceCheck"
     ELSE IF touched[b] = "no" THEN "sinceRead" ELSE touched[b]]

(***************************************************************************)
(* Who starts an apply, and with which selection.                          *)
(***************************************************************************)
\* apply_hook_action: the rules of the moment, or nothing for an uninstall.
WindowBegins ==
  /\ Stage("window") = "idle"
  /\ Spend("actions", MaxActions)
  /\ \E want \in Selections \cup {{}} :
       Goes("window", [Idle EXCEPT !.stage = "begun", !.want = want])
  /\ UNCHANGED <<file, rows, verified, lock, history>>

\* uninstall_hooks_cli: only when the file has entries of ours.
UninstallerBegins ==
  /\ Stage("uninstaller") = "idle"
  /\ Owned(file) # {}
  /\ Spend("actions", MaxActions)
  /\ Goes("uninstaller", [Idle EXCEPT !.stage = "begun"])
  /\ UNCHANGED <<file, rows, verified, lock, history>>

\* The loop takes what is recorded for what is wanted; no rows, nothing to heal.
HealerLists ==
  /\ Stage("healer") = "idle"
  /\ Recorded # {}
  /\ Goes("healer", [Idle EXCEPT !.stage = "listed", !.want = Recorded])
  /\ UNCHANGED <<file, rows, verified, lock, history, spent>>

\* inspect reads the file, and then the rows.
HealerInspects ==
  /\ Stage("healer") = "listed"
  /\ Goes("healer", [proc["healer"] EXCEPT !.stage = "inspecting", !.read = file])
  /\ UNCHANGED <<file, rows, verified, lock, history, spent>>

\* Missing on disk, unless the agent's version is not verified: then the entry
\* asks for an upgrade, which is no damage. Or there without a row, or not as its
\* row describes it.
IsDamageUnlessMissing(form, row) == form # "none" /\ form # row.form   \* a mutant of IsDamage
IsDamage(form, row) == IF form = "none" THEN verified ELSE form # row.form

HealerDecides ==
  /\ Stage("healer") = "inspecting"
  /\ IF \E h \in proc["healer"].want : IsDamage(proc["healer"].read.own[h], rows[h])
     THEN Moves("healer", "begun")
     ELSE Goes("healer", Idle)
  /\ UNCHANGED <<file, rows, verified, lock, history, spent>>

(***************************************************************************)
(* apply                                                                   *)
(***************************************************************************)
Patched(f, want) == [f EXCEPT !.own = [h \in Hooks |-> IF h \in want THEN "ours" ELSE "none"]]
Target(a) == Patched(proc[a].read, proc[a].want)

ReadFile(a) ==
  /\ Stage(a) = "begun"
  /\ Goes(a, [proc[a] EXCEPT !.stage = "read", !.read = file])
  /\ touched' = [touched EXCEPT ![a] = "no"]
  /\ UNCHANGED <<file, rows, verified, lock, observed, uninstalled, spent>>

\* The entries found in f are to be recorded, one by one.
Finds(a, f) ==
  Goes(a, [proc[a] EXCEPT !.stage = "building", !.read = f, !.left = Owned(f)])

\* The file is read once more: when it is as wanted it is not written, only
\* the rows are refreshed.  Otherwise a snapshot of the old entries is stored.
Compare(a) ==
  /\ Stage(a) = "read"
  /\ IF Target(a) = file THEN Finds(a, file) ELSE Moves(a, "patching")
  /\ UNCHANGED <<file, rows, verified, lock, history, spent>>

\* A mutant of Check: the lock is not taken.
CheckUnlocked(a) ==
  IF file = proc[a].read THEN Moves(a, "locked") /\ UNCHANGED lock
                         ELSE Goes(a, Idle) /\ UNCHANGED lock

\* Under the lock the file must still be the one that was read.
Check(a) ==
  IF file = proc[a].read
  THEN Moves(a, "locked") /\ lock' = a
  ELSE Goes(a, Idle) /\ UNCHANGED lock

CheckDrift(a) ==
  /\ Stage(a) = "patching" /\ lock = Nobody
  /\ Check(a)
  /\ UNCHANGED <<file, rows, verified, history, spent>>

LockTimesOut(a) ==
  /\ Stage(a) = "patching" /\ lock # Nobody
  /\ Goes(a, Idle)
  /\ UNCHANGED <<file, rows, verified, lock, history, spent>>

Rename(a) ==
  /\ Stage(a) = "locked"
  /\ file' = Target(a)
  /\ Moves(a, "renamed")
  /\ touched' = TouchedBy(a)
  /\ UNCHANGED <<rows, verified, lock, observed, uninstalled, spent>>

Released(a) == IF lock = a THEN Nobody ELSE lock

\* The file must be the one just written, or the apply fails: the file is
\* replaced by then, the rows are not.
Verify(a) ==
  /\ Stage(a) = "renamed"
  /\ lock' = Released(a)
  /\ IF file = Target(a) THEN Moves(a, "written") ELSE Goes(a, Idle)
  /\ UNCHANGED <<file, rows, verified, history, spent>>

Reread(a) ==
  /\ Stage(a) = "written"
  /\ Finds(a, file)
  /\ UNCHANGED <<file, rows, verified, lock, history, spent>>

\* A mutant of ResolvedTrust: the definition is not compared.
ResolvedTrustByCommand(form, row) == row.trust

\* resolve_trust: a hook seen at work stays trusted while nothing of it changed.
ResolvedTrust(form, row) == IF form = row.form THEN row.trust ELSE "unconfirmed"

BuildRecord(a, h) ==
  /\ Stage(a) = "building" /\ h \in proc[a].left
  /\ LET form == proc[a].read.own[h]
     IN  Goes(a, [proc[a] EXCEPT
           !.left = @ \ {h},
           !.records[h] = [form |-> form, trust |-> ResolvedTrust(form, rows[h])]])
  /\ UNCHANGED <<file, rows, verified, lock, history, spent>>

ReplaceRows(a) ==
  /\ Stage(a) = "building" /\ proc[a].left = {}
  /\ rows' = proc[a].records
  /\ Goes(a, Idle)
  /\ uninstalled' = IF a = "window" THEN proc[a].want = {} ELSE uninstalled
  /\ UNCHANGED <<file, verified, lock, touched, observed, spent>>

\* An error ends the apply, or its process dies: the lock goes with it.
Fails(a) ==
  /\ Stage(a) # "idle"
  /\ Spend("faults", MaxErrors)
  /\ lock' = Released(a)
  /\ Goes(a, Idle)
  /\ UNCHANGED <<file, rows, verified, history>>

Apply(a) ==
  \/ ReadFile(a) \/ Compare(a) \/ CheckDrift(a) \/ LockTimesOut(a)
  \/ Rename(a) \/ Verify(a) \/ Reread(a)
  \/ \E h \in Hooks : BuildRecord(a, h)
  \/ ReplaceRows(a)

(***************************************************************************)
(* Others: the agent runs a hook it has loaded, and its helper's request   *)
(* reaches the application; somebody else writes the file.                 *)
(***************************************************************************)
HookRuns(h) ==
  /\ rows[h] # NoRow
  /\ rows' = [rows EXCEPT ![h].trust = "working"]
  /\ observed' = [observed EXCEPT ![h] = @ \cup {rows[h].form}]
  /\ UNCHANGED <<file, verified, lock, proc, touched, uninstalled, spent>>

AgentWrites ==
  /\ Spend("edits", MaxEdits)
  /\ \E own \in [Hooks -> Forms] : file' = [own |-> own, foreign |-> file.foreign + 1]
  /\ touched' = TouchedBy(Nobody)
  /\ UNCHANGED <<rows, verified, lock, proc, observed, uninstalled>>

\* The agent has another version, and a detection stores how it is verified.
VersionDetected ==
  /\ Spend("edits", MaxEdits)
  /\ verified' = ~verified
  /\ UNCHANGED <<file, rows, lock, proc, history>>

Healer == HealerLists \/ HealerInspects \/ HealerDecides

Next ==
  \/ WindowBegins \/ UninstallerBegins \/ Healer \/ AgentWrites \/ VersionDetected
  \/ \E a \in Actors : Apply(a) \/ Fails(a)
  \/ \E h \in Hooks : HookRuns(h)

Spec == Init /\ [][Next]_vars

\* An apply is a blocking call that runs on; the loop's interval ticks again.
FairSpec ==
  /\ Spec
  /\ WF_vars(Healer)
  /\ \A a \in Actors : WF_vars(Apply(a))
-----------------------------------------------------------------------------
(* Properties *)

\* Every variable keeps its type, and the lock is held by the one at work on
\* the file.
TypeOK ==
  /\ file \in File
  /\ rows \in Rows
  /\ verified \in BOOLEAN
  /\ proc \in [Actors -> Process]
  /\ touched \in [Actors -> {"no", "sinceRead", "sinceCheck"}]
  /\ observed \in [Hooks -> SUBSET Forms]
  /\ uninstalled \in BOOLEAN
  /\ spent \in [{"actions", "edits", "faults"} -> Nat]
  /\ lock \in Actors \cup {Nobody}
  /\ \A a \in Actors : lock = a <=> Stage(a) \in {"locked", "renamed"}

Renames(a) == Stage(a) = "locked" /\ proc'[a].stage = "renamed"

\* An apply never replaces a file it has not read: the application's own
\* writers exclude each other, and only a foreign write that falls between the
\* check and the rename is lost (atomic_replace_checked).
NoBlindOverwrite ==
  [][\A a \in Actors :
       Renames(a) => file = proc[a].read \/ touched[a] = "sinceCheck"]_vars

\* A row says `observed_working` only of a definition under which a run was
\* seen, though the rows are read, kept in memory and replaced by several
\* applies at once while runs are being recorded.
TrustIsEarned ==
  \A h \in Hooks : rows[h].trust = "working" => rows[h].form \in observed[h]

\* What NoBlindOverwrite and TrustIsEarned rest on: the apply that holds the
\* lock has read the file as it is, or someone who does not take the lock wrote
\* it since (atomic_replace_checked); and the records an apply keeps in memory
\* are as earned as the rows it took their trust from (resolve_trust).
LockedKnowsFile ==
  \A a \in Actors : Stage(a) = "locked" => file = proc[a].read \/ touched[a] = "sinceCheck"

Earned(record, h) == record.trust = "working" => record.form \in observed[h]
RecordsAreEarned == \A a \in Actors, h \in Hooks : Earned(proc[a].records[h], h)

IInv == TypeOK /\ LockedKnowsFile /\ TrustIsEarned /\ RecordsAreEarned

\* Damage is healed: a recorded hook that is gone from the file, or not as it
\* was recorded, is put back (or, with the rows lost or replaced, is no longer
\* recorded), again and again. Only what is gone from the file, with nothing else
\* to repair, stays so, and only while the agent's version is not verified.
Damaged == \E h \in Recorded : rows[h].form # file.own[h]
AwaitsUpgrade ==
  ~verified /\ \A h \in Recorded : file.own[h] \in {"none", rows[h].form}
HealsDamage == []<>~Damaged \/ <>[]AwaitsUpgrade

(***************************************************************************)
(* A statement of the source that the code does not keep.                  *)
(***************************************************************************)
\* agents/selfheal.rs: an uninstall in the application deletes the rows, the
\* loop skips the agent and never revives its hooks.
UninstallStays == uninstalled => Recorded = {}
=============================================================================
