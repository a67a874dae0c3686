------------------------ MODULE HookInstallerProofs ------------------------
(***************************************************************************)
(* That no apply overwrites what it has not read, and that a hook's trust  *)
(* is never more than was observed, for any hooks, selections and bounds;  *)
(* then, of the helper the hooks call, that an older one never takes the   *)
(* place of a newer one, for any deploying threads and versions; of        *)
(* detection, that it forgets no version, for any agents and candidates;   *)
(* of the text the installer edits, that it stays one an agent reads, and  *)
(* that it then holds the program's handlers for the wanted events and no  *)
(* other, for any file; and of a hook's command, that the program          *)
(* recognises the one it writes, for any path of the helper's.             *)
(***************************************************************************)
EXTENDS HookInstaller, HelperDeployment, AgentDetection, HookFile,
        FiniteSetTheorems, WellFoundedInduction, TLAPS

(***************************************************************************)
(* The values the steps store                                              *)
(***************************************************************************)
LEMMA NoRowIsRow == NoRow \in Row
  BY DEF NoRow, Row, Forms

LEMMA EmptyFileIsFile == EmptyFile \in File
  <1>1. [h \in Hooks |-> "none"] \in [Hooks -> Forms]
    BY DEF Forms
  <1> QED BY <1>1 DEF EmptyFile, File

LEMMA IdleIsProcess == Idle \in Process
  <1>1. [h \in Hooks |-> NoRow] \in Rows
    BY NoRowIsRow DEF Rows
  <1> QED BY <1>1, EmptyFileIsFile DEF Idle, Process, Stages

\* Idle has the empty file and records nothing that is trusted.
LEMMA IdleFields ==
  /\ Idle.stage = "idle"
  /\ \A h \in Hooks : ~ (Idle.records[h].trust = "working")
  BY DEF Idle, NoRow

LEMMA PatchedIsFile ==
  ASSUME NEW f \in File, NEW want \in SUBSET Hooks
  PROVE  Patched(f, want) \in File
  <1>1. [h \in Hooks |-> IF h \in want THEN "ours" ELSE "none"] \in [Hooks -> Forms]
    BY DEF Forms
  <1> QED BY <1>1 DEF Patched, File

\* What one actor's step does to the processes of all.
LEMMA GoesTyped ==
  ASSUME proc \in [Actors -> Process], NEW a \in Actors, NEW p \in Process, Goes(a, p)
  PROVE  /\ proc' \in [Actors -> Process]
         /\ proc'[a] = p
         /\ \A b \in Actors : b # a => proc'[b] = proc[b]
  BY DEF Goes

LEMMA SpendTyped ==
  ASSUME spent \in [{"actions", "edits", "faults"} -> Nat],
         NEW bound \in {"actions", "edits", "faults"}, NEW limit \in Nat, Spend(bound, limit)
  PROVE  spent' \in [{"actions", "edits", "faults"} -> Nat]
  BY DEF Spend

LEMMA TouchedByTyped ==
  ASSUME touched \in [Actors -> {"no", "sinceRead", "sinceCheck"}], NEW a
  PROVE  TouchedBy(a) \in [Actors -> {"no", "sinceRead", "sinceCheck"}]
  BY DEF TouchedBy

\* The actors, and that nobody is none of them.
LEMMA NobodyIsNoActor == Nobody \notin Actors
  BY DEF Nobody, Actors

(***************************************************************************)
(* The lock                                                                *)
(***************************************************************************)
LockHeld == \A a \in Actors : lock = a <=> Stage(a) \in {"locked", "renamed"}

\* A step between two stages outside the lock leaves who holds it alone.
LEMMA LockUntouched ==
  ASSUME LockHeld, NEW a \in Actors, UNCHANGED lock,
         Stage(a) \notin {"locked", "renamed"}, proc'[a].stage \notin {"locked", "renamed"},
         \A b \in Actors : b # a => proc'[b] = proc[b]
  PROVE  LockHeld'
  BY DEF LockHeld, Stage

\* An actor that goes idle gives back the lock, if it has it.
LEMMA LockReleased ==
  ASSUME LockHeld, NEW a \in Actors, lock \in Actors \cup {Nobody}, lock' = Released(a),
         proc'[a].stage \notin {"locked", "renamed"},
         \A b \in Actors : b # a => proc'[b] = proc[b]
  PROVE  LockHeld' /\ lock' \in Actors \cup {Nobody}
  BY NobodyIsNoActor DEF LockHeld, Stage, Released

(***************************************************************************)
(* Types                                                                   *)
(***************************************************************************)
LEMMA TypeInit == Init => TypeOK
  <1> SUFFICES ASSUME Init PROVE TypeOK
    OBVIOUS
  <1>1. file \in File /\ rows \in Rows
    BY EmptyFileIsFile, NoRowIsRow DEF Init, Rows
  <1>2. proc \in [Actors -> Process] /\ lock = Nobody
    BY IdleIsProcess DEF Init
  <1>3. \A a \in Actors : Stage(a) = "idle"
    BY IdleFields DEF Init, Stage
  <1>4. /\ verified \in BOOLEAN
        /\ touched \in [Actors -> {"no", "sinceRead", "sinceCheck"}]
        /\ observed \in [Hooks -> SUBSET Forms]
        /\ uninstalled \in BOOLEAN
        /\ spent \in [{"actions", "edits", "faults"} -> Nat]
    BY DEF Init
  <1> QED BY <1>1, <1>2, <1>3, <1>4, NobodyIsNoActor DEF TypeOK

\* The types of what an apply's steps leave in memory.
LEMMA MovedIsProcess ==
  ASSUME TypeOK, NEW a \in Actors, NEW stage \in Stages
  PROVE  /\ [proc[a] EXCEPT !.stage = stage] \in Process
         /\ [proc[a] EXCEPT !.stage = stage].stage = stage
  BY DEF TypeOK, Process

LEMMA ReadIsProcess ==
  ASSUME TypeOK, NEW a \in Actors, NEW stage \in Stages, NEW left \in SUBSET Hooks
  PROVE  /\ [proc[a] EXCEPT !.stage = stage, !.read = file] \in Process
         /\ [proc[a] EXCEPT !.stage = stage, !.read = file, !.left = left] \in Process
  BY DEF TypeOK, Process

LEMMA OwnedHooks == \A f : Owned(f) \in SUBSET Hooks
  BY DEF Owned

LEMMA BuiltIsProcess ==
  ASSUME TypeOK, NEW a \in Actors, NEW h \in Hooks, NEW record \in Row
  PROVE  [proc[a] EXCEPT !.left = @ \ {h}, !.records[h] = record] \in Process
  BY DEF TypeOK, Process, Rows

LEMMA BegunIsProcess ==
  ASSUME NEW stage \in Stages, NEW want \in SUBSET Hooks
  PROVE  /\ [Idle EXCEPT !.stage = stage, !.want = want] \in Process
         /\ [Idle EXCEPT !.stage = stage] \in Process
  BY IdleIsProcess DEF Process

BesidesOK ==
  /\ verified \in BOOLEAN
  /\ touched \in [Actors -> {"no", "sinceRead", "sinceCheck"}]
  /\ observed \in [Hooks -> SUBSET Forms]
  /\ uninstalled \in BOOLEAN
  /\ spent \in [{"actions", "edits", "faults"} -> Nat]

LEMMA TypeParts ==
  TypeOK <=> /\ file \in File /\ rows \in Rows /\ proc \in [Actors -> Process]
             /\ BesidesOK /\ lock \in Actors \cup {Nobody} /\ LockHeld
  BY DEF TypeOK, BesidesOK, LockHeld

\* A step that reads and goes on, outside the lock.
LEMMA QuietStep ==
  ASSUME TypeOK, NEW a \in Actors, NEW p \in Process, Goes(a, p),
         Stage(a) \notin {"locked", "renamed"}, p.stage \notin {"locked", "renamed"},
         UNCHANGED <<file, lock>>, rows' \in Rows, BesidesOK'
  PROVE  TypeOK'
  <1>1. /\ proc' \in [Actors -> Process] /\ proc'[a] = p
        /\ \A b \in Actors : b # a => proc'[b] = proc[b]
    BY GoesTyped DEF TypeOK
  <1>2. LockHeld'
    BY <1>1, LockUntouched, TypeParts
  <1> QED BY <1>1, <1>2 DEF TypeOK, BesidesOK, LockHeld

\* A step that ends the apply and gives back what it holds.
LEMMA EndingStep ==
  ASSUME TypeOK, NEW a \in Actors, NEW p \in Process, Goes(a, p),
         p.stage \notin {"locked", "renamed"}, lock' = Released(a),
         UNCHANGED <<file, rows>>, BesidesOK'
  PROVE  TypeOK'
  <1>1. /\ proc' \in [Actors -> Process] /\ proc'[a] = p
        /\ \A b \in Actors : b # a => proc'[b] = proc[b]
    BY GoesTyped DEF TypeOK
  <1>2. LockHeld' /\ lock' \in Actors \cup {Nobody}
    BY <1>1, LockReleased, TypeParts
  <1> QED BY <1>1, <1>2 DEF TypeOK, BesidesOK, LockHeld

LEMMA TypeBegin ==
  ASSUME TypeOK, WindowBegins \/ UninstallerBegins \/ HealerLists
  PROVE  TypeOK'
  <1> USE HookAssumption
  <1>1. BesidesOK
    BY TypeParts
  <1>2. CASE WindowBegins
    <2>1. PICK want \in Selections \cup {{}} :
            Goes("window", [Idle EXCEPT !.stage = "begun", !.want = want])
      BY <1>2 DEF WindowBegins
    <2>2. BesidesOK'
      BY <1>1, <1>2, SpendTyped DEF WindowBegins, BesidesOK, history
    <2>3. want \in SUBSET Hooks
      OBVIOUS
    <2>4. [Idle EXCEPT !.stage = "begun", !.want = want] \in Process
      BY <2>3, BegunIsProcess DEF Stages
    <2>5. [Idle EXCEPT !.stage = "begun", !.want = want].stage = "begun"
      BY DEF Idle
    <2> QED BY <1>2, <2>1, <2>2, <2>4, <2>5, QuietStep, TypeParts DEF WindowBegins, Actors
  <1>3. CASE UninstallerBegins
    <2>1. BesidesOK'
      BY <1>1, <1>3, SpendTyped DEF UninstallerBegins, BesidesOK, history
    <2>2. [Idle EXCEPT !.stage = "begun"] \in Process
      BY BegunIsProcess DEF Stages
    <2>3. [Idle EXCEPT !.stage = "begun"].stage = "begun"
      BY DEF Idle
    <2> QED BY <1>3, <2>1, <2>2, <2>3, QuietStep, TypeParts DEF UninstallerBegins, Actors
  <1>4. CASE HealerLists
    <2>1. BesidesOK'
      BY <1>1, <1>4 DEF HealerLists, BesidesOK, history
    <2>2. [Idle EXCEPT !.stage = "listed", !.want = Recorded] \in Process
      BY BegunIsProcess DEF Stages, Recorded
    <2>3. [Idle EXCEPT !.stage = "listed", !.want = Recorded].stage = "listed"
      BY DEF Idle
    <2> QED BY <1>4, <2>1, <2>2, <2>3, QuietStep, TypeParts DEF HealerLists, Actors
  <1> QED BY <1>2, <1>3, <1>4

LEMMA TypeHealer ==
  ASSUME TypeOK, HealerInspects \/ HealerDecides
  PROVE  TypeOK'
  <1>1. BesidesOK'
    BY TypeParts DEF HealerInspects, HealerDecides, BesidesOK, history
  <1>2. "healer" \in Actors
    BY DEF Actors
  <1>3. CASE HealerInspects
    <2> DEFINE p == [proc["healer"] EXCEPT !.stage = "inspecting", !.read = file]
    <2>1. p \in Process
      BY <1>2, ReadIsProcess DEF Stages
    <2>2. p.stage = "inspecting"
      BY <1>2 DEF TypeOK, Process
    <2> HIDE DEF p
    <2>3. Goes("healer", p)
      BY <1>3 DEF HealerInspects, p
    <2> QED BY <1>1, <1>2, <1>3, <2>1, <2>2, <2>3, QuietStep, TypeParts DEF HealerInspects
  <1>4. CASE HealerDecides
    <2>1. Stage("healer") = "inspecting" /\ UNCHANGED <<file, rows, lock>>
      BY <1>4 DEF HealerDecides
    <2>2. Goes("healer", Idle) \/ Moves("healer", "begun")
      BY <1>4 DEF HealerDecides
    <2>3. CASE Goes("healer", Idle)
      BY <1>1, <1>2, <2>1, <2>3, IdleIsProcess, IdleFields, QuietStep, TypeParts
    <2>4. CASE Moves("healer", "begun")
      BY <1>1, <1>2, <2>1, <2>4, MovedIsProcess, QuietStep, TypeParts DEF Moves, Stages
    <2> QED BY <2>2, <2>3, <2>4
  <1> QED BY <1>3, <1>4

LEMMA TypeReading ==
  ASSUME TypeOK, NEW a \in Actors, ReadFile(a) \/ Compare(a) \/ Reread(a)
  PROVE  TypeOK'
  <1>1. CASE ReadFile(a)
    <2> DEFINE p == [proc[a] EXCEPT !.stage = "read", !.read = file]
    <2>1. p \in Process
      BY ReadIsProcess DEF Stages
    <2>2. p.stage = "read"
      BY DEF TypeOK, Process
    <2> HIDE DEF p
    <2>3. Goes(a, p)
      BY <1>1 DEF ReadFile, p
    <2>4. BesidesOK'
      BY <1>1 DEF TypeOK, ReadFile, BesidesOK
    <2> QED BY <1>1, <2>1, <2>2, <2>3, <2>4, QuietStep, TypeParts DEF ReadFile
  <1> DEFINE p == [proc[a] EXCEPT !.stage = "building", !.read = file, !.left = Owned(file)]
  <1>2. p \in Process
    BY ReadIsProcess, OwnedHooks DEF Stages
  <1>3. p.stage = "building"
    BY DEF TypeOK, Process
  <1> HIDE DEF p
  <1>4. CASE Compare(a)
    <2>1. BesidesOK'
      BY <1>4, TypeParts DEF Compare, BesidesOK, history
    <2>2. Stage(a) = "read" /\ UNCHANGED <<file, rows, lock>>
      BY <1>4 DEF Compare
    <2>3. Goes(a, p) \/ Moves(a, "patching")
      BY <1>4 DEF Compare, Finds, p
    <2>4. CASE Goes(a, p)
      BY <1>2, <1>3, <2>1, <2>2, <2>4, QuietStep, TypeParts
    <2>5. CASE Moves(a, "patching")
      BY <2>1, <2>2, <2>5, MovedIsProcess, QuietStep, TypeParts DEF Moves, Stages
    <2> QED BY <2>3, <2>4, <2>5
  <1>5. CASE Reread(a)
    <2>1. BesidesOK'
      BY <1>5, TypeParts DEF Reread, BesidesOK, history
    <2>2. Goes(a, p)
      BY <1>5 DEF Reread, Finds, p
    <2> QED BY <1>2, <1>3, <1>5, <2>1, <2>2, QuietStep, TypeParts DEF Reread
  <1> QED BY <1>1, <1>4, <1>5

\* Only the one that takes the lock, and the one that has it, are at the file.
LEMMA TypeLocking ==
  ASSUME TypeOK, NEW a \in Actors, CheckDrift(a) \/ LockTimesOut(a) \/ Rename(a) \/ Verify(a)
  PROVE  TypeOK'
  <1>1. CASE CheckDrift(a)
    <2>1. BesidesOK'
      BY <1>1, TypeParts DEF CheckDrift, BesidesOK, history
    <2>2. Stage(a) = "patching" /\ lock = Nobody /\ UNCHANGED <<file, rows>>
      BY <1>1 DEF CheckDrift
    <2>3. CASE Moves(a, "locked") /\ lock' = a
      <3>1. /\ [proc[a] EXCEPT !.stage = "locked"] \in Process
            /\ [proc[a] EXCEPT !.stage = "locked"].stage = "locked"
        BY MovedIsProcess DEF Stages
      <3>2. /\ proc' \in [Actors -> Process] /\ proc'[a].stage = "locked"
            /\ \A b \in Actors : b # a => proc'[b] = proc[b]
        BY <2>3, <3>1, GoesTyped DEF Moves, TypeOK
      <3>3. LockHeld'
        BY <2>2, <2>3, <3>2, TypeParts, NobodyIsNoActor DEF LockHeld, Stage
      <3> QED BY <2>1, <2>2, <2>3, <3>2, <3>3 DEF TypeOK, BesidesOK, LockHeld
    <2>4. CASE Goes(a, Idle) /\ UNCHANGED lock
      BY <2>1, <2>2, <2>4, IdleIsProcess, IdleFields, QuietStep, TypeParts
    <2> QED BY <1>1, <2>3, <2>4 DEF CheckDrift, Check
  <1>2. CASE LockTimesOut(a)
    <2>1. BesidesOK'
      BY <1>2, TypeParts DEF LockTimesOut, BesidesOK, history
    <2> QED BY <1>2, <2>1, IdleIsProcess, IdleFields, QuietStep, TypeParts DEF LockTimesOut
  <1>3. CASE Rename(a)
    <2>1. BesidesOK'
      BY <1>3, TouchedByTyped, TypeParts DEF Rename, BesidesOK
    <2>2. file' \in File
      BY <1>3, PatchedIsFile DEF Rename, Target, TypeOK, Process
    <2>3. /\ [proc[a] EXCEPT !.stage = "renamed"] \in Process
          /\ [proc[a] EXCEPT !.stage = "renamed"].stage = "renamed"
      BY MovedIsProcess DEF Stages
    <2>4. /\ proc' \in [Actors -> Process] /\ proc'[a].stage = "renamed"
          /\ \A b \in Actors : b # a => proc'[b] = proc[b]
      BY <1>3, <2>3, GoesTyped DEF Rename, Moves, TypeOK
    <2>5. LockHeld'
      BY <1>3, <2>4, TypeParts DEF Rename, LockHeld, Stage
    <2> QED BY <1>3, <2>1, <2>2, <2>4, <2>5 DEF Rename, TypeOK, BesidesOK, LockHeld
  <1>4. CASE Verify(a)
    <2>1. BesidesOK'
      BY <1>4, TypeParts DEF Verify, BesidesOK, history
    <2>2. lock' = Released(a) /\ UNCHANGED <<file, rows>>
      BY <1>4 DEF Verify
    <2>3. CASE Moves(a, "written")
      BY <2>1, <2>2, <2>3, MovedIsProcess, EndingStep DEF Moves, Stages
    <2>4. CASE Goes(a, Idle)
      BY <2>1, <2>2, <2>4, IdleIsProcess, IdleFields, EndingStep
    <2> QED BY <1>4, <2>3, <2>4 DEF Verify
  <1> QED BY <1>1, <1>2, <1>3, <1>4

LEMMA TypeRecording ==
  ASSUME TypeOK, NEW a \in Actors,
         (\E h \in Hooks : BuildRecord(a, h)) \/ ReplaceRows(a) \/ Fails(a)
  PROVE  TypeOK'
  <1>1. ASSUME NEW h \in Hooks, BuildRecord(a, h) PROVE TypeOK'
    <2> DEFINE form == proc[a].read.own[h]
               record == [form |-> form, trust |-> ResolvedTrust(form, rows[h])]
               p == [proc[a] EXCEPT !.left = @ \ {h}, !.records[h] = record]
    <2>1. form \in Forms
      BY DEF TypeOK, Process, File
    <2>2. rows[h] \in Row
      BY DEF TypeOK, Rows
    <2>3. record \in Row
      BY <2>1, <2>2 DEF Row, ResolvedTrust
    <2>4. Goes(a, p) /\ Stage(a) = "building" /\ UNCHANGED <<file, rows, lock>>
      BY <1>1 DEF BuildRecord
    <2> HIDE DEF record
    <2>5. p \in Process
      BY <2>3, BuiltIsProcess
    <2>6. p.stage = "building"
      BY <2>4 DEF Stage, TypeOK, Process
    <2>7. BesidesOK'
      BY <1>1, TypeParts DEF BuildRecord, BesidesOK, history
    <2> QED BY <2>4, <2>5, <2>6, <2>7, QuietStep, TypeParts
  <1>2. CASE ReplaceRows(a)
    <2>1. BesidesOK'
      BY <1>2, TypeParts DEF ReplaceRows, BesidesOK
    <2>2. rows' \in Rows
      BY <1>2 DEF ReplaceRows, TypeOK, Process
    <2> QED BY <1>2, <2>1, <2>2, IdleIsProcess, IdleFields, QuietStep, TypeParts
        DEF ReplaceRows
  <1>3. CASE Fails(a)
    <2>1. BesidesOK'
      BY <1>3, HookAssumption, SpendTyped, TypeParts DEF Fails, BesidesOK, history
    <2> QED BY <1>3, <2>1, IdleIsProcess, IdleFields, EndingStep DEF Fails
  <1> QED BY <1>1, <1>2, <1>3

LEMMA TypeOthers ==
  ASSUME TypeOK, (\E h \in Hooks : HookRuns(h)) \/ AgentWrites \/ VersionDetected
  PROVE  TypeOK'
  <1>1. ASSUME NEW h \in Hooks, HookRuns(h) PROVE TypeOK'
    <2>1. rows' \in Rows
      BY <1>1 DEF HookRuns, TypeOK, Rows, Row
    <2>2. rows[h].form \in Forms
      BY DEF TypeOK, Rows, Row
    <2>3. observed' \in [Hooks -> SUBSET Forms]
      BY <1>1, <2>2 DEF HookRuns, TypeOK
    <2>4. BesidesOK'
      BY <1>1, <2>3, TypeParts DEF HookRuns, BesidesOK
    <2>5. LockHeld'
      BY <1>1, TypeParts DEF HookRuns, LockHeld, Stage
    <2> QED BY <1>1, <2>1, <2>4, <2>5 DEF HookRuns, TypeOK, BesidesOK, LockHeld
  <1>2. CASE AgentWrites
    <2>1. file' \in File
      <3>1. PICK own \in [Hooks -> Forms] : file' = [own |-> own, foreign |-> file.foreign + 1]
        BY <1>2 DEF AgentWrites
      <3>2. file.foreign \in Nat
        BY DEF TypeOK, File
      <3> QED BY <3>1, <3>2 DEF File
    <2>2. BesidesOK'
      BY <1>2, HookAssumption, SpendTyped, TouchedByTyped, TypeParts DEF AgentWrites, BesidesOK
    <2>3. LockHeld'
      BY <1>2, TypeParts DEF AgentWrites, LockHeld, Stage
    <2> QED BY <1>2, <2>1, <2>2, <2>3 DEF AgentWrites, TypeOK, BesidesOK, LockHeld
  <1>3. CASE VersionDetected
    <2>1. BesidesOK'
      BY <1>3, HookAssumption, SpendTyped, TypeParts DEF VersionDetected, BesidesOK, history
    <2>2. LockHeld'
      BY <1>3, TypeParts DEF VersionDetected, LockHeld, Stage
    <2> QED BY <1>3, <2>1, <2>2 DEF VersionDetected, TypeOK, BesidesOK, LockHeld
  <1> QED BY <1>1, <1>2, <1>3

LEMMA TypeStep == TypeOK /\ [Next]_vars => TypeOK'
  <1> SUFFICES ASSUME TypeOK, [Next]_vars PROVE TypeOK'
    OBVIOUS
  <1>1. CASE WindowBegins \/ UninstallerBegins \/ HealerLists
    BY <1>1, TypeBegin
  <1>2. CASE HealerInspects \/ HealerDecides
    BY <1>2, TypeHealer
  <1>3. ASSUME NEW a \in Actors, Apply(a) \/ Fails(a) PROVE TypeOK'
    BY <1>3, TypeReading, TypeLocking, TypeRecording DEF Apply
  <1>4. CASE (\E h \in Hooks : HookRuns(h)) \/ AgentWrites \/ VersionDetected
    BY <1>4, TypeOthers
  <1>5. CASE UNCHANGED vars
    BY <1>5 DEF vars, history, TypeOK, Stage
  <1> QED BY <1>1, <1>2, <1>3, <1>4, <1>5 DEF Next, Healer

(***************************************************************************)
(* The file under the lock                                                 *)
(***************************************************************************)
\* A step of one actor that does not end at the lock, and writes nothing.
LEMMA FileNotWritten ==
  ASSUME LockedKnowsFile, NEW a \in Actors, UNCHANGED file,
         proc'[a].stage # "locked",
         \A b \in Actors : b # a => proc'[b] = proc[b] /\ touched'[b] = touched[b]
  PROVE  LockedKnowsFile'
  BY DEF LockedKnowsFile, Stage

\* Where each step of an actor's apply leaves its process, and the others'.
LEMMA OneMoves ==
  ASSUME TypeOK, NEW a \in Actors, NEW p, Goes(a, p)
  PROVE  proc'[a] = p /\ \A b \in Actors : b # a => proc'[b] = proc[b]
  BY DEF Goes, TypeOK

LEMMA OneMovesTo ==
  ASSUME TypeOK, NEW a \in Actors, NEW stage \in Stages, Moves(a, stage)
  PROVE  /\ proc'[a].stage = stage /\ proc'[a].read = proc[a].read
         /\ proc'[a].records = proc[a].records
         /\ \A b \in Actors : b # a => proc'[b] = proc[b]
  BY DEF Moves, Goes, TypeOK, Process

LEMMA KnowsFileStep == TypeOK /\ LockedKnowsFile /\ [Next]_vars => LockedKnowsFile'
  <1> SUFFICES ASSUME TypeOK, LockedKnowsFile, [Next]_vars PROVE LockedKnowsFile'
    OBVIOUS
  <1>a. ASSUME NEW a \in Actors, NEW p, Goes(a, p), p.stage # "locked", UNCHANGED <<file, touched>>
        PROVE  LockedKnowsFile'
    BY <1>a, OneMoves, FileNotWritten
  <1>b. ASSUME NEW a \in Actors, NEW stage \in Stages, Moves(a, stage), stage # "locked",
               UNCHANGED <<file, touched>>
        PROVE  LockedKnowsFile'
    BY <1>b, OneMovesTo, FileNotWritten
  <1>1. CASE WindowBegins
    <2>1. PICK want \in Selections \cup {{}} :
            Goes("window", [Idle EXCEPT !.stage = "begun", !.want = want])
      BY <1>1 DEF WindowBegins
    <2>2. [Idle EXCEPT !.stage = "begun", !.want = want].stage = "begun"
      BY DEF Idle
    <2> QED BY <1>1, <1>a, <2>1, <2>2 DEF WindowBegins, Actors, history
  <1>2. CASE UninstallerBegins \/ HealerLists
    <2>1. /\ [Idle EXCEPT !.stage = "begun"].stage = "begun"
          /\ [Idle EXCEPT !.stage = "listed", !.want = Recorded].stage = "listed"
      BY DEF Idle
    <2> QED BY <1>2, <1>a, <2>1 DEF UninstallerBegins, HealerLists, Actors, history
  <1>3. CASE HealerInspects
    <2>1. [proc["healer"] EXCEPT !.stage = "inspecting", !.read = file].stage = "inspecting"
      BY DEF TypeOK, Process, Actors
    <2> QED BY <1>3, <1>a, <2>1 DEF HealerInspects, Actors, history
  <1>4. CASE HealerDecides
    BY <1>4, <1>a, <1>b, IdleFields DEF HealerDecides, Actors, history, Stages
  <1>5. ASSUME NEW a \in Actors, Apply(a) \/ Fails(a) PROVE LockedKnowsFile'
    <2>1. CASE ReadFile(a)
      <3>1. [proc[a] EXCEPT !.stage = "read", !.read = file].stage = "read"
        BY DEF TypeOK, Process
      <3>2. proc'[a].stage = "read" /\ \A b \in Actors : b # a => proc'[b] = proc[b]
        BY <2>1, <3>1, OneMoves DEF ReadFile
      <3>3. \A b \in Actors : b # a => touched'[b] = touched[b]
        BY <2>1 DEF ReadFile, TypeOK
      <3> QED BY <2>1, <3>2, <3>3, FileNotWritten DEF ReadFile
    <2>2. CASE Compare(a) \/ Reread(a)
      <3>1. [proc[a] EXCEPT !.stage = "building", !.read = file, !.left = Owned(file)].stage
              = "building"
        BY DEF TypeOK, Process
      <3> QED BY <2>2, <3>1, <1>a, <1>b DEF Compare, Reread, Finds, history, Stages
    <2>3. CASE CheckDrift(a)
      <3>1. UNCHANGED <<file, touched>>
        BY <2>3 DEF CheckDrift, history
      <3>2. CASE file = proc[a].read /\ Moves(a, "locked")
        <4>1. /\ proc'[a].read = proc[a].read
              /\ \A b \in Actors : b # a => proc'[b] = proc[b]
          BY <3>2, OneMovesTo DEF Stages
        <4> QED BY <3>1, <3>2, <4>1 DEF LockedKnowsFile, Stage
      <3>3. CASE Goes(a, Idle)
        BY <3>1, <3>3, <1>a, IdleFields
      <3> QED BY <2>3, <3>2, <3>3 DEF CheckDrift, Check
    <2>4. CASE LockTimesOut(a) \/ Verify(a) \/ Fails(a)
      BY <2>4, <1>a, <1>b, IdleFields DEF LockTimesOut, Verify, Fails, history, Stages
    <2>5. CASE Rename(a)
      \* The one that renames has the lock: nobody else is at the same point.
      <3>1. /\ proc'[a].stage = "renamed"
            /\ \A b \in Actors : b # a => proc'[b] = proc[b]
        BY <2>5, OneMovesTo DEF Rename, Stages
      <3>2. \A b \in Actors : b # a => Stage(b) # "locked"
        BY <2>5 DEF Rename, TypeOK
      <3> QED BY <3>1, <3>2 DEF LockedKnowsFile, Stage
    <2>6. ASSUME NEW h \in Hooks, BuildRecord(a, h) PROVE LockedKnowsFile'
      <3> DEFINE p == [proc[a] EXCEPT
                         !.left = @ \ {h},
                         !.records[h] = [form |-> proc[a].read.own[h],
                                         trust |-> ResolvedTrust(proc[a].read.own[h], rows[h])]]
      <3>1. p.stage = "building"
        BY <2>6 DEF BuildRecord, Stage, TypeOK, Process
      <3>2. Goes(a, p)
        BY <2>6 DEF BuildRecord
      <3> HIDE DEF p
      <3> QED BY <2>6, <3>1, <3>2, <1>a DEF BuildRecord, history
    <2>7. CASE ReplaceRows(a)
      BY <2>7, <1>a, IdleFields DEF ReplaceRows
    <2> QED BY <1>5, <2>1, <2>2, <2>3, <2>4, <2>5, <2>6, <2>7 DEF Apply
  <1>6. ASSUME NEW h \in Hooks, HookRuns(h) PROVE LockedKnowsFile'
    BY <1>6 DEF HookRuns, LockedKnowsFile, Stage
  <1>7. CASE AgentWrites
    \* Whoever has passed the check has it noted.
    <2>1. \A b \in Actors : Stage(b) = "locked" => touched'[b] = "sinceCheck"
      BY <1>7, NobodyIsNoActor DEF AgentWrites, TouchedBy, TypeOK
    <2> QED BY <1>7, <2>1 DEF AgentWrites, LockedKnowsFile, Stage
  <1>8. CASE UNCHANGED vars
    BY <1>8 DEF vars, history, LockedKnowsFile, Stage
  <1>9. CASE VersionDetected
    BY <1>9 DEF VersionDetected, history, LockedKnowsFile, Stage
  <1> QED BY <1>1, <1>2, <1>3, <1>4, <1>5, <1>6, <1>7, <1>8, <1>9 DEF Next, Healer

(***************************************************************************)
(* Trust                                                                   *)
(***************************************************************************)
\* A step that leaves rows and observations alone, and records nothing new.
LEMMA NothingRecorded ==
  ASSUME TypeOK, RecordsAreEarned, TrustIsEarned, NEW a \in Actors, NEW p, Goes(a, p),
         UNCHANGED <<rows, observed>>,
         \A h \in Hooks : p.records[h] = proc[a].records[h] \/ p.records[h] = Idle.records[h]
  PROVE  TrustIsEarned' /\ RecordsAreEarned'
  <1>1. proc'[a] = p /\ \A b \in Actors : b # a => proc'[b] = proc[b]
    BY OneMoves
  <1>2. RecordsAreEarned'
    BY <1>1, IdleFields DEF RecordsAreEarned, Earned
  <1> QED BY <1>2 DEF TrustIsEarned

LEMMA EarnedStep ==
  TypeOK /\ TrustIsEarned /\ RecordsAreEarned /\ [Next]_vars => TrustIsEarned' /\ RecordsAreEarned'
  <1> SUFFICES ASSUME TypeOK, TrustIsEarned, RecordsAreEarned, [Next]_vars
               PROVE  TrustIsEarned' /\ RecordsAreEarned'
    OBVIOUS
  <1>a. ASSUME NEW a \in Actors, Goes(a, Idle), UNCHANGED <<rows, observed>>
        PROVE  TrustIsEarned' /\ RecordsAreEarned'
    BY <1>a, NothingRecorded
  <1>b. ASSUME NEW a \in Actors, NEW stage \in Stages, Moves(a, stage), UNCHANGED <<rows, observed>>
        PROVE  TrustIsEarned' /\ RecordsAreEarned'
    <2> DEFINE p == [proc[a] EXCEPT !.stage = stage]
    <2>1. p.records = proc[a].records
      BY DEF TypeOK, Process
    <2>2. Goes(a, p)
      BY <1>b DEF Moves
    <2> HIDE DEF p
    <2>3. \A h \in Hooks : p.records[h] = proc[a].records[h]
      BY <2>1
    <2> QED BY <1>b, <2>2, <2>3, NothingRecorded
  <1>1. CASE WindowBegins
    <2>1. PICK want \in Selections \cup {{}} :
            Goes("window", [Idle EXCEPT !.stage = "begun", !.want = want])
      BY <1>1 DEF WindowBegins
    <2>2. [Idle EXCEPT !.stage = "begun", !.want = want].records = Idle.records
      BY DEF Idle
    <2> QED BY <1>1, <2>1, <2>2, NothingRecorded DEF WindowBegins, Actors, history
  <1>2. CASE UninstallerBegins \/ HealerLists
    <2>1. /\ [Idle EXCEPT !.stage = "begun"].records = Idle.records
          /\ [Idle EXCEPT !.stage = "listed", !.want = Recorded].records = Idle.records
      BY DEF Idle
    <2> QED BY <1>2, <2>1, NothingRecorded DEF UninstallerBegins, HealerLists, Actors, history
  <1>3. CASE HealerInspects
    <2>1. [proc["healer"] EXCEPT !.stage = "inspecting", !.read = file].records
            = proc["healer"].records
      BY DEF TypeOK, Process, Actors
    <2> QED BY <1>3, <2>1, NothingRecorded DEF HealerInspects, Actors, history
  <1>4. CASE HealerDecides
    BY <1>4, <1>a, <1>b DEF HealerDecides, Actors, history, Stages
  <1>5. ASSUME NEW a \in Actors, Apply(a) \/ Fails(a) PROVE TrustIsEarned' /\ RecordsAreEarned'
    <2>1. CASE ReadFile(a)
      <3>1. [proc[a] EXCEPT !.stage = "read", !.read = file].records = proc[a].records
        BY DEF TypeOK, Process
      <3> QED BY <2>1, <3>1, NothingRecorded DEF ReadFile
    <2>2. CASE Compare(a) \/ Reread(a)
      <3>1. [proc[a] EXCEPT !.stage = "building", !.read = file, !.left = Owned(file)].records
              = proc[a].records
        BY DEF TypeOK, Process
      <3>2. CASE Finds(a, file)
        BY <2>2, <3>1, <3>2, NothingRecorded DEF Compare, Reread, Finds, history
      <3> QED BY <2>2, <3>2, <1>b DEF Compare, Reread, history, Stages
    <2>3. CASE CheckDrift(a) \/ LockTimesOut(a) \/ Rename(a) \/ Verify(a) \/ Fails(a)
      BY <2>3, <1>a, <1>b
      DEF CheckDrift, Check, LockTimesOut, Rename, Verify, Fails, history, Stages
    <2>4. ASSUME NEW h \in Hooks, BuildRecord(a, h) PROVE TrustIsEarned' /\ RecordsAreEarned'
      \* The form that keeps the row's trust is the row's form.
      <3> DEFINE form == proc[a].read.own[h]
                 record == [form |-> form, trust |-> ResolvedTrust(form, rows[h])]
      <3>1. Earned(record, h)
        BY DEF Earned, ResolvedTrust, TrustIsEarned
      <3>2. Goes(a, [proc[a] EXCEPT !.left = @ \ {h}, !.records[h] = record])
        BY <2>4 DEF BuildRecord
      <3> HIDE DEF record
      <3>3. \A g \in Hooks :
              [proc[a] EXCEPT !.left = @ \ {h}, !.records[h] = record].records[g]
                = IF g = h THEN record ELSE proc[a].records[g]
        BY DEF TypeOK, Process, Rows
      <3>4. \A g \in Hooks : proc'[a].records[g] = IF g = h THEN record ELSE proc[a].records[g]
        BY <3>2, <3>3, OneMoves
      <3>5. \A b \in Actors : b # a => proc'[b] = proc[b]
        BY <3>2, OneMoves
      <3>6. UNCHANGED <<rows, observed>>
        BY <2>4 DEF BuildRecord, history
      <3> QED BY <3>1, <3>4, <3>5, <3>6 DEF RecordsAreEarned, TrustIsEarned, Earned
    <2>5. CASE ReplaceRows(a)
      <3>1. proc'[a] = Idle /\ \A b \in Actors : b # a => proc'[b] = proc[b]
        BY <2>5, OneMoves DEF ReplaceRows
      <3>2. rows' = proc[a].records /\ observed' = observed
        BY <2>5 DEF ReplaceRows
      <3> QED BY <3>1, <3>2, IdleFields DEF RecordsAreEarned, TrustIsEarned, Earned
    <2> QED BY <1>5, <2>1, <2>2, <2>3, <2>4, <2>5 DEF Apply
  <1>6. ASSUME NEW h \in Hooks, HookRuns(h) PROVE TrustIsEarned' /\ RecordsAreEarned'
    \* What was observed is never forgotten, and the form of the row is added.
    <2>1. \A g \in Hooks : observed[g] \subseteq observed'[g]
      BY <1>6 DEF HookRuns, TypeOK
    <2>2. rows'[h].form = rows[h].form /\ rows[h].form \in observed'[h]
      BY <1>6 DEF HookRuns, TypeOK, Rows, Row
    <2>3. \A g \in Hooks : g # h => rows'[g] = rows[g]
      BY <1>6 DEF HookRuns, TypeOK, Rows
    <2>4. TrustIsEarned'
      BY <2>1, <2>2, <2>3 DEF TrustIsEarned
    <2>5. RecordsAreEarned'
      BY <1>6, <2>1 DEF HookRuns, RecordsAreEarned, Earned
    <2> QED BY <2>4, <2>5
  <1>7. CASE AgentWrites
    BY <1>7 DEF AgentWrites, TrustIsEarned, RecordsAreEarned, Earned
  <1>8. CASE UNCHANGED vars
    BY <1>8 DEF vars, history, TrustIsEarned, RecordsAreEarned, Earned
  <1>9. CASE VersionDetected
    BY <1>9 DEF VersionDetected, history, TrustIsEarned, RecordsAreEarned, Earned
  <1> QED BY <1>1, <1>2, <1>3, <1>4, <1>5, <1>6, <1>7, <1>8, <1>9 DEF Next, Healer

(***************************************************************************)
(* The theorems                                                            *)
(***************************************************************************)
\* Every state keeps its types, whoever holds the lock knows the file or had
\* it written under it, and no trust, in a row or in memory, is unearned.
THEOREM HookInvariant == Spec => []IInv
  <1>1. Init => IInv
    <2> SUFFICES ASSUME Init PROVE IInv
      OBVIOUS
    <2>1. LockedKnowsFile
      BY IdleFields DEF Init, LockedKnowsFile, Stage
    <2>2. TrustIsEarned
      BY DEF Init, TrustIsEarned, NoRow
    <2>3. RecordsAreEarned
      BY IdleFields DEF Init, RecordsAreEarned, Earned
    <2> QED BY <2>1, <2>2, <2>3, TypeInit DEF IInv
  <1>2. IInv /\ [Next]_vars => IInv'
    BY TypeStep, KnowsFileStep, EarnedStep DEF IInv
  <1> QED BY <1>1, <1>2, PTL DEF Spec

\* The rows, the file and every apply keep their types, and the lock is held
\* by the one apply that is at work on the file (ConfigLock).
THEOREM TypeCorrect == Spec => []TypeOK
  <1>1. IInv => TypeOK
    BY DEF IInv
  <1> QED BY <1>1, HookInvariant, PTL

\* A row says `observed_working` only of a definition under which a run was
\* seen, whatever applies overlap (resolve_trust, replace_hook_installations).
THEOREM TrustEarned == Spec => []TrustIsEarned
  <1>1. IInv => TrustIsEarned
    BY DEF IInv
  <1> QED BY <1>1, HookInvariant, PTL

\* No rename puts aside a file that its apply has not read, but for a writer
\* outside the application that came between the check and the rename
\* (atomic_replace_checked).
THEOREM NothingOverwrittenBlindly == Spec => NoBlindOverwrite
  <1>1. IInv => [\A a \in Actors :
                   Renames(a) => file = proc[a].read \/ touched[a] = "sinceCheck"]_vars
    BY DEF IInv, LockedKnowsFile, Renames
  <1> QED BY <1>1, HookInvariant, PTL DEF NoBlindOverwrite

-----------------------------------------------------------------------------
(***************************************************************************)
(* The deployment of the helper                                            *)
(***************************************************************************)
\* What DeployInit establishes: nothing is published, nobody is under way.
LEMMA InitEstablishes ==
  ASSUME VersionsNumbered, DeployInit
  PROVE  DeployInv
  BY DEF VersionsNumbered, DeployInit, DeployInv, DeployTypeOK, RecordedOrUnderWay,
         PastTheGate, NoCopy

\* A thread finds the copy outdated, or passes the version gate of install_with:
\* what it may publish is then no older than anything recorded or under way.
LEMMA GateKeeps ==
  ASSUME VersionsNumbered, DeployInv, NEW t \in Deployers, CompareCopy(t) \/ Gate(t)
  PROVE  DeployInv'
<1>1. Unfinished' <=> Unfinished
  BY DEF CompareCopy, Gate, Steps, Unfinished, DeployInv, DeployTypeOK
<1>2. DeployTypeOK'
  BY DEF CompareCopy, Gate, Steps, DeployInv, DeployTypeOK
<1>3. RecordedOrUnderWay'
  BY <1>1 DEF CompareCopy, Gate, DeployInv, RecordedOrUnderWay
<1>4. PastTheGate'
  <2>1. CASE CompareCopy(t)
    BY <2>1 DEF CompareCopy, Steps, DeployInv, DeployTypeOK, PastTheGate
  <2>2. CASE Gate(t)
    <3>1. ~unrecorded /\ ~RollsBack => package >= highest
      BY DEF VersionsNumbered, DeployInv, DeployTypeOK, RecordedOrUnderWay, RollsBack, NoCopy
    <3>2. QED
      BY <2>2, <3>1 DEF Gate, Steps, DeployInv, DeployTypeOK, PastTheGate
  <2>3. QED
    BY <2>1, <2>2
<1>5. QED
  BY <1>2, <1>3, <1>4 DEF DeployInv

\* The rename of a copy: its publisher is between the rename and the record.
LEMMA PublishKeeps ==
  ASSUME VersionsNumbered, DeployInv, NEW t \in Deployers, Publish(t)
  PROVE  DeployInv'
<1>1. package \in Nat /\ highest \in Nat /\ (~unrecorded => package >= highest)
  BY DEF VersionsNumbered, DeployInv, DeployTypeOK, PastTheGate, Publish, NoCopy
<1>2. ~unrecorded => highest' = package
  BY <1>1 DEF Publish
<1>3. deploy'[t] = "rehash" /\ Unfinished'
  BY DEF Publish, Steps, Unfinished, DeployInv, DeployTypeOK
<1>4. DeployTypeOK'
  BY DEF Publish, Steps, DeployInv, DeployTypeOK
<1>5. RecordedOrUnderWay'
  BY <1>2, <1>3 DEF Publish, RecordedOrUnderWay
<1>6. PastTheGate'
  BY <1>1, <1>2 DEF Publish, PastTheGate
<1>7. QED
  BY <1>4, <1>5, <1>6 DEF DeployInv

\* The hash of what is found at the stable path: a mismatch leaves the version
\* unrecorded.
LEMMA RehashKeeps ==
  ASSUME VersionsNumbered, DeployInv, NEW t \in Deployers, Rehash(t)
  PROVE  DeployInv'
<1>1. DeployTypeOK'
  BY DEF Rehash, Steps, DeployInv, DeployTypeOK
<1>2. CASE copy = package
  <2>1. Unfinished' /\ deploy'[t] = "record"
    BY <1>2 DEF Rehash, Steps, Unfinished, DeployInv, DeployTypeOK
  <2>2. ~unrecorded => highest = package
    BY DEF Rehash, DeployInv, PastTheGate
  <2>3. RecordedOrUnderWay'
    BY <2>1, <2>2, <1>2 DEF Rehash, RecordedOrUnderWay
  <2>4. PastTheGate'
    BY <2>2, <1>2 DEF Rehash, Steps, DeployInv, DeployTypeOK, PastTheGate
  <2>5. QED
    BY <1>1, <2>3, <2>4 DEF DeployInv
<1>3. CASE copy # package
  BY <1>1, <1>3 DEF Rehash, DeployInv, RecordedOrUnderWay, PastTheGate
<1>4. QED
  BY <1>2, <1>3

\* The record of the version makes good whatever was left unrecorded.
LEMMA RecordKeeps ==
  ASSUME VersionsNumbered, DeployInv, NEW t \in Deployers, Record(t)
  PROVE  DeployInv'
<1>1. sidecar' = package /\ highest' = package
  BY DEF Record, DeployInv, PastTheGate
<1>2. DeployTypeOK'
  BY DEF Record, Steps, DeployInv, DeployTypeOK
<1>3. package' = package /\ package \in Nat
  BY DEF Record, VersionsNumbered, DeployInv, DeployTypeOK
<1>4. RecordedOrUnderWay' /\ PastTheGate'
  BY <1>1, <1>3 DEF RecordedOrUnderWay, PastTheGate
<1>5. QED
  BY <1>2, <1>4 DEF DeployInv

\* A deployment that fails after the rename leaves its version unrecorded; before
\* it, nothing has changed.
LEMMA FailureKeeps ==
  ASSUME VersionsNumbered, DeployInv, NEW t \in Deployers, DeployFails(t)
  PROVE  DeployInv'
<1>1. DeployTypeOK'
  BY DEF DeployFails, Steps, DeployInv, DeployTypeOK
<1>2. CASE deploy[t] \in {"rehash", "record"}
  BY <1>1, <1>2 DEF DeployFails, DeployInv, RecordedOrUnderWay, PastTheGate
<1>3. CASE deploy[t] \notin {"rehash", "record"}
  <2>1. Unfinished' <=> Unfinished
    BY <1>3 DEF DeployFails, Steps, Unfinished, DeployInv, DeployTypeOK
  <2>2. RecordedOrUnderWay'
    BY <1>3, <2>1 DEF DeployFails, DeployInv, RecordedOrUnderWay
  <2>3. PastTheGate'
    BY <1>3 DEF DeployFails, Steps, DeployInv, DeployTypeOK, PastTheGate
  <2>4. QED
    BY <1>1, <2>2, <2>3 DEF DeployInv
<1>4. QED
  BY <1>2, <1>3

\* A stop, a foreign change of the copy, an update of the application, the purge.
LEMMA SurroundingsKeep ==
  ASSUME VersionsNumbered, DeployInv, DeployStops \/ Tampered \/ PackageChanges \/ SweepBin
  PROVE  DeployInv'
<1>1. CASE DeployStops
  <2>1. CASE Unfinished
    BY <1>1, <2>1 DEF DeployStops, DeployInv, DeployTypeOK, RecordedOrUnderWay, PastTheGate
  <2>2. CASE ~Unfinished
    BY <1>1, <2>2 DEF DeployStops, DeployInv, DeployTypeOK, RecordedOrUnderWay, PastTheGate
  <2>3. QED
    BY <2>1, <2>2
<1>2. CASE Tampered
  BY <1>2 DEF Tampered, DeployInv, DeployTypeOK, RecordedOrUnderWay, PastTheGate, Unfinished
<1>3. CASE PackageChanges
  <2>1. ~Unfinished
    BY <1>3 DEF PackageChanges, Unfinished
  <2>2. QED
    BY <1>3, <2>1 DEF PackageChanges, DeployInv, DeployTypeOK, RecordedOrUnderWay, PastTheGate
<1>4. CASE SweepBin
  <2>1. DeployTypeOK' /\ RecordedOrUnderWay'
    BY <1>4 DEF SweepBin, DeployInv, DeployTypeOK, RecordedOrUnderWay, Unfinished
  <2>2. PastTheGate'
    BY <1>4 DEF SweepBin, VersionsNumbered, DeployInv, DeployTypeOK, PastTheGate, Unfinished, NoCopy
  <2>3. QED
    BY <2>1, <2>2 DEF DeployInv
<1>5. QED
  BY <1>1, <1>2, <1>3, <1>4

LEMMA StepKeeps ==
  ASSUME VersionsNumbered, DeployInv, [DeployNext]_deployVars
  PROVE  DeployInv'
<1>1. CASE DeployNext
  <2>1. ASSUME NEW t \in Deployers, DeployStep(t)
        PROVE  DeployInv'
    BY <2>1, GateKeeps, PublishKeeps, RehashKeeps, RecordKeeps, FailureKeeps DEF DeployStep
  <2>2. QED
    BY <1>1, <2>1, SurroundingsKeep DEF DeployNext
<1>2. CASE UNCHANGED deployVars
  BY <1>2 DEF deployVars, DeployInv, DeployTypeOK, RecordedOrUnderWay, PastTheGate, Unfinished
<1>3. QED
  BY <1>1, <1>2

\* What is published is recorded or its publisher is still at it, and no thread
\* past the gate carries an older version, whoever deploys, fails or purges.
THEOREM PublishedIsRecorded == VersionsNumbered => (DeploySpec => []DeployInv)
<1> SUFFICES ASSUME VersionsNumbered
             PROVE  DeploySpec => []DeployInv
  OBVIOUS
<1>1. DeployInit => DeployInv
  BY InitEstablishes
<1>2. DeployInv /\ [DeployNext]_deployVars => DeployInv'
  BY StepKeeps
<1>3. QED
  BY <1>1, <1>2, PTL DEF DeploySpec

\* install_with never puts an older helper in the place of a newer one, unless
\* the newer one's version could not be recorded beside it.
THEOREM NoSilentRollback == VersionsNumbered => (DeploySpec => NeverRolledBack)
<1> SUFFICES ASSUME VersionsNumbered
             PROVE  DeploySpec => NeverRolledBack
  OBVIOUS
<1>1. ASSUME DeployInv, [DeployNext]_deployVars
      PROVE  copy' # copy /\ copy' # NoCopy => copy' >= highest \/ unrecorded
  <2>1. ASSUME NEW t \in Deployers, Publish(t)
        PROVE  copy' >= highest \/ unrecorded
    BY <1>1, <2>1 DEF Publish, DeployInv, PastTheGate
  <2>2. QED
    BY <1>1, <2>1 DEF DeployNext, DeployStep, CompareCopy, Gate, Rehash, Record, DeployFails,
      DeployStops, Tampered, PackageChanges, SweepBin, deployVars
<1>2. DeployInv /\ [DeployNext]_deployVars
        => [copy' # copy /\ copy' # NoCopy => copy' >= highest \/ unrecorded]_deployVars
  BY <1>1
<1>3. DeploySpec => []DeployInv
  BY PublishedIsRecorded
<1>4. QED
  BY <1>2, <1>3, PTL DEF DeploySpec, NeverRolledBack

-----------------------------------------------------------------------------
(***************************************************************************)
(* Detection: a version the file knows is not forgotten                    *)
(***************************************************************************)
LEMMA NoVersionsTyped == NoVersions \in [Agents -> Versions \cup {None}]
  BY DEF NoVersions

\* What a detection begins with.
LEMMA ProbingTyped ==
  ASSUME NEW kind \in {"detect", "list", "act"},
         NEW queue \in Seq(Agents) \ {<<>>}, NEW confirmed \in BOOLEAN
  PROVE  /\ Probing(kind, queue, confirmed) \in DetectionJobs
         /\ Probing(kind, queue, confirmed).step = "probe"
  <1>1. NoVersions \in [Agents -> Versions \cup {None}]
    BY NoVersionsTyped
  <1>2. 1 \in 1..Places
    BY DetectionAssumption
  <1> QED BY <1>1, <1>2 DEF Probing, DetectionJobs

\* A step that names itself is one of a detection under way.
LEMMA DetectionInHand ==
  ASSUME DetectionJobsOK, NEW t \in Threads,
         job[t].step \in {"probe", "read", "rename", "row", "gate"}
  PROVE  /\ job[t] \in DetectionJobs
         /\ AgentOf(t) \in Agents
  <1>1. job[t] \in {Free} \cup DetectionJobs
    BY DEF DetectionJobsOK
  <1>2. job[t] \in DetectionJobs
    BY <1>1 DEF Free
  <1>3. job[t].queue \in Seq(Agents) /\ job[t].queue # <<>>
    BY <1>2 DEF DetectionJobs
  <1> QED BY <1>2, <1>3 DEF AgentOf

\* The next agent, if one is left.
LEMMA RestTyped ==
  ASSUME NEW t \in Threads, job[t] \in DetectionJobs, Len(job[t].queue) # 1
  PROVE  Tail(job[t].queue) \in Seq(Agents) \ {<<>>}
  <1>1. job[t].queue \in Seq(Agents) /\ job[t].queue # <<>>
    BY DEF DetectionJobs
  <1>2. Tail(job[t].queue) \in Seq(Agents) /\ Len(Tail(job[t].queue)) = Len(job[t].queue) - 1
        /\ Len(job[t].queue) \in Nat /\ Len(job[t].queue) # 0
    BY <1>1
  <1>3. Len(Tail(job[t].queue)) # Len(<<>>)
    BY <1>1, <1>2
  <1>4. Tail(job[t].queue) # <<>>
    BY <1>3, Zenon
  <1> QED BY <1>2, <1>4

\* After the file and after the row a detection neither reads nor renames.
LEMMA AfterCacheTyped ==
  ASSUME NEW t \in Threads, job[t] \in DetectionJobs
  PROVE  /\ AfterCache(t) \in {Free} \cup DetectionJobs
         /\ AfterCache(t).step \notin {"read", "rename"}
  <1> DEFINE quiet(step) == [job[t] EXCEPT !.step = step, !.copy = NoVersions, !.behind = FALSE]
  <1>1. job[t].kind \in {"detect", "list", "act"} /\ job[t].confirmed \in BOOLEAN
    BY DEF DetectionJobs
  <1>2. ASSUME NEW step \in {"row", "gate"}
        PROVE  quiet(step) \in DetectionJobs /\ quiet(step).step = step
    BY NoVersionsTyped DEF DetectionJobs
  <1>3. CASE job[t].kind = "detect"
    BY <1>2, <1>3 DEF AfterCache
  <1>4. CASE job[t].kind = "act"
    BY <1>2, <1>4 DEF AfterCache
  <1>5. CASE job[t].kind = "list"
    <2>1. CASE Len(job[t].queue) = 1
      BY <1>5, <2>1 DEF AfterCache, Free
    <2>2. CASE Len(job[t].queue) # 1
      <3>1. AfterCache(t) = Probing(job[t].kind, Tail(job[t].queue), job[t].confirmed)
        BY <1>5, <2>2 DEF AfterCache
      <3> QED BY <1>1, <2>2, <3>1, RestTyped, ProbingTyped
    <2> QED BY <2>1, <2>2
  <1> QED BY <1>1, <1>3, <1>4, <1>5

LEMMA PersistedTyped ==
  ASSUME NEW t \in Threads, job[t] \in DetectionJobs
  PROVE  /\ Persisted(t) \in {Free} \cup DetectionJobs
         /\ Persisted(t).step \notin {"read", "rename"}
  <1>1. CASE Len(job[t].queue) = 1
    BY <1>1 DEF Persisted, Free
  <1>2. CASE Len(job[t].queue) # 1
    <2>1. Persisted(t) = Probing("detect", Tail(job[t].queue), FALSE)
      BY <1>2 DEF Persisted
    <2> QED BY <1>2, <2>1, RestTyped, ProbingTyped
  <1> QED BY <1>1, <1>2

\* A thread's step that leaves the file alone, to a job that holds no copy of it.
LEMMA StepWithoutCopy ==
  ASSUME DetectionJobsOK, CopiesAreComplete, NEW t \in Threads, NEW work \in {Free} \cup DetectionJobs,
         work.step # "rename", work.step = "read" => work.found \in Versions,
         job' = [job EXCEPT ![t] = work], cache' = cache
  PROVE  DetectionJobsOK' /\ CopiesAreComplete'
  <1>1. DetectionJobsOK'
    BY DEF DetectionJobsOK
  <1>2. job'[t] = work /\ \A u \in Threads : u # t => job'[u] = job[u]
    BY DEF DetectionJobsOK
  <1>3. CopiesAreComplete'
    BY <1>2 DEF CopiesAreComplete
  <1> QED BY <1>1, <1>3

-----------------------------------------------------------------------------
LEMMA DetectionInvInit ==
  ASSUME DetectionInit
  PROVE  DetectionInv
  <1>1. DetectionTypeOK
    <2>1. files \in [Agents -> [1..Places -> Answers]]
      BY DetectionAssumption DEF DetectionInit
    <2>2. changes \in 0..MaxChanges
      BY DetectionAssumption DEF DetectionInit
    <2> QED BY <2>1, <2>2, NoVersionsTyped DEF DetectionInit, DetectionTypeOK, NoVersions
  <1>2. job = [t \in Threads |-> Free]
    BY DEF DetectionInit, ThreadsInit
  <1>3. DetectionJobsOK
    BY <1>2 DEF DetectionJobsOK
  <1>4. CopiesAreComplete
    BY <1>2 DEF CopiesAreComplete, Free
  <1> QED BY <1>1, <1>3, <1>4 DEF DetectionInv

\* A probe: the answer, if it is a version, is what is written next.
LEMMA ProbeStep ==
  ASSUME DetectionInv, NEW t \in Threads, Probe(t)
  PROVE  DetectionInv'
  <1> DEFINE answer == files[AgentOf(t)][job[t].at]
             seen == [job[t] EXCEPT !.found = IF answer = None THEN @ ELSE answer]
  <1>1. job[t] \in DetectionJobs /\ AgentOf(t) \in Agents
    BY DetectionInHand DEF DetectionInv, Probe
  <1>2. job[t].at \in 1..Places /\ Places \in Nat
    BY <1>1, DetectionAssumption DEF DetectionJobs
  <1>3. answer \in Versions \cup Broken \cup {None}
    BY <1>1, <1>2 DEF DetectionInv, DetectionTypeOK, Answers
  <1>4. UNCHANGED <<files, cache, row, hooks, changes>>
    BY DEF Probe, agentVars
  <1>5. DetectionTypeOK'
    BY <1>4 DEF DetectionInv, DetectionTypeOK
  <1>6. CASE answer \in Versions
    <2> DEFINE work == [job[t] EXCEPT !.step = "read", !.found = answer]
    <2>1. work \in DetectionJobs /\ work.step = "read" /\ work.found \in Versions
      BY <1>1, <1>6 DEF DetectionJobs
    <2>2. job' = [job EXCEPT ![t] = work]
      BY <1>6 DEF Probe, Continues
    <2> QED BY <1>4, <1>5, <2>1, <2>2, StepWithoutCopy DEF DetectionInv
  <1>7. CASE answer \notin Versions
    <2>1. seen \in DetectionJobs /\ seen.step = "probe"
      BY <1>1, <1>3, <1>7 DEF DetectionJobs, Probe
    <2>2. CASE job[t].at = Places
      <3> DEFINE ended == CASE job[t].kind = "detect" -> [seen EXCEPT !.step = "row"]
                            [] job[t].kind = "act"    -> [seen EXCEPT !.step = "gate"]
                            [] OTHER -> AfterCache(t)
      <3>1. job' = [job EXCEPT ![t] = ended]
        BY <1>7, <2>2 DEF Probe, Continues
      <3>2. /\ [seen EXCEPT !.step = "row"] \in DetectionJobs
            /\ [seen EXCEPT !.step = "row"].step = "row"
            /\ [seen EXCEPT !.step = "gate"] \in DetectionJobs
            /\ [seen EXCEPT !.step = "gate"].step = "gate"
        BY <2>1 DEF DetectionJobs
      <3>3. /\ AfterCache(t) \in {Free} \cup DetectionJobs
            /\ AfterCache(t).step \notin {"read", "rename"}
        BY <1>1, AfterCacheTyped
      <3> HIDE DEF seen
      <3>4. ended \in {Free} \cup DetectionJobs /\ ended.step \notin {"read", "rename"}
        BY <3>2, <3>3
      <3> HIDE DEF ended
      <3> QED BY <1>4, <1>5, <3>1, <3>4, StepWithoutCopy DEF DetectionInv
    <2>3. CASE job[t].at # Places
      <3> DEFINE next == [seen EXCEPT !.at = @ + 1]
      <3>1. job' = [job EXCEPT ![t] = next]
        BY <1>7, <2>3 DEF Probe, Continues
      <3>2. seen.at = job[t].at
        BY <1>1 DEF DetectionJobs
      <3>3. seen.at + 1 \in 1..Places
        BY <1>2, <2>3, <3>2
      <3> HIDE DEF seen
      <3>4. next \in DetectionJobs /\ next.step = "probe"
        BY <2>1, <3>3 DEF DetectionJobs
      <3> HIDE DEF next
      <3> QED BY <1>4, <1>5, <3>1, <3>4, StepWithoutCopy DEF DetectionInv
    <2> QED BY <2>2, <2>3
  <1> QED BY <1>6, <1>7

\* The copy is the file as it is, with a version for one agent more.
LEMMA ReadCacheStep ==
  ASSUME DetectionInv, NEW t \in Threads, ReadCache(t)
  PROVE  DetectionInv'
  <1> DEFINE copy2 == [cache EXCEPT ![AgentOf(t)] = job[t].found]
             work == [job[t] EXCEPT !.step = "rename", !.copy = copy2]
  <1>1. job[t] \in DetectionJobs /\ AgentOf(t) \in Agents
    BY DetectionInHand DEF DetectionInv, ReadCache
  <1>2. UNCHANGED <<files, cache, row, hooks, changes>>
    BY DEF ReadCache, agentVars
  <1>3. DetectionTypeOK'
    BY <1>2 DEF DetectionInv, DetectionTypeOK
  <1>4. job[t].found \in Versions
    BY DEF DetectionInv, CopiesAreComplete, ReadCache
  <1>5. cache \in [Agents -> Versions \cup {None}]
    BY DEF DetectionInv, DetectionTypeOK
  <1>6. copy2 \in [Agents -> Versions \cup {None}]
    BY <1>4, <1>5
  <1>7. \A a \in Agents : cache[a] # None => copy2[a] # None
    BY <1>4, <1>5, DetectionAssumption
  <1> HIDE DEF copy2
  <1>8. work \in DetectionJobs /\ work.step = "rename" /\ work.copy = copy2
    BY <1>1, <1>6 DEF DetectionJobs
  <1>9. job' = [job EXCEPT ![t] = work]
    BY DEF ReadCache, Continues, copy2
  <1> HIDE DEF work
  <1>10. job'[t] = work /\ \A u \in Threads : u # t => job'[u] = job[u]
    BY <1>9 DEF DetectionInv, DetectionJobsOK
  <1>11. DetectionJobsOK'
    BY <1>8, <1>9 DEF DetectionInv, DetectionJobsOK
  <1>12. CopiesAreComplete'
    BY <1>2, <1>7, <1>8, <1>10 DEF DetectionInv, CopiesAreComplete
  <1> QED BY <1>3, <1>11, <1>12 DEF DetectionInv

\* A copy becomes the file, and every other copy is behind.
LEMMA RenameCacheStep ==
  ASSUME DetectionInv, NEW t \in Threads, RenameCache(t)
  PROVE  DetectionInv'
  <1>1. job[t] \in DetectionJobs
    BY DetectionInHand DEF DetectionInv, RenameCache
  <1>2. job[t].copy \in [Agents -> Versions \cup {None}]
    BY <1>1 DEF DetectionJobs
  <1>3. DetectionTypeOK'
    BY <1>2 DEF DetectionInv, DetectionTypeOK, RenameCache
  <1>4. /\ AfterCache(t) \in {Free} \cup DetectionJobs
        /\ AfterCache(t).step \notin {"read", "rename"}
    BY <1>1, AfterCacheTyped
  <1>5. ASSUME NEW u \in Threads, u # t
        PROVE  /\ job'[u] \in {Free} \cup DetectionJobs
               /\ job'[u].step = "read" => job'[u].found \in Versions
               /\ job'[u].step = "rename" => job'[u].behind
    <2>1. job[u] \in {Free} \cup DetectionJobs
      BY DEF DetectionInv, DetectionJobsOK
    <2>2. CASE job[u] # Free /\ job[u].step = "rename"
      <3>1. job[u] \in DetectionJobs
        BY <2>1, <2>2
      <3>2. job'[u] = [job[u] EXCEPT !.behind = TRUE]
        BY <1>5, <2>2 DEF RenameCache
      <3>3. job'[u] \in DetectionJobs /\ job'[u].behind /\ job'[u].step = "rename"
        BY <2>2, <3>1, <3>2 DEF DetectionJobs
      <3> QED BY <3>3
    <2>3. CASE ~(job[u] # Free /\ job[u].step = "rename")
      <3>1. job'[u] = job[u]
        BY <1>5, <2>3 DEF RenameCache
      <3>2. job[u].step # "rename"
        BY <2>3 DEF Free
      <3> QED BY <2>1, <3>1, <3>2 DEF DetectionInv, CopiesAreComplete
    <2> QED BY <2>2, <2>3
  <1>6. job'[t] = AfterCache(t)
    BY DEF RenameCache
  <1>7. DetectionJobsOK'
    <2>1. \A u \in Threads : job'[u] \in {Free} \cup DetectionJobs
      BY <1>4, <1>5, <1>6
    <2>2. job' = [u \in Threads |-> job'[u]]
      BY DEF RenameCache
    <2> QED BY <2>1, <2>2 DEF DetectionJobsOK
  <1>8. CopiesAreComplete'
    BY <1>4, <1>5, <1>6 DEF CopiesAreComplete
  <1> QED BY <1>3, <1>7, <1>8 DEF DetectionInv

\* The other steps of a thread.
LEMMA DetectionStepKeeps ==
  ASSUME DetectionInv, NEW t \in Threads, DetectionStep(t)
  PROVE  DetectionInv'
  <1>1. CASE Probe(t)
    BY <1>1, ProbeStep
  <1>2. CASE ReadCache(t)
    BY <1>2, ReadCacheStep
  <1>3. CASE RenameCache(t)
    BY <1>3, RenameCacheStep
  <1>4. CASE CacheWriteFails(t)
    <2>1. job[t] \in DetectionJobs
      BY <1>4, DetectionInHand DEF DetectionInv, CacheWriteFails
    <2>2. DetectionTypeOK'
      BY <1>4 DEF DetectionInv, DetectionTypeOK, CacheWriteFails, agentVars
    <2> QED BY <1>4, <2>1, <2>2, AfterCacheTyped, StepWithoutCopy DEF DetectionInv, CacheWriteFails, agentVars
  <1>5. CASE PersistDetection(t)
    <2>1. job[t] \in DetectionJobs /\ AgentOf(t) \in Agents
      BY <1>5, DetectionInHand DEF DetectionInv, PersistDetection
    <2>2. job[t].found \in Versions \cup Broken \cup {Missing}
      BY <2>1 DEF DetectionJobs
    <2>3. DetectionTypeOK'
      BY <1>5, <2>2 DEF DetectionInv, DetectionTypeOK, PersistDetection
    <2> QED BY <1>5, <2>1, <2>3, PersistedTyped, StepWithoutCopy DEF DetectionInv, PersistDetection, Continues
  <1>6. CASE PersistFails(t)
    <2>1. job[t] \in DetectionJobs
      BY <1>6, DetectionInHand DEF DetectionInv, PersistFails
    <2>2. DetectionTypeOK'
      BY <1>6 DEF DetectionInv, DetectionTypeOK, PersistFails, agentVars
    <2> QED BY <1>6, <2>1, <2>2, PersistedTyped, StepWithoutCopy DEF DetectionInv, PersistFails, agentVars
  <1>7. CASE Refused(t)
    <2>1. DetectionTypeOK'
      BY <1>7 DEF DetectionInv, DetectionTypeOK, Refused, agentVars
    <2> QED BY <1>7, <2>1, StepWithoutCopy DEF DetectionInv, Refused, Ends, Continues, Free, agentVars
  <1>8. CASE Install(t)
    <2>1. AgentOf(t) \in Agents
      BY <1>8, DetectionInHand DEF DetectionInv, Install
    <2>2. Required(AgentOf(t)) \subseteq Events
      BY <2>1, DetectionAssumption
    <2>3. DetectionTypeOK'
      BY <1>8, <2>2 DEF DetectionInv, DetectionTypeOK, Install
    <2> QED BY <1>8, <2>3, StepWithoutCopy DEF DetectionInv, Install, Ends, Continues, Free
  <1>9. CASE InstallFails(t)
    <2>1. DetectionTypeOK'
      BY <1>9 DEF DetectionInv, DetectionTypeOK, InstallFails, agentVars
    <2> QED BY <1>9, <2>1, StepWithoutCopy DEF DetectionInv, InstallFails, Aborts, Free, agentVars
  <1> QED BY <1>1, <1>2, <1>3, <1>4, <1>5, <1>6, <1>7, <1>8, <1>9 DEF DetectionStep

\* A command, or the loop, begins to detect.
LEMMA BeginKeeps ==
  ASSUME DetectionInv, NEW t \in Threads,
         NEW kind \in {"detect", "list", "act"}, NEW queue \in Seq(Agents) \ {<<>>},
         NEW confirmed \in BOOLEAN,
         job' = [job EXCEPT ![t] = Probing(kind, queue, confirmed)], UNCHANGED agentVars
  PROVE  DetectionInv'
  <1>1. DetectionTypeOK'
    BY DEF DetectionInv, DetectionTypeOK, agentVars
  <1>2. /\ Probing(kind, queue, confirmed) \in DetectionJobs
        /\ Probing(kind, queue, confirmed).step = "probe"
    BY ProbingTyped
  <1> QED BY <1>1, <1>2, StepWithoutCopy DEF DetectionInv, agentVars

LEMMA DetectionInvNext ==
  ASSUME DetectionInv, [DetectionNext]_detectionVars
  PROVE  DetectionInv'
  <1>1. CASE UNCHANGED detectionVars
    BY <1>1 DEF DetectionInv, DetectionTypeOK, DetectionJobsOK, CopiesAreComplete,
                detectionVars, agentVars, threadVars
  <1>2. ASSUME NEW t \in Threads \ {Loop}, DetectAgents(t)
        PROVE  DetectionInv'
    <2>1. AgentOrder \in Seq(Agents) \ {<<>>}
      BY DetectionAssumption
    <2> QED BY <1>2, <2>1, BeginKeeps DEF DetectAgents, Begins
  <1>3. ASSUME NEW t \in Threads \ {Loop}, ApplyHookAction(t)
        PROVE  DetectionInv'
    <2>1. \A a \in Agents : <<a>> \in Seq(Agents) \ {<<>>}
      OBVIOUS
    <2>2. PICK a \in Agents, confirmed \in BOOLEAN :
            job' = [job EXCEPT ![t] = Probing("act", <<a>>, confirmed)]
      BY <1>3 DEF ApplyHookAction, Begins
    <2> QED BY <1>3, <2>1, <2>2, BeginKeeps DEF ApplyHookAction
  <1>4. CASE RedetectTick
    <2>1. AgentOrder \in Seq(Agents) \ {<<>>} /\ Loop \in Threads
      BY DetectionAssumption
    <2> QED BY <1>4, <2>1, BeginKeeps DEF RedetectTick, Continues
  <1>5. ASSUME NEW t \in Threads, DetectionStep(t)
        PROVE  DetectionInv'
    BY <1>5, DetectionStepKeeps
  <1>6. CASE AgentChanges
    <2>1. DetectionTypeOK'
      <3>1. changes' \in 0..MaxChanges
        BY <1>6, DetectionAssumption DEF AgentChanges, DetectionInv, DetectionTypeOK
      <3>2. files' \in [Agents -> [1..Places -> Answers]]
        BY <1>6 DEF AgentChanges, DetectionInv, DetectionTypeOK
      <3> QED BY <1>6, <3>1, <3>2 DEF AgentChanges, DetectionInv, DetectionTypeOK
    <2> QED BY <1>6, <2>1 DEF AgentChanges, threadVars, DetectionInv, DetectionJobsOK, CopiesAreComplete
  <1>7. CASE CacheDamaged
    <2>1. DetectionTypeOK'
      BY <1>7, NoVersionsTyped DEF CacheDamaged, DetectionInv, DetectionTypeOK
    <2>2. \A a \in Agents : cache'[a] = None
      BY <1>7 DEF CacheDamaged, NoVersions
    <2> QED BY <1>7, <2>1, <2>2 DEF CacheDamaged, DetectionInv, DetectionJobsOK, CopiesAreComplete
  <1>8. CASE Restart
    <2>1. DetectionTypeOK'
      BY <1>8 DEF Restart, DetectionInv, DetectionTypeOK, agentVars
    <2>2. job' = [t \in Threads |-> Free]
      BY <1>8 DEF Restart, AllEnd
    <2> QED BY <2>1, <2>2 DEF DetectionInv, DetectionJobsOK, CopiesAreComplete, Free
  <1> QED BY <1>1, <1>2, <1>3, <1>4, <1>5, <1>6, <1>7, <1>8 DEF DetectionNext

\* Every detection under way holds what write_detected may have read, and the
\* file a version or nothing for each agent.
THEOREM DetectionInvariant == DetectionSpec => []DetectionInv
  <1>1. DetectionInit => DetectionInv
    BY DetectionInvInit
  <1>2. DetectionInv /\ [DetectionNext]_detectionVars => DetectionInv'
    BY DetectionInvNext
  <1> QED BY <1>1, <1>2, PTL DEF DetectionSpec

LEMMA NothingForgotten ==
  ASSUME DetectionInv, DetectionNext, NEW a \in Agents,
         cache[a] # None, cache'[a] = None
  PROVE  cache' = NoVersions \/ \E t \in Threads : job[t] # Free /\ job[t].step = "rename" /\ job[t].behind
  <1>1. cache' # cache
    OBVIOUS
  <1>2. CacheDamaged \/ \E t \in Threads : RenameCache(t)
    BY <1>1 DEF DetectionNext, DetectAgents, ApplyHookAction, RedetectTick, DetectionStep, Probe, ReadCache,
                CacheWriteFails, PersistDetection, PersistFails, Refused, Install, InstallFails,
                AgentChanges, Restart, agentVars
  <1>3. CASE CacheDamaged
    BY <1>3 DEF CacheDamaged
  <1>4. ASSUME NEW t \in Threads, RenameCache(t)
        PROVE  job[t] # Free /\ job[t].step = "rename" /\ job[t].behind
    <2>1. job[t].step = "rename" /\ cache' = job[t].copy
      BY <1>4 DEF RenameCache
    <2>2. job[t] \in DetectionJobs
      BY <2>1, DetectionInHand DEF DetectionInv
    <2>3. job[t].behind \in BOOLEAN
      BY <2>2 DEF DetectionJobs
    <2>4. ~ ~job[t].behind
      BY <2>1 DEF DetectionInv, CopiesAreComplete
    <2> QED BY <2>1, <2>3, <2>4 DEF Free
  <1> QED BY <1>2, <1>3, <1>4

\* write_detected of one agent never drops the version of another from
\* agent-versions.json, unless another detection wrote the file between its
\* read and its rename, or the file could not be read.
THEOREM KnownVersionsAreKept == DetectionSpec => KnownStaysKnown
  <1>1. DetectionInv /\ [DetectionNext]_detectionVars
          => [\A a \in Agents :
                cache[a] # None /\ cache'[a] = None =>
                  cache' = NoVersions
                  \/ \E t \in Threads : job[t] # Free /\ job[t].step = "rename" /\ job[t].behind]_detectionVars
    BY NothingForgotten
  <1> QED BY <1>1, DetectionInvariant, PTL DEF DetectionSpec, KnownStaysKnown

(***************************************************************************)
(* The text of a hook file: what is computed item by item.                 *)
(***************************************************************************)
LEMMA SetInduction ==
  ASSUME NEW S \in SUBSET Nat, 0 \in S, \A n \in S : n + 1 \in S
  PROVE  S = Nat
<1> DEFINE T == Nat \ S
<1>1. SUFFICES ASSUME T # {} PROVE FALSE
  OBVIOUS
<1>2. PICK n \in T : \A m \in T : ~(<<m, n>> \in OpToRel(<, Nat))
  BY <1>1, WFMin, NatLessThanWellFounded
<1>3. \A m \in T : ~(m < n)
  BY <1>2 DEF OpToRel
<1>4. n - 1 \in Nat /\ n - 1 < n /\ (n - 1) + 1 = n
  OBVIOUS
<1>5. QED
  BY <1>3, <1>4

\* What is computed from one item to the next is there after every number of items.
Runs(f, n, step, first) == f[0] = first /\ \A i \in 1..n : f[i] = step[<<i, f[i - 1]>>]
LEMMA StepsExist ==
  ASSUME NEW D, NEW n \in Nat, NEW step \in [(1..n) \X D -> D], NEW first \in D
  PROVE  \E f \in [0..n -> D] : Runs(f, n, step, first)
<1> DEFINE Run(f, m) == f[0] = first /\ \A i \in 1..m : f[i] = step[<<i, f[i - 1]>>]
           S == {m \in Nat : m <= n => \E f \in [0..n -> D] : Run(f, m)}
<1>1. 0 \in S
  <2>1. [i \in 0..n |-> first] \in [0..n -> D] /\ Run([i \in 0..n |-> first], 0)
    OBVIOUS
  <2>2. QED
    BY <2>1
<1>2. ASSUME NEW m \in S
      PROVE  m + 1 \in S
  <2>1. CASE m + 1 <= n
    <3>1. PICK f \in [0..n -> D] : Run(f, m)
      BY <1>2, <2>1
    <3> DEFINE g == [f EXCEPT ![m + 1] = step[<<m + 1, f[m]>>]]
    <3>2. g \in [0..n -> D] /\ g[m + 1] = step[<<m + 1, f[m]>>] /\ \A i \in 0..m : g[i] = f[i]
      BY <2>1
    <3> HIDE DEF g
    <3>3. ASSUME NEW i \in 1..(m + 1)
          PROVE  g[i] = step[<<i, g[i - 1]>>]
      <4>1. i - 1 \in 0..m /\ g[i - 1] = f[i - 1]
        BY <3>2
      <4>2. CASE i = m + 1
        BY <3>2, <4>1, <4>2
      <4>3. CASE i \in 1..m
        BY <3>1, <3>2, <4>1, <4>3
      <4>4. QED
        BY <4>2, <4>3
    <3>4. Run(g, m + 1)
      BY <3>1, <3>2, <3>3
    <3>5. QED
      BY <3>2, <3>4
  <2>2. QED
    BY <2>1
<1>3. S = Nat
  <2> HIDE DEF S
  <2>1. S \in SUBSET Nat
    BY DEF S
  <2>2. QED
    BY <1>1, <1>2, <2>1, SetInduction
<1>4. n \in S
  BY <1>3
<1>5. QED
  BY <1>4 DEF Runs

LEMMA JoinedUnfolds ==
  ASSUME NEW T, NEW texts \in Seq(Seq(T))
  PROVE  \E f \in [0..Len(texts) -> Seq(T)] :
           /\ f[0] = <<>> /\ \A i \in 1..Len(texts) : f[i] = f[i - 1] \o texts[i]
           /\ Joined(texts) = f[Len(texts)]
<1> DEFINE n == Len(texts)
           D == Seq(T)
           step == [x \in (1..n) \X D |-> x[2] \o texts[x[1]]]
           none == <<>>
           After(f, i) == f[i - 1] \o texts[i]
           Is(f) == f = [i \in 0..n |-> IF i = 0 THEN none ELSE After(f, i)]
           upto == CHOOSE f : Is(f)
<1>1. n \in Nat /\ \A i \in 1..n : texts[i] \in Seq(T)
  OBVIOUS
<1>2. step \in [(1..n) \X D -> D] /\ <<>> \in D
  BY <1>1
<1>3. \A i \in 1..n, s \in D : step[<<i, s>>] = s \o texts[i]
  BY <1>1
<1>4. Joined(texts) = upto[n]
  BY DEF Joined
<1> HIDE DEF n, step, D, none, After
<1>5. PICK g \in [0..n -> D] : Runs(g, n, step, none)
  <2>1. n \in Nat /\ none \in D
    BY <1>1, <1>2 DEF none
  <2>2. QED
    BY <1>2, <2>1, StepsExist
<1>6. Is(g)
  <2>1. \A i \in 1..n : i - 1 \in 0..n /\ g[i - 1] \in D
    BY <1>1
  <2>2. \A i \in 0..n : g[i] = IF i = 0 THEN none ELSE After(g, i)
    <3>1. \A i \in 1..n : g[i] = After(g, i)
      BY <1>3, <1>5, <2>1 DEF After, Runs
    <3>2. g[0] = none
      BY <1>5 DEF Runs
    <3>3. \A i \in 0..n : i = 0 \/ i \in 1..n
      BY <1>1
    <3>4. QED
      BY <3>1, <3>2, <3>3
  <2>3. QED
    BY <1>5, <2>2
<1>7. Is(upto)
  <2> HIDE DEF Is
  <2>1. QED
    BY <1>6
<1> HIDE DEF upto
<1>8. upto[0] = none /\ \A i \in 1..n : upto[i] = After(upto, i)
  <2>1. 0 \in 0..n /\ \A i \in 1..n : i \in 0..n /\ i # 0
    BY <1>1
  <2> DEFINE v(i) == IF i = 0 THEN none ELSE After(upto, i)
  <2>2. \A i \in 0..n : upto[i] = v(i)
    <3> HIDE DEF v
    <3>1. upto = [i \in 0..n |-> v(i)]
      BY <1>7 DEF v
    <3>2. QED
      BY <3>1
  <2>3. QED
    BY <2>1, <2>2
<1>9. g[0] = none /\ \A i \in 1..n : g[i] = After(g, i)
  BY <1>1, <1>6
<1> DEFINE S == {m \in Nat : m <= n => upto[m] = g[m]}
<1>10. 0 \in S
  BY <1>8, <1>9
<1>11. ASSUME NEW m \in S
       PROVE  m + 1 \in S
  <2>1. CASE m + 1 <= n
    <3>1. m + 1 \in 1..n /\ (m + 1) - 1 = m /\ upto[m] = g[m]
      BY <1>1, <2>1
    <3>2. upto[m + 1] = After(upto, m + 1) /\ g[m + 1] = After(g, m + 1)
      BY <1>8, <1>9, <3>1
    <3>3. After(upto, m + 1) = After(g, m + 1)
      BY <3>1 DEF After
    <3>4. QED
      BY <3>2, <3>3
  <2>2. QED
    BY <1>1, <2>1
<1>12. S = Nat
  <2> HIDE DEF S
  <2>1. S \in SUBSET Nat
    BY DEF S
  <2>2. QED
    BY <1>10, <1>11, <2>1, SetInduction
<1>13. upto[n] = g[n]
  BY <1>1, <1>12
<1>14. g \in [0..n -> Seq(T)] /\ Joined(texts) = g[n]
  BY <1>4, <1>5, <1>13 DEF D
<1>15. QED
  BY <1>9, <1>14 DEF n, none, After

\* Where each of the texts stands in the whole: from at[i] to at[i + 1].
Laid(texts, whole, at) ==
  /\ at \in [1..(Len(texts) + 1) -> Nat] /\ at[1] = 0 /\ Len(whole) = at[Len(texts) + 1]
  /\ \A i \in 1..Len(texts) : at[i + 1] = at[i] + Len(texts[i])
  /\ \A i, j \in 1..(Len(texts) + 1) : i <= j => at[i] <= at[j]
  /\ \A i \in 1..Len(texts) : \A k \in 1..Len(texts[i]) : whole[at[i] + k] = texts[i][k]
  /\ \A p \in 1..Len(whole) : \E i \in 1..Len(texts) : at[i] < p /\ p <= at[i + 1]

LEMMA JoinedLaid ==
  ASSUME NEW T, NEW texts \in Seq(Seq(T))
  PROVE  Joined(texts) \in Seq(T) /\ \E at : Laid(texts, Joined(texts), at)
<1> DEFINE n == Len(texts)
<1>1. n \in Nat /\ \A i \in 1..n : texts[i] \in Seq(T) /\ Len(texts[i]) \in Nat
  OBVIOUS
<1>2. PICK f \in [0..n -> Seq(T)] :
        /\ f[0] = <<>> /\ \A i \in 1..n : f[i] = f[i - 1] \o texts[i]
        /\ Joined(texts) = f[n]
  BY JoinedUnfolds
<1> DEFINE size(i) == Len(f[i])
<1> HIDE DEF n
<1>3. ASSUME NEW i \in 1..n
      PROVE  /\ i - 1 \in 0..n /\ f[i - 1] \in Seq(T) /\ f[i] \in Seq(T)
             /\ size(i - 1) \in Nat /\ size(i) = size(i - 1) + Len(texts[i])
             /\ \A k \in 1..size(i - 1) : f[i][k] = f[i - 1][k]
             /\ \A k \in 1..Len(texts[i]) : f[i][size(i - 1) + k] = texts[i][k]
  <2>1. i - 1 \in 0..n /\ i \in 0..n
    BY <1>1
  <2>2. f[i - 1] \in Seq(T) /\ f[i] \in Seq(T) /\ texts[i] \in Seq(T)
    BY <1>1, <2>1
  <2>3. f[i] = f[i - 1] \o texts[i]
    BY <1>2
  <2> DEFINE a == f[i - 1]
             b == texts[i]
  <2> HIDE DEF a, b
  <2>4. a \in Seq(T) /\ b \in Seq(T) /\ f[i] = a \o b
    BY <2>2, <2>3 DEF a, b
  <2>5. /\ Len(a) \in Nat /\ Len(f[i]) = Len(a) + Len(b)
        /\ \A k \in 1..Len(a) : f[i][k] = a[k]
        /\ \A k \in 1..Len(b) : f[i][Len(a) + k] = b[k]
    BY <2>4
  <2>6. QED
    BY <2>1, <2>2, <2>5 DEF a, b
<1>4. size(0) = 0 /\ \A i \in 0..n : size(i) \in Nat
  <2>1. Len(f[0]) = 0
    BY <1>2
  <2>2. \A i \in 0..n : f[i] \in Seq(T)
    BY <1>1
  <2>3. QED
    BY <2>1, <2>2
<1> DEFINE Up(m) == \A i \in 0..m : size(i) <= size(m)
           Holds(m) == \A i \in 1..m : \A k \in 1..Len(texts[i]) : f[m][size(i - 1) + k] = texts[i][k]
           Covered(m) == \A p \in 1..size(m) : \E i \in 1..m : size(i - 1) < p /\ p <= size(i)
           S == {m \in Nat : m <= n => Up(m) /\ Holds(m) /\ Covered(m)}
<1> HIDE DEF size
<1>5. 0 \in S
  BY <1>4
<1>6. ASSUME NEW m \in S
      PROVE  m + 1 \in S
  <2>1. SUFFICES ASSUME m + 1 <= n
                 PROVE  Up(m + 1) /\ Holds(m + 1) /\ Covered(m + 1)
    OBVIOUS
  <2>2. m \in Nat /\ m <= n /\ m + 1 \in 1..n /\ (m + 1) - 1 = m /\ m \in 0..n
    <3> HIDE DEF Up, Holds, Covered
    <3>1. m \in Nat
      OBVIOUS
    <3> HIDE DEF S
    <3>2. QED
      BY <1>1, <2>1, <3>1
  <2>3. Up(m) /\ Holds(m) /\ Covered(m)
    BY <2>2
  <2> DEFINE w == texts[m + 1]
  <2>4. /\ size(m) \in Nat /\ Len(w) \in Nat /\ size(m + 1) = size(m) + Len(w)
        /\ \A k \in 1..size(m) : f[m + 1][k] = f[m][k]
        /\ \A k \in 1..Len(w) : f[m + 1][size(m) + k] = w[k]
    BY <1>1, <1>3, <2>2
  <2>5. \A i \in 0..m : size(i) \in Nat /\ size(i) <= size(m)
    <3>1. \A i \in 0..m : i \in 0..n
      BY <1>1, <2>2
    <3>2. QED
      BY <1>4, <2>3, <3>1
  <2>6. Up(m + 1)
    <3>1. \A i \in 0..(m + 1) : i \in 0..m \/ i = m + 1
      BY <2>2
    <3>2. QED
      BY <2>4, <2>5, <3>1
  <2>7. ASSUME NEW i \in 1..(m + 1), NEW k \in 1..Len(texts[i])
        PROVE  f[m + 1][size(i - 1) + k] = texts[i][k]
    <3>1. CASE i = m + 1
      BY <2>2, <2>4, <3>1
    <3>2. CASE i \in 1..m
      <4>1. i \in 1..n /\ i - 1 \in 0..m /\ i \in 0..m
        BY <1>1, <2>2, <3>2
      <4>2. size(i) = size(i - 1) + Len(texts[i]) /\ size(i) <= size(m) /\ size(i - 1) \in Nat /\ Len(texts[i]) \in Nat
        BY <1>1, <1>3, <2>5, <4>1
      <4>3. size(i - 1) + k \in 1..size(m)
        BY <2>4, <4>2
      <4>4. f[m + 1][size(i - 1) + k] = f[m][size(i - 1) + k]
        BY <2>4, <4>3
      <4>5. QED
        BY <2>3, <3>2, <4>4
    <3>3. QED
      BY <2>2, <3>1, <3>2
  <2>8. ASSUME NEW p \in 1..size(m + 1)
        PROVE  \E i \in 1..(m + 1) : size(i - 1) < p /\ p <= size(i)
    <3>1. CASE p <= size(m)
      <4>1. PICK i \in 1..m : size(i - 1) < p /\ p <= size(i)
        BY <2>3, <2>4, <3>1
      <4>2. QED
        BY <2>2, <4>1
    <3>2. CASE p > size(m)
      BY <2>2, <2>4, <3>2
    <3>3. QED
      BY <2>4, <3>1, <3>2
  <2>9. QED
    BY <2>6, <2>7, <2>8
<1>7. S = Nat
  <2> HIDE DEF S
  <2>1. S \in SUBSET Nat
    BY DEF S
  <2>2. QED
    BY <1>5, <1>6, <2>1, SetInduction
<1>8. \A m \in 0..n : Up(m) /\ Holds(m) /\ Covered(m)
  <2>1. ASSUME NEW m \in 0..n
        PROVE  Up(m) /\ Holds(m) /\ Covered(m)
    <3>1. m \in S /\ m <= n
      <4> HIDE DEF S
      <4>1. QED
        BY <1>1, <1>7
    <3>2. QED
      BY <3>1
  <2>2. QED
    BY <2>1
<1> DEFINE at == [i \in 1..(n + 1) |-> size(i - 1)]
<1>9. /\ at \in [1..(n + 1) -> Nat] /\ at[1] = 0
      /\ \A i \in 1..n : i + 1 \in 1..(n + 1) /\ at[i] = size(i - 1) /\ at[i + 1] = size(i)
      /\ at[n + 1] = size(n)
  BY <1>1, <1>4
<1> HIDE DEF at
<1>10. \A i, j \in 1..(n + 1) : i <= j => at[i] <= at[j]
  <2>1. ASSUME NEW i \in 1..(n + 1), NEW j \in 1..(n + 1), i <= j
        PROVE  at[i] <= at[j]
    <3>1. at[i] = size(i - 1) /\ at[j] = size(j - 1) /\ j - 1 \in 0..n /\ i - 1 \in 0..(j - 1)
      BY <1>1, <2>1 DEF at
    <3>2. QED
      BY <1>8, <3>1
  <2>2. QED
    BY <2>1
<1>11. Len(f[n]) = size(n) /\ n \in 0..n /\ f[n] \in Seq(T)
  BY <1>1 DEF size
<1>12. \A i \in 1..n : at[i + 1] = at[i] + Len(texts[i])
  BY <1>3, <1>9
<1>13. \A i \in 1..n : \A k \in 1..Len(texts[i]) : f[n][at[i] + k] = texts[i][k]
  BY <1>8, <1>9, <1>11
<1>14. \A p \in 1..size(n) : \E i \in 1..n : at[i] < p /\ p <= at[i + 1]
  BY <1>8, <1>9, <1>11
<1>15. Laid(texts, f[n], at)
  BY <1>9, <1>10, <1>11, <1>12, <1>13, <1>14 DEF Laid, n
<1>16. QED
  BY <1>2, <1>11, <1>15

(***************************************************************************)
(* What a splice makes of a text.                                          *)
(***************************************************************************)
\* The edits lie within the brackets.
Within(text, edits) ==
  \A e \in edits : e.from \in Nat /\ e.to \in Nat /\ 1 <= e.from /\ e.from <= e.to /\ e.to < Len(text)
\* They put w after position p, and nothing anywhere else.
Puts(text, edits, p, w) ==
  /\ p \in 1..(Len(text) - 1) /\ w \in Seq(Range(w))
  /\ \A i \in 1..Len(text) : Inserted(edits, i) = IF i = p THEN w ELSE <<>>

Width(edits, i) == IF Kept(edits, i) THEN 1 ELSE 0
\* Where the token at i comes to stand, at[i] + 1, and w, after at[p] + Width(edits, p).
Placed(text, edits, p, w, whole, at) ==
  /\ at \in [1..(Len(text) + 1) -> Nat] /\ at[1] = 0 /\ Len(whole) = at[Len(text) + 1]
  /\ \A i \in 1..Len(text) :
       at[i + 1] = at[i] + Width(edits, i) + (IF i = p THEN Len(w) ELSE 0)
  /\ \A i, j \in 1..(Len(text) + 1) : i <= j => at[i] <= at[j]
  /\ \A i \in 1..Len(text) : Kept(edits, i) => whole[at[i] + 1] = text[i]
  /\ \A k \in 1..Len(w) : whole[at[p] + Width(edits, p) + k] = w[k]
  /\ \A q \in 1..Len(whole) :
       \/ \E i \in 1..Len(text) : Kept(edits, i) /\ q = at[i] + 1
       \/ \E k \in 1..Len(w) : q = at[p] + Width(edits, p) + k

LEMMA RangeOfSeq ==
  ASSUME NEW s, s \in Seq(Range(s))
  PROVE  /\ Len(s) \in Nat /\ DOMAIN s = 1..Len(s)
         /\ \A i \in 1..Len(s) : s[i] \in Range(s)
  OBVIOUS

LEMMA SplicePlaced ==
  ASSUME NEW text, text \in Seq(Range(text)), NEW edits, NEW p, NEW w, Puts(text, edits, p, w)
  PROVE  /\ Spliced(text, edits) \in Seq(Range(text) \cup Range(w))
         /\ \E at : Placed(text, edits, p, w, Spliced(text, edits), at)
<1> DEFINE T == Range(text) \cup Range(w)
           n == Len(text)
           mine(i) == IF Kept(edits, i) THEN <<text[i]>> ELSE <<>>
           piece(i) == mine(i) \o Inserted(edits, i)
           pieces == [i \in 1..n |-> piece(i)]
           R == Joined(pieces)
<1>1. n \in Nat /\ \A i \in 1..n : text[i] \in T
  BY RangeOfSeq
<1>2. /\ p \in 1..(n - 1) /\ w \in Seq(Range(w))
      /\ \A i \in 1..n : Inserted(edits, i) = IF i = p THEN w ELSE <<>>
  BY DEF Puts
<1>3. w \in Seq(T) /\ Len(w) \in Nat
  BY <1>2
<1>4. Spliced(text, edits) = R
  <2>1. DOMAIN text = 1..n
    BY RangeOfSeq
  <2> HIDE DEF n
  <2>2. QED
    BY <2>1 DEF Spliced
<1> HIDE DEF n, T
<1>5. ASSUME NEW i \in 1..n
      PROVE  /\ mine(i) \in Seq(T) /\ Len(mine(i)) = Width(edits, i)
             /\ Kept(edits, i) => mine(i)[1] = text[i]
  BY <1>1 DEF Width
<1>6. ASSUME NEW i \in 1..n
      PROVE  /\ piece(i) \in Seq(T)
             /\ Len(piece(i)) = Width(edits, i) + (IF i = p THEN Len(w) ELSE 0)
             /\ Kept(edits, i) => piece(i)[1] = text[i] /\ Len(piece(i)) >= 1
             /\ i = p => \A k \in 1..Len(w) : piece(i)[Width(edits, i) + k] = w[k]
  <2> DEFINE a == mine(i)
             b == Inserted(edits, i)
  <2>1. a \in Seq(T) /\ Len(a) = Width(edits, i) /\ (Kept(edits, i) => a[1] = text[i] /\ Len(a) = 1)
    BY <1>5 DEF Width
  <2>2. b \in Seq(T) /\ (i = p => b = w) /\ (i # p => Len(b) = 0)
    <3>1. CASE i = p
      BY <1>2, <1>3, <3>1
    <3>2. CASE i # p
      <4>1. b = <<>>
        BY <1>2, <3>2
      <4>2. <<>> \in Seq(T) /\ Len(<<>>) = 0
        OBVIOUS
      <4>3. QED
        BY <3>2, <4>1, <4>2
    <3>3. QED
      BY <3>1, <3>2
  <2> HIDE DEF a, b
  <2>3. /\ a \o b \in Seq(T) /\ Len(a \o b) = Len(a) + Len(b) /\ Len(a) \in Nat /\ Len(b) \in Nat
        /\ \A k \in 1..Len(a) : (a \o b)[k] = a[k]
        /\ \A k \in 1..Len(b) : (a \o b)[Len(a) + k] = b[k]
    <3>1. a \in Seq(T) /\ b \in Seq(T)
      BY <2>1, <2>2
    <3>2. QED
      BY ONLY <3>1
  <2>4. /\ Kept(edits, i) => (a \o b)[1] = text[i] /\ Len(a \o b) >= 1
        /\ i = p => \A k \in 1..Len(w) : (a \o b)[Width(edits, i) + k] = w[k]
        /\ Len(a \o b) = Width(edits, i) + (IF i = p THEN Len(w) ELSE 0)
    BY <2>1, <2>2, <2>3
  <2>5. QED
    BY <2>3, <2>4 DEF a, b
<1> HIDE DEF piece
<1>7. pieces \in Seq(Seq(T)) /\ Len(pieces) = n /\ \A i \in 1..n : pieces[i] = piece(i)
  BY <1>1, <1>6
<1> HIDE DEF pieces
<1>8. PICK at : R \in Seq(T) /\ Laid(pieces, R, at)
  BY <1>7, JoinedLaid
<1> HIDE DEF R
<1>9. /\ at \in [1..(n + 1) -> Nat] /\ at[1] = 0 /\ Len(R) = at[n + 1]
      /\ \A i \in 1..n : at[i + 1] = at[i] + Len(piece(i))
      /\ \A i, j \in 1..(n + 1) : i <= j => at[i] <= at[j]
      /\ \A i \in 1..n : \A k \in 1..Len(piece(i)) : R[at[i] + k] = piece(i)[k]
      /\ \A q \in 1..Len(R) : \E i \in 1..n : at[i] < q /\ q <= at[i + 1]
  BY <1>7, <1>8 DEF Laid
<1>10. ASSUME NEW i \in 1..n
       PROVE  /\ at[i] \in Nat /\ at[i + 1] \in Nat /\ Width(edits, i) \in Nat
              /\ at[i + 1] = at[i] + Width(edits, i) + (IF i = p THEN Len(w) ELSE 0)
              /\ Kept(edits, i) => R[at[i] + 1] = text[i]
  <2>1. i \in 1..(n + 1) /\ i + 1 \in 1..(n + 1)
    BY <1>1
  <2>2. at[i] \in Nat /\ at[i + 1] \in Nat /\ Width(edits, i) \in Nat
    BY <1>9, <2>1 DEF Width
  <2>3. at[i + 1] = at[i] + Len(piece(i)) /\ \A k \in 1..Len(piece(i)) : R[at[i] + k] = piece(i)[k]
    BY <1>9
  <2>4. Len(piece(i)) = Width(edits, i) + (IF i = p THEN Len(w) ELSE 0)
    BY <1>6
  <2>5. at[i + 1] = at[i] + Width(edits, i) + (IF i = p THEN Len(w) ELSE 0)
    BY <1>3, <2>2, <2>3, <2>4
  <2>6. ASSUME Kept(edits, i)
        PROVE  R[at[i] + 1] = text[i]
    <3>1. piece(i)[1] = text[i] /\ 1 \in 1..Len(piece(i))
      BY <1>3, <1>6, <2>2, <2>4, <2>6
    <3>2. QED
      BY <2>3, <3>1
  <2>7. QED
    BY <2>2, <2>5, <2>6
<1>12. \A k \in 1..Len(w) : R[at[p] + Width(edits, p) + k] = w[k]
  <2>1. ASSUME NEW k \in 1..Len(w)
        PROVE  R[at[p] + Width(edits, p) + k] = w[k]
    <3>1. p \in 1..n /\ Width(edits, p) \in Nat /\ at[p] \in Nat
      BY <1>1, <1>2, <1>9 DEF Width
    <3>2. Width(edits, p) + k \in 1..Len(piece(p)) /\ piece(p)[Width(edits, p) + k] = w[k]
      <4>1. /\ Len(piece(p)) = Width(edits, p) + Len(w)
            /\ \A j \in 1..Len(w) : piece(p)[Width(edits, p) + j] = w[j]
        BY <1>6, <3>1
      <4>2. QED
        BY <1>3, <3>1, <4>1
    <3>3. R[at[p] + (Width(edits, p) + k)] = w[k]
      BY <1>9, <3>1, <3>2
    <3>4. QED
      BY <3>1, <3>3
  <2>2. QED
    BY <2>1
<1>13. ASSUME NEW q \in 1..Len(R)
       PROVE  \/ \E i \in 1..n : Kept(edits, i) /\ q = at[i] + 1
              \/ \E k \in 1..Len(w) : q = at[p] + Width(edits, p) + k
  <2>1. PICK i \in 1..n : at[i] < q /\ q <= at[i + 1]
    BY <1>9
  <2>2. at[i] \in Nat /\ at[i + 1] = at[i] + Width(edits, i) + (IF i = p THEN Len(w) ELSE 0)
    BY <1>10
  <2>3. CASE Kept(edits, i) /\ q = at[i] + 1
    BY <2>3
  <2>4. CASE ~ (Kept(edits, i) /\ q = at[i] + 1)
    <3>1. i = p /\ q > at[i] + Width(edits, i)
      BY <1>3, <2>1, <2>2, <2>4 DEF Width
    <3>2. q - (at[p] + Width(edits, p)) \in 1..Len(w)
      BY <1>3, <2>1, <2>2, <3>1 DEF Width
    <3>3. QED
      BY <2>2, <3>1, <3>2 DEF Width
  <2>5. QED
    BY <2>3, <2>4
<1>14. Placed(text, edits, p, w, R, at)
  BY <1>9, <1>10, <1>12, <1>13 DEF Placed, n
<1>15. QED
  BY <1>4, <1>8, <1>14 DEF T

\* Between two elements that stay a comma stays.
CommasStay(text, edits) ==
  \A i, j \in ElementAt(text) : i < j /\ Kept(edits, i) /\ Kept(edits, j) =>
    \E c \in i..j : text[c] = Comma /\ Kept(edits, c)
\* What is put in goes behind what stays, and begins with a comma if anything does.
Fits(text, edits, p, w) ==
  /\ Apart(w) /\ \A k \in 1..Len(w) : w[k] \notin {Open, Close}
  /\ Len(w) > 0 => \A i \in ElementAt(text) : Kept(edits, i) => i <= p /\ w[1] = Comma

LEMMA SeqOfOwnRange ==
  ASSUME NEW T, NEW s \in Seq(T)
  PROVE  s \in Seq(Range(s))
<1>1. s \in [1..Len(s) -> Range(s)] /\ Len(s) \in Nat
  BY DEF Range
<1>2. QED
  BY <1>1

LEMMA SpliceSound ==
  ASSUME NEW text, NEW edits, NEW p, NEW w, Framed(text), Within(text, edits),
         Puts(text, edits, p, w), CommasStay(text, edits), Fits(text, edits, p, w)
  PROVE  LET R == Spliced(text, edits) IN
         /\ Framed(R) /\ Apart(R)
         /\ \A q \in ElementAt(R) : \/ \E i \in ElementAt(text) : R[q] = text[i]
                                    \/ \E k \in ElementAt(w) : R[q] = w[k]
<1> DEFINE R == Spliced(text, edits)
           n == Len(text)
<1>1. /\ text \in Seq(Range(text)) /\ n \in Nat /\ n > 1
      /\ text[1] = Open /\ text[n] = Close /\ \A i \in 2..(n - 1) : text[i] \notin {Open, Close}
  BY DEF Framed
<1>2. p \in 1..(n - 1) /\ w \in Seq(Range(w)) /\ Len(w) \in Nat
  BY DEF Puts
<1>3. PICK at : R \in Seq(Range(text) \cup Range(w)) /\ Placed(text, edits, p, w, R, at)
  BY <1>1, SplicePlaced
<1>4. R \in Seq(Range(R)) /\ Len(R) \in Nat
  BY <1>3, SeqOfOwnRange
<1> HIDE DEF R, n
<1>5. /\ at \in [1..(n + 1) -> Nat] /\ at[1] = 0 /\ Len(R) = at[n + 1]
      /\ \A i \in 1..n : at[i + 1] = at[i] + Width(edits, i) + (IF i = p THEN Len(w) ELSE 0)
      /\ \A i, j \in 1..(n + 1) : i <= j => at[i] <= at[j]
      /\ \A i \in 1..n : Kept(edits, i) => R[at[i] + 1] = text[i]
      /\ \A k \in 1..Len(w) : R[at[p] + Width(edits, p) + k] = w[k]
      /\ \A q \in 1..Len(R) :
           \/ \E i \in 1..n : Kept(edits, i) /\ q = at[i] + 1
           \/ \E k \in 1..Len(w) : q = at[p] + Width(edits, p) + k
  BY <1>3 DEF Placed, n
<1>6. ASSUME NEW i \in 1..n
      PROVE  /\ at[i] \in Nat /\ at[i + 1] \in Nat /\ Width(edits, i) \in {0, 1}
             /\ Kept(edits, i) <=> Width(edits, i) = 1
             /\ at[i] + Width(edits, i) <= at[i + 1] /\ at[i + 1] <= Len(R)
             /\ i = p => at[i + 1] = at[i] + Width(edits, i) + Len(w)
             /\ i # p => at[i + 1] = at[i] + Width(edits, i)
  <2>1. i \in 1..(n + 1) /\ i + 1 \in 1..(n + 1) /\ n + 1 \in 1..(n + 1) /\ i + 1 <= n + 1
    BY <1>1
  <2>2. at[i] \in Nat /\ at[i + 1] \in Nat /\ at[i + 1] <= Len(R)
    BY <1>5, <2>1
  <2>3. Width(edits, i) \in {0, 1} /\ (Kept(edits, i) <=> Width(edits, i) = 1)
    BY DEF Width
  <2>4. at[i + 1] = at[i] + Width(edits, i) + (IF i = p THEN Len(w) ELSE 0)
    BY <1>5
  <2>5. QED
    BY <1>2, <2>2, <2>3, <2>4
<1>7. p \in 1..n /\ 1 \in 1..n /\ n \in 1..n /\ p # n
  BY <1>1, <1>2
<1>8. at[p] \in Nat /\ Width(edits, p) \in Nat
  BY <1>6, <1>7
<1>9. Kept(edits, 1) /\ Kept(edits, n)
  BY <1>1 DEF Kept, Within, n
<1>10. ASSUME NEW i \in 1..n, NEW j \in 1..n, i < j
      PROVE  at[i + 1] <= at[j]
  BY <1>1, <1>5, <1>10
<1>11. Len(R) > 1 /\ R[1] = Open /\ R[Len(R)] = Close
  <2>1. at[1] + 1 = 1 /\ at[n + 1] = at[n] + 1
    BY <1>5, <1>6, <1>7, <1>9
  <2>2. at[2] >= 1 /\ at[2] <= at[n]
    <3>1. 1 + 1 = 2 /\ 2 \in 1..(n + 1) /\ n \in 1..(n + 1) /\ 2 <= n
      BY <1>1
    <3>2. at[1 + 1] >= at[1] + 1
      BY <1>6, <1>7, <1>9
    <3>3. QED
      BY <1>5, <3>1, <3>2
  <2>3. at[n] \in Nat /\ at[1] = 0 /\ Len(R) = at[n + 1]
    BY <1>5, <1>6, <1>7
  <2>4. R[at[1] + 1] = text[1] /\ R[at[n] + 1] = text[n]
    BY <1>5, <1>7, <1>9
  <2>5. at[2] \in Nat
    BY <1>1, <1>5
  <2>6. Len(R) = at[n] + 1 /\ Len(R) > 1
    BY <2>1, <2>2, <2>3, <2>5
  <2>7. QED
    BY <1>1, <2>1, <2>4, <2>6
<1>12. ASSUME NEW q \in 1..Len(R)
       PROVE  \/ q = 1
              \/ q = Len(R)
              \/ \E i \in 2..(n - 1) : Kept(edits, i) /\ q = at[i] + 1 /\ R[q] = text[i]
              \/ \E k \in 1..Len(w) : q = at[p] + Width(edits, p) + k /\ R[q] = w[k]
  <2>1. CASE \E k \in 1..Len(w) : q = at[p] + Width(edits, p) + k
    BY <1>5, <2>1
  <2>2. ASSUME NEW i \in 1..n, Kept(edits, i), q = at[i] + 1
        PROVE  q = 1 \/ q = Len(R) \/ (i \in 2..(n - 1) /\ R[q] = text[i])
    <3>1. CASE i = 1
      BY <1>5, <2>2, <3>1
    <3>2. CASE i = n
      BY <1>5, <1>6, <1>7, <1>9, <2>2, <3>2
    <3>3. CASE i # 1 /\ i # n
      BY <1>1, <1>5, <2>2, <3>3
    <3>4. QED
      BY <3>1, <3>2, <3>3
  <2>3. QED
    BY <1>5, <2>1, <2>2
<1>13. \A k \in 1..Len(w) : w[k] \notin {Open, Close}
  BY DEF Fits
<1>14. \A q \in 2..(Len(R) - 1) : R[q] \notin {Open, Close}
  <2>1. ASSUME NEW q \in 2..(Len(R) - 1)
        PROVE  R[q] \notin {Open, Close}
    <3>1. q \in 1..Len(R) /\ q # 1 /\ q # Len(R)
      BY <1>4
    <3>2. QED
      BY <1>1, <1>12, <1>13, <3>1
  <2>2. QED
    BY <2>1
<1>15. Framed(R)
  BY <1>4, <1>11, <1>14 DEF Framed
<1>16. ASSUME NEW q \in ElementAt(R)
       PROVE  \/ \E i \in ElementAt(text) : Kept(edits, i) /\ q = at[i] + 1 /\ R[q] = text[i]
              \/ \E k \in ElementAt(w) : q = at[p] + Width(edits, p) + k /\ R[q] = w[k]
  <2>1. q \in 1..Len(R) /\ R[q] \notin Punctuation
    BY DEF ElementAt
  <2>2. q # 1 /\ q # Len(R)
    BY <1>11, <2>1 DEF Punctuation
  <2>3. ASSUME NEW i \in 2..(n - 1), R[q] = text[i]
        PROVE  i \in ElementAt(text)
    BY <1>1, <2>1, <2>3 DEF ElementAt, n
  <2>4. ASSUME NEW k \in 1..Len(w), R[q] = w[k]
        PROVE  k \in ElementAt(w)
    BY <2>1, <2>4 DEF ElementAt
  <2>5. QED
    BY <1>12, <2>1, <2>2, <2>3, <2>4
<1>17. \A i \in ElementAt(text) : i \in 1..n
  BY DEF ElementAt, n
<1>18. \A k \in ElementAt(w) : k \in 1..Len(w)
  BY DEF ElementAt
<1>19. ASSUME NEW a \in ElementAt(R), NEW b \in ElementAt(R), a < b
       PROVE  \E c \in a..b : R[c] = Comma
  <2>1. CASE \E i, j \in ElementAt(text) :
               Kept(edits, i) /\ a = at[i] + 1 /\ Kept(edits, j) /\ b = at[j] + 1
    <3>1. PICK i, j \in ElementAt(text) :
            Kept(edits, i) /\ a = at[i] + 1 /\ Kept(edits, j) /\ b = at[j] + 1
      BY <2>1
    <3>2. i \in 1..n /\ j \in 1..n /\ at[i] \in Nat /\ at[j] \in Nat /\ at[i] < at[j]
      BY <1>6, <1>17, <1>19, <3>1
    <3>3. i < j
      <4>1. CASE j < i
        BY <1>6, <1>10, <3>2, <4>1
      <4>2. CASE i = j
        BY <3>2, <4>2
      <4>3. QED
        BY <1>1, <3>2, <4>1, <4>2
    <3>4. PICK c \in i..j : text[c] = Comma /\ Kept(edits, c)
      BY <3>1, <3>3 DEF CommasStay
    <3>5. text[i] \notin Punctuation /\ text[j] \notin Punctuation
      BY DEF ElementAt
    <3>6. c \in 1..n /\ i < c /\ c < j
      BY <1>1, <3>2, <3>4, <3>5 DEF Punctuation
    <3>7. at[i + 1] <= at[c] /\ at[c + 1] <= at[j] /\ at[i] + 1 = at[i] + Width(edits, i)
          /\ at[c + 1] >= at[c] + 1
      BY <1>6, <1>10, <3>1, <3>2, <3>4, <3>6
    <3>8. at[c] + 1 \in a..b
      <4>1. at[c] \in Nat /\ at[i + 1] \in Nat /\ at[i + 1] >= at[i] + 1
        BY <1>6, <3>1, <3>2, <3>6
      <4>2. at[c + 1] \in Nat
        BY <1>6, <3>6
      <4>3. QED
        BY <3>1, <3>2, <3>7, <4>1, <4>2
    <3>9. QED
      BY <1>5, <3>4, <3>6, <3>8
  <2>2. CASE \E i \in ElementAt(text), l \in ElementAt(w) :
               Kept(edits, i) /\ a = at[i] + 1 /\ b = at[p] + Width(edits, p) + l
    <3>1. PICK i \in ElementAt(text), l \in ElementAt(w) :
            Kept(edits, i) /\ a = at[i] + 1 /\ b = at[p] + Width(edits, p) + l
      BY <2>2
    <3>2. i \in 1..n /\ l \in 1..Len(w) /\ Len(w) > 0
      BY <1>2, <1>17, <1>18
    <3>3. i <= p /\ w[1] = Comma
      BY <3>1, <3>2 DEF Fits
    <3>4. at[i] + 1 <= at[p] + Width(edits, p)
      <4>1. CASE i = p
        BY <1>6, <3>1, <3>2, <4>1
      <4>2. CASE i < p
        BY <1>6, <1>7, <1>10, <3>1, <3>2, <4>2
      <4>3. QED
        BY <1>7, <3>2, <3>3, <4>1, <4>2
    <3>5. at[p] + Width(edits, p) + 1 \in a..b
      <4>1. at[i] \in Nat
        BY <1>6, <3>2
      <4>2. QED
        BY <1>2, <1>8, <3>1, <3>2, <3>4, <4>1
    <3>6. R[at[p] + Width(edits, p) + 1] = Comma
      BY <1>2, <1>5, <3>2, <3>3
    <3>7. QED
      BY <3>5, <3>6
  <2>3. CASE \E k \in ElementAt(w), j \in ElementAt(text) :
               a = at[p] + Width(edits, p) + k /\ Kept(edits, j) /\ b = at[j] + 1
    <3>1. PICK k \in ElementAt(w), j \in ElementAt(text) :
            a = at[p] + Width(edits, p) + k /\ Kept(edits, j) /\ b = at[j] + 1
      BY <2>3
    <3>2. j \in 1..n /\ k \in 1..Len(w) /\ Len(w) > 0
      BY <1>2, <1>17, <1>18
    <3>3. j <= p
      BY <3>1, <3>2 DEF Fits
    <3>4. at[j] + 1 <= at[p] + Width(edits, p)
      <4>1. CASE j = p
        BY <1>6, <3>1, <3>2, <4>1
      <4>2. CASE j < p
        BY <1>6, <1>7, <1>10, <3>1, <3>2, <4>2
      <4>3. QED
        BY <1>7, <3>2, <3>3, <4>1, <4>2
    <3>5. at[j] \in Nat
      BY <1>6, <3>2
    <3>6. QED
      BY <1>8, <1>19, <3>1, <3>2, <3>4, <3>5
  <2>4. CASE \E k, l \in ElementAt(w) :
               a = at[p] + Width(edits, p) + k /\ b = at[p] + Width(edits, p) + l
    <3>1. PICK k, l \in ElementAt(w) :
            a = at[p] + Width(edits, p) + k /\ b = at[p] + Width(edits, p) + l
      BY <2>4
    <3>2. k \in 1..Len(w) /\ l \in 1..Len(w)
      BY <1>18
    <3>3. k < l
      BY <1>2, <1>8, <1>19, <3>1, <3>2
    <3>4. PICK c \in k..l : w[c] = Comma
      BY <3>2, <3>3 DEF Fits, Apart
    <3>5. c \in 1..Len(w) /\ at[p] + Width(edits, p) + c \in a..b
      BY <1>2, <1>8, <3>1, <3>2, <3>3
    <3>6. QED
      BY <1>5, <3>4, <3>5
  <2>5. QED
    BY <1>16, <2>1, <2>2, <2>3, <2>4
<1>20. Apart(R)
  BY <1>19 DEF Apart
<1>21. QED
  BY <1>15, <1>16, <1>20 DEF R

(***************************************************************************)
(* Comments that lose their line end. A deletion may take it, and what     *)
(* stands behind the comment on its new line is no longer read; but never  *)
(* a comma that two elements need which are still read.                    *)
(***************************************************************************)
CommentsEnd(text) ==
  /\ \A i \in 1..Len(text) : text[i] = CommaBreak => text[i - 1] = Slashes
  /\ \A k, j \in ElementAt(text) : \A i \in k..j :
       text[i] = Slashes /\ text[i + 1] \notin LineEnds => \E c \in k..i : text[c] = Comma

\* What edits do that leave a text with CommentsEnd: a comment that stays has its line end, or
\* what stays before it has a comma of its own.
CommentsStay(text, edits) ==
  \A i \in 1..Len(text) : Kept(edits, i) =>
    /\ text[i] = CommaBreak => Kept(edits, i - 1)
    /\ text[i] = Slashes =>
         \/ Kept(edits, i + 1)
         \/ \A k \in ElementAt(text) : k < i /\ Kept(edits, k) =>
              \E c \in k..i : text[c] = Comma /\ Kept(edits, c)
Tidy(text, edits, p, w) ==
  /\ text[p] # Slashes /\ \A k \in 1..Len(w) : w[k] \notin {Slashes, CommaBreak}
  /\ CommentsStay(text, edits)

LEMMA TokensApart ==
  /\ Open # Close /\ Open # Comma /\ Open # Slashes /\ Open \notin LineEnds
  /\ Close # Comma /\ Close # Slashes /\ Close \notin LineEnds
  /\ Comma # Slashes /\ Comma \notin LineEnds /\ Slashes \notin LineEnds
  /\ Break # CommaBreak /\ Note \notin {Open, Close, Comma, Slashes, Break, CommaBreak}
  /\ Open \in Punctuation /\ Close \in Punctuation /\ Comma \in Punctuation
  /\ Slashes \in Punctuation /\ Break \in Punctuation /\ CommaBreak \in Punctuation
<1>1. /\ Open.mark = "open" /\ Close.mark = "close" /\ Comma.mark = "comma" /\ Slashes.mark = "slashes"
      /\ Break.mark = "line end" /\ CommaBreak.mark = "comma and line end" /\ Note.mark = "comment"
  BY DEF Open, Close, Comma, Slashes, Break, CommaBreak, Note
<1>2. Punctuation = {Open, Close, Comma, Note, Slashes, Break, CommaBreak} /\ LineEnds = {Break, CommaBreak}
  BY DEF Punctuation, Trivia, LineEnds
<1>3. QED
  BY <1>1, <1>2

LEMMA PlacedOrder ==
  ASSUME NEW text, Len(text) \in Nat, NEW edits, NEW p \in 1..(Len(text) - 1), NEW w, Len(w) \in Nat,
         NEW R, NEW at, Placed(text, edits, p, w, R, at)
  PROVE  /\ \A i \in 1..Len(text) :
              /\ at[i] \in Nat /\ at[i + 1] \in Nat /\ Width(edits, i) \in {0, 1}
              /\ Kept(edits, i) <=> Width(edits, i) = 1
              /\ at[i] + Width(edits, i) <= at[i + 1] /\ at[i + 1] <= Len(R)
              /\ i = p => at[i + 1] = at[i] + Width(edits, i) + Len(w)
              /\ i # p => at[i + 1] = at[i] + Width(edits, i)
         /\ \A i, j \in 1..Len(text) : i < j => at[i + 1] <= at[j]
<1> DEFINE n == Len(text)
<1>1. /\ at \in [1..(n + 1) -> Nat] /\ Len(R) = at[n + 1]
      /\ \A i \in 1..n : at[i + 1] = at[i] + Width(edits, i) + (IF i = p THEN Len(w) ELSE 0)
      /\ \A i, j \in 1..(n + 1) : i <= j => at[i] <= at[j]
  BY DEF Placed
<1>2. n \in Nat
  OBVIOUS
<1> HIDE DEF n
<1>3. ASSUME NEW i \in 1..n
      PROVE  /\ at[i] \in Nat /\ at[i + 1] \in Nat /\ Width(edits, i) \in {0, 1}
             /\ Kept(edits, i) <=> Width(edits, i) = 1
             /\ at[i] + Width(edits, i) <= at[i + 1] /\ at[i + 1] <= Len(R)
             /\ i = p => at[i + 1] = at[i] + Width(edits, i) + Len(w)
             /\ i # p => at[i + 1] = at[i] + Width(edits, i)
  <2>1. i \in 1..(n + 1) /\ i + 1 \in 1..(n + 1) /\ n + 1 \in 1..(n + 1) /\ i + 1 <= n + 1
    BY <1>2
  <2>2. at[i] \in Nat /\ at[i + 1] \in Nat /\ at[i + 1] <= Len(R)
    BY <1>1, <2>1
  <2>3. Width(edits, i) \in {0, 1} /\ (Kept(edits, i) <=> Width(edits, i) = 1)
    BY DEF Width
  <2>4. at[i + 1] = at[i] + Width(edits, i) + (IF i = p THEN Len(w) ELSE 0)
    BY <1>1
  <2>5. QED
    BY <2>2, <2>3, <2>4
<1>4. ASSUME NEW i \in 1..n, NEW j \in 1..n, i < j
      PROVE  at[i + 1] <= at[j]
  BY <1>1, <1>2, <1>4
<1>5. QED
  BY <1>3, <1>4 DEF n

LEMMA SpliceEnded ==
  ASSUME NEW text, NEW edits, NEW p, NEW w, Framed(text), Lined(text), Puts(text, edits, p, w),
         Fits(text, edits, p, w), Tidy(text, edits, p, w)
  PROVE  CommentsEnd(Spliced(text, edits))
<1> DEFINE R == Spliced(text, edits)
           n == Len(text)
<1>1. /\ text \in Seq(Range(text)) /\ n \in Nat /\ n > 1
      /\ text[1] = Open /\ text[n] = Close
  BY DEF Framed
<1>2. p \in 1..(n - 1) /\ w \in Seq(Range(w)) /\ Len(w) \in Nat /\ p \in 1..n
  BY <1>1 DEF Puts
<1>3. PICK at : R \in Seq(Range(text) \cup Range(w)) /\ Placed(text, edits, p, w, R, at)
  BY <1>1, SplicePlaced
<1>4. Len(R) \in Nat
  BY <1>3
<1>5. /\ \A i \in 1..n :
              /\ at[i] \in Nat /\ at[i + 1] \in Nat /\ Width(edits, i) \in {0, 1}
              /\ Kept(edits, i) <=> Width(edits, i) = 1
              /\ at[i] + Width(edits, i) <= at[i + 1] /\ at[i + 1] <= Len(R)
              /\ i = p => at[i + 1] = at[i] + Width(edits, i) + Len(w)
              /\ i # p => at[i + 1] = at[i] + Width(edits, i)
      /\ \A i, j \in 1..n : i < j => at[i + 1] <= at[j]
  BY <1>1, <1>2, <1>3, PlacedOrder
<1> HIDE DEF R, n
<1>6. /\ \A i \in 1..n : Kept(edits, i) => R[at[i] + 1] = text[i]
      /\ \A k \in 1..Len(w) : R[at[p] + Width(edits, p) + k] = w[k]
      /\ \A q \in 1..Len(R) :
           \/ \E i \in 1..n : Kept(edits, i) /\ q = at[i] + 1
           \/ \E k \in 1..Len(w) : q = at[p] + Width(edits, p) + k
  BY <1>3 DEF Placed, n
<1>7. /\ text[p] # Slashes /\ \A k \in 1..Len(w) : w[k] \notin {Slashes, CommaBreak}
      /\ \A i \in 1..n : Kept(edits, i) =>
           /\ text[i] = CommaBreak => Kept(edits, i - 1)
           /\ text[i] = Slashes =>
                \/ Kept(edits, i + 1)
                \/ \A k \in ElementAt(text) : k < i /\ Kept(edits, k) =>
                     \E c \in k..i : text[c] = Comma /\ Kept(edits, c)
  BY DEF Tidy, CommentsStay, n
<1>8. \A i \in 1..n : /\ text[i] = Slashes => text[i + 1] \in LineEnds /\ i + 1 \in 1..n
                      /\ text[i] = CommaBreak => text[i - 1] = Slashes /\ i - 1 \in 1..n
  <2>1. ASSUME NEW i \in 1..n
        PROVE  /\ text[i] = Slashes => text[i + 1] \in LineEnds /\ i + 1 \in 1..n
               /\ text[i] = CommaBreak => text[i - 1] = Slashes /\ i - 1 \in 1..n
    <3>1. text[i] = Slashes => i # n
      BY <1>1, TokensApart
    <3>2. text[i] = CommaBreak => i # 1
      BY <1>1, TokensApart DEF LineEnds
    <3>3. QED
      BY <1>1, <3>1, <3>2 DEF Lined, n
  <2>2. QED
    BY <2>1
<1>9. ASSUME NEW q \in 1..Len(R), R[q] \in {Slashes, CommaBreak}
      PROVE  \E i \in 1..n : Kept(edits, i) /\ q = at[i] + 1 /\ text[i] = R[q]
  <2>1. ~ \E k \in 1..Len(w) : q = at[p] + Width(edits, p) + k
    BY <1>6, <1>7, <1>9
  <2>2. QED
    BY <1>6, <2>1
<1>10. ASSUME NEW q \in 1..Len(R), R[q] = CommaBreak
       PROVE  R[q - 1] = Slashes
  <2>1. PICK i \in 1..n : Kept(edits, i) /\ q = at[i] + 1 /\ text[i] = CommaBreak
    BY <1>9, <1>10
  <2> DEFINE h == i - 1
  <2>2. h \in 1..n /\ text[h] = Slashes /\ Kept(edits, h) /\ h # p /\ h + 1 = i
    BY <1>7, <1>8, <2>1
  <2> HIDE DEF h
  <2>3. at[i] = at[h] + 1 /\ at[h] \in Nat
    BY <1>5, <2>2
  <2>4. R[at[h] + 1] = Slashes
    BY <1>6, <2>2
  <2>5. QED
    BY <2>1, <2>3, <2>4
<1>11. ASSUME NEW a \in ElementAt(R), NEW b \in ElementAt(R), NEW q \in a..b,
              R[q] = Slashes, R[q + 1] \notin LineEnds
       PROVE  \E c \in a..q : R[c] = Comma
  <2>1. a \in 1..Len(R) /\ b \in 1..Len(R) /\ R[a] \notin Punctuation /\ R[b] \notin Punctuation
    BY DEF ElementAt
  <2>2. q \in 1..Len(R) /\ q # a /\ q # b /\ a < q /\ q < b
    BY <1>4, <1>11, <2>1, TokensApart
  <2>3. PICK i \in 1..n : Kept(edits, i) /\ q = at[i] + 1 /\ text[i] = Slashes
    BY <1>9, <1>11, <2>2
  <2>4. i + 1 \in 1..n /\ text[i + 1] \in LineEnds /\ i # p
    BY <1>7, <1>8, <2>3
  <2>5. at[i + 1] = at[i] + 1 /\ at[i] \in Nat
    BY <1>5, <2>3, <2>4
  <2>6. ~ Kept(edits, i + 1)
    <3>1. SUFFICES ASSUME Kept(edits, i + 1) PROVE FALSE
      OBVIOUS
    <3>2. R[at[i + 1] + 1] = text[i + 1]
      BY <1>6, <2>4, <3>1
    <3>3. at[i + 1] + 1 = q + 1
      BY <2>3, <2>5
    <3>4. QED
      BY <1>11, <2>4, <3>2, <3>3
  <2>7. \A k \in ElementAt(text) : k < i /\ Kept(edits, k) =>
          \E c \in k..i : text[c] = Comma /\ Kept(edits, c)
    BY <1>7, <2>3, <2>6
  <2>8. CASE \E k \in 1..n : Kept(edits, k) /\ a = at[k] + 1
    <3>1. PICK k \in 1..n : Kept(edits, k) /\ a = at[k] + 1
      BY <2>8
    <3>2. k \in ElementAt(text)
      BY <1>6, <2>1, <3>1 DEF ElementAt, n
    <3>3. at[k] \in Nat /\ at[k] < at[i]
      BY <1>5, <2>2, <2>3, <2>5, <3>1
    <3>4. k < i
      <4>1. CASE i < k
        <5>1. at[i + 1] <= at[k]
          BY <1>5, <4>1
        <5>2. QED
          BY <2>5, <3>3, <5>1
      <4>2. CASE i = k
        BY <3>3, <4>2
      <4>3. QED
        BY <1>1, <4>1, <4>2
    <3>5. PICK c \in k..i : text[c] = Comma /\ Kept(edits, c)
      BY <2>7, <3>1, <3>2, <3>4
    <3>6. c \in 1..n /\ c # k /\ c # i /\ k < c /\ c < i
      BY <1>1, <2>3, <3>2, <3>5, TokensApart DEF ElementAt
    <3>7. at[c] \in Nat /\ at[k] <= at[c] /\ at[c] <= at[i]
      <4>1. at[k + 1] <= at[c] /\ at[c + 1] <= at[i]
        BY <1>5, <3>6
      <4>2. \A m \in 1..n : at[m] \in Nat /\ at[m + 1] \in Nat /\ at[m] <= at[m + 1]
        <5>1. ASSUME NEW m \in 1..n
              PROVE  at[m] \in Nat /\ at[m + 1] \in Nat /\ at[m] <= at[m + 1]
          <6>1. /\ at[m] \in Nat /\ at[m + 1] \in Nat /\ Width(edits, m) \in {0, 1}
                /\ at[m] + Width(edits, m) <= at[m + 1]
            BY <1>5
          <6>2. QED
            BY <6>1
        <5>2. QED
          BY <5>1
      <4>3. QED
        BY <2>5, <3>3, <3>6, <4>1, <4>2
    <3>8. at[c] + 1 \in a..q /\ R[at[c] + 1] = Comma
      BY <1>6, <2>3, <2>5, <3>1, <3>3, <3>5, <3>6, <3>7
    <3>9. QED
      BY <3>8
  <2>9. CASE \E k \in 1..Len(w) : a = at[p] + Width(edits, p) + k
    <3>1. PICK k \in 1..Len(w) : a = at[p] + Width(edits, p) + k
      BY <2>9
    <3>2. /\ at[p] \in Nat /\ Width(edits, p) \in {0, 1} /\ at[p + 1] \in Nat
          /\ at[p + 1] = at[p] + Width(edits, p) + Len(w)
      BY <1>2, <1>5
    <3>3. at[p + 1] <= at[i]
      <4>1. CASE i < p
        <5>1. at[i + 1] <= at[p]
          BY <1>2, <1>5, <4>1
        <5>2. QED
          BY <2>2, <2>3, <2>5, <3>1, <3>2, <5>1
      <4>2. CASE p < i
        BY <1>2, <1>5, <4>2
      <4>3. QED
        BY <1>2, <2>4, <4>1, <4>2
    <3>4. CASE \E j \in 1..n : Kept(edits, j) /\ b = at[j] + 1
      <4>1. PICK j \in 1..n : Kept(edits, j) /\ b = at[j] + 1
        BY <3>4
      <4>2. j \in ElementAt(text)
        BY <1>6, <2>1, <4>1 DEF ElementAt, n
      <4>3. j <= p
        <5>1. Len(w) > 0
          BY <1>2, <3>1
        <5>2. QED
          BY <4>1, <4>2, <5>1 DEF Fits
      <4>4. at[j] + 1 <= at[p + 1]
        <5>1. at[j] + 1 <= at[j + 1] /\ at[j] \in Nat /\ at[j + 1] \in Nat
          BY <1>5, <4>1
        <5>2. j # p => at[j + 1] <= at[p]
          BY <1>2, <1>5, <4>3
        <5>3. at[p] <= at[p + 1] /\ at[p] \in Nat /\ at[p + 1] \in Nat
          <6>1. Len(w) \in Nat
            BY <1>2
          <6>2. QED
            BY <3>2, <6>1
        <5>4. CASE j = p
          BY <5>1, <5>4
        <5>5. CASE j # p
          BY <5>1, <5>2, <5>3, <5>5
        <5>6. QED
          BY <5>4, <5>5
      <4>5. QED
        BY <2>2, <2>3, <2>5, <3>2, <3>3, <4>1, <4>4
    <3>5. CASE \E l \in 1..Len(w) : b = at[p] + Width(edits, p) + l
      <4>1. PICK l \in 1..Len(w) : b = at[p] + Width(edits, p) + l
        BY <3>5
      <4>2. l \in Nat /\ l <= Len(w)
        BY <1>2
      <4>3. b <= at[p + 1] /\ at[i] + 1 < b
        BY <1>2, <2>2, <2>3, <3>2, <4>1, <4>2
      <4>4. QED
        BY <1>2, <2>5, <3>2, <3>3, <4>1, <4>2, <4>3
    <3>6. QED
      BY <1>6, <2>1, <3>4, <3>5
  <2>10. QED
    BY <1>6, <2>1, <2>8, <2>9
<1>12. QED
  BY <1>10, <1>11 DEF CommentsEnd, R

\* What is read of a text: of the token at i either Token(text, i), or nothing.
IsRead(text, i) == AsRead(text, CommentedOut(text), i) # <<>>
Token(text, i) == AsRead(text, CommentedOut(text), i)[1]
\* Where it comes to stand, at[i] + 1.
ReadAt(text, R, at) ==
  /\ R \in Seq(Range(R)) /\ Len(R) \in Nat /\ at[1] = 0
  /\ \A i \in 1..Len(text) :
       /\ at[i] \in Nat /\ at[i + 1] \in Nat /\ at[i] <= at[i + 1] /\ at[i + 1] <= Len(R)
       /\ IsRead(text, i) => at[i + 1] = at[i] + 1 /\ R[at[i] + 1] = Token(text, i)
  /\ \A i, j \in 1..Len(text) : i < j => at[i + 1] <= at[j]
  /\ \A q \in 1..Len(R) : \E i \in 1..Len(text) : IsRead(text, i) /\ q = at[i] + 1

LEMMA TokenRead ==
  ASSUME NEW text, NEW i \in 1..Len(text)
  PROVE  LET out == CommentedOut(text) IN
         /\ IsRead(text, i) <=> ~ (i \in out \/ (text[i] = Break /\ text[i - 1] \in LineEnds))
         /\ ~ IsRead(text, i) => AsRead(text, out, i) = <<>>
         /\ IsRead(text, i) =>
              /\ AsRead(text, out, i) = <<Token(text, i)>>
              /\ \/ Token(text, i) = text[i]
                 \/ /\ text[i] = Break /\ text[i - 1] = Comma /\ i - 1 \in out
                    /\ Token(text, i) = CommaBreak
<1> DEFINE out == CommentedOut(text)
           none == i \in out \/ (text[i] = Break /\ text[i - 1] \in LineEnds)
           ends == text[i] = Break /\ text[i - 1] = Comma /\ i - 1 \in out
<1>1. AsRead(text, out, i) = IF none THEN <<>> ELSE IF ends THEN <<CommaBreak>> ELSE <<text[i]>>
  BY DEF AsRead
<1>2. \A x : <<x>> # <<>> /\ <<x>>[1] = x
  OBVIOUS
<1> HIDE DEF none, ends, out
<1>3. CASE none
  BY <1>1, <1>3 DEF IsRead, none, out
<1>4. CASE ~ none /\ ends
  BY <1>1, <1>2, <1>4 DEF IsRead, Token, none, out, ends
<1>5. CASE ~ none /\ ~ ends
  BY <1>1, <1>2, <1>5 DEF IsRead, Token, none, out
<1>6. QED
  BY <1>3, <1>4, <1>5

LEMMA LexedLaid ==
  ASSUME NEW text, text \in Seq(Range(text))
  PROVE  \E at : ReadAt(text, Lexed(text), at)
<1> DEFINE n == Len(text)
           T == Range(text) \cup {CommaBreak}
           piece(i) == AsRead(text, CommentedOut(text), i)
           pieces == [i \in 1..n |-> piece(i)]
           R == Joined(pieces)
<1>1. n \in Nat /\ DOMAIN text = 1..n /\ \A i \in 1..n : text[i] \in T
  BY RangeOfSeq
<1>2. Lexed(text) = R
  BY <1>1 DEF Lexed
<1>3. ASSUME NEW i \in 1..n
      PROVE  /\ piece(i) \in Seq(T)
             /\ IsRead(text, i) => piece(i) = <<Token(text, i)>> /\ Len(piece(i)) = 1
             /\ ~ IsRead(text, i) => Len(piece(i)) = 0
  <2>1. CASE IsRead(text, i)
    <3>1. piece(i) = <<Token(text, i)>> /\ Token(text, i) \in T
      BY <1>1, <2>1, TokenRead
    <3> HIDE DEF piece, T
    <3>2. QED
      BY <2>1, <3>1
  <2>2. CASE ~ IsRead(text, i)
    <3>1. piece(i) = <<>>
      BY <2>2, TokenRead
    <3> HIDE DEF piece, T
    <3>2. QED
      BY <2>2, <3>1
  <2>3. QED
    BY <2>1, <2>2
<1> HIDE DEF n, T, piece
<1>4. pieces \in Seq(Seq(T)) /\ Len(pieces) = n /\ \A i \in 1..n : pieces[i] = piece(i)
  BY <1>1, <1>3
<1> HIDE DEF pieces
<1>5. PICK at : R \in Seq(T) /\ Laid(pieces, R, at)
  BY <1>4, JoinedLaid
<1>6. R \in Seq(Range(R)) /\ Len(R) \in Nat
  BY <1>5, SeqOfOwnRange
<1> HIDE DEF R
<1>7. /\ at \in [1..(n + 1) -> Nat] /\ at[1] = 0 /\ Len(R) = at[n + 1]
      /\ \A i \in 1..n : at[i + 1] = at[i] + Len(piece(i))
      /\ \A i, j \in 1..(n + 1) : i <= j => at[i] <= at[j]
      /\ \A i \in 1..n : \A k \in 1..Len(piece(i)) : R[at[i] + k] = piece(i)[k]
      /\ \A q \in 1..Len(R) : \E i \in 1..n : at[i] < q /\ q <= at[i + 1]
  BY <1>4, <1>5 DEF Laid
<1>8. ASSUME NEW i \in 1..n
      PROVE  /\ at[i] \in Nat /\ at[i + 1] \in Nat /\ at[i] <= at[i + 1] /\ at[i + 1] <= Len(R)
             /\ IsRead(text, i) => at[i + 1] = at[i] + 1 /\ R[at[i] + 1] = Token(text, i)
             /\ ~ IsRead(text, i) => at[i + 1] = at[i]
  <2>1. i \in 1..(n + 1) /\ i + 1 \in 1..(n + 1) /\ n + 1 \in 1..(n + 1) /\ i + 1 <= n + 1
    BY <1>1
  <2>2. at[i] \in Nat /\ at[i + 1] \in Nat /\ at[i] <= at[i + 1] /\ at[i + 1] <= Len(R)
    BY <1>7, <2>1
  <2>3. at[i + 1] = at[i] + Len(piece(i)) /\ \A k \in 1..Len(piece(i)) : R[at[i] + k] = piece(i)[k]
    BY <1>7
  <2>4. CASE IsRead(text, i)
    <3>1. piece(i) = <<Token(text, i)>> /\ Len(piece(i)) = 1 /\ 1 \in 1..1
      BY <1>3, <2>4
    <3>2. piece(i)[1] = Token(text, i)
      BY <3>1
    <3>3. QED
      BY <2>2, <2>3, <2>4, <3>1, <3>2
  <2>5. CASE ~ IsRead(text, i)
    <3>1. Len(piece(i)) = 0
      BY <1>3, <2>5
    <3>2. QED
      BY <2>2, <2>3, <2>5, <3>1
  <2>6. QED
    BY <2>4, <2>5
<1>9. \A i, j \in 1..n : i < j => at[i + 1] <= at[j]
  BY <1>1, <1>7
<1>10. ASSUME NEW q \in 1..Len(R)
       PROVE  \E i \in 1..n : IsRead(text, i) /\ q = at[i] + 1
  <2>1. PICK i \in 1..n : at[i] < q /\ q <= at[i + 1]
    BY <1>7
  <2>2. at[i] \in Nat /\ at[i + 1] \in Nat
    BY <1>8
  <2>3. IsRead(text, i)
    BY <1>6, <1>8, <2>1, <2>2
  <2>4. at[i + 1] = at[i] + 1
    BY <1>8, <2>3
  <2>5. q = at[i] + 1
    BY <1>6, <2>1, <2>2, <2>4
  <2>6. QED
    BY <2>3, <2>5
<1>11. ReadAt(text, R, at)
  BY <1>6, <1>7, <1>8, <1>9, <1>10 DEF ReadAt, n
<1>12. QED
  BY <1>2, <1>11

LEMMA LeastExists ==
  ASSUME NEW S \in SUBSET Nat, S # {}
  PROVE  Min(S) \in S /\ \A x \in S : Min(S) <= x
<1>1. PICK n \in S : \A m \in S : ~(<<m, n>> \in OpToRel(<, Nat))
  BY WFMin, NatLessThanWellFounded
<1>2. \A m \in S : n <= m
  <2>1. \A m \in S : ~(m < n)
    BY <1>1 DEF OpToRel
  <2>2. QED
    BY <2>1
<1>3. QED
  BY <1>2 DEF Min

LEMMA LexedSound ==
  ASSUME NEW text, Framed(text), Apart(text), CommentsEnd(text), Parses(Lexed(text))
  PROVE  LET R == Lexed(text) IN
         /\ Framed(R) /\ Apart(R) /\ Lined(R)
         /\ \A q \in ElementAt(R) : \E i \in ElementAt(text) : R[q] = text[i]
<1> DEFINE R == Lexed(text)
           n == Len(text)
           out == CommentedOut(text)
           Off(c, i) == text[c] = Slashes /\ \A k \in (c + 1)..i : text[k] \notin LineEnds
<1>1. /\ text \in Seq(Range(text)) /\ n \in Nat /\ n > 1 /\ text[1] = Open /\ text[n] = Close
      /\ \A i \in 2..(n - 1) : text[i] \notin {Open, Close}
  BY DEF Framed
<1>2. PICK at : ReadAt(text, R, at)
  BY <1>1, LexedLaid
<1>3. R[Len(R)] = Close
  BY DEF Parses
<1> HIDE DEF R, n
<1>4. /\ R \in Seq(Range(R)) /\ Len(R) \in Nat /\ at[1] = 0
      /\ \A i \in 1..n :
           /\ at[i] \in Nat /\ at[i + 1] \in Nat /\ at[i] <= at[i + 1] /\ at[i + 1] <= Len(R)
           /\ IsRead(text, i) => at[i + 1] = at[i] + 1 /\ R[at[i] + 1] = Token(text, i)
      /\ \A i, j \in 1..n : i < j => at[i + 1] <= at[j]
      /\ \A q \in 1..Len(R) : \E i \in 1..n : IsRead(text, i) /\ q = at[i] + 1
  BY <1>2 DEF ReadAt, n
<1>5. out \subseteq 1..n /\ \A i \in 1..n : i \in out <=> \E c \in 1..(i - 1) : Off(c, i)
  BY DEF CommentedOut, n
<1>6. \A i \in 1..n :
        /\ IsRead(text, i) <=> ~ (i \in out \/ (text[i] = Break /\ text[i - 1] \in LineEnds))
        /\ IsRead(text, i) =>
             \/ Token(text, i) = text[i]
             \/ text[i] = Break /\ text[i - 1] = Comma /\ i - 1 \in out /\ Token(text, i) = CommaBreak
  BY TokenRead DEF n
<1> HIDE DEF out
<1>7. \A i, j \in 1..n : IsRead(text, i) /\ i < j => at[i] + 1 <= at[j]
  BY <1>4
<1>8. 1 \in 1..n /\ n \in 1..n
  BY <1>1
<1>9. \A i \in 1..n : text[i] = Open => i = 1
  <2>1. \A i \in 1..n : i = 1 \/ i = n \/ i \in 2..(n - 1)
    BY <1>1
  <2>2. QED
    BY <1>1, <2>1, TokensApart
<1>10. \A i \in 1..n : text[i] = Close => i = n
  <2>1. \A i \in 1..n : i = 1 \/ i = n \/ i \in 2..(n - 1)
    BY <1>1
  <2>2. QED
    BY <1>1, <2>1, TokensApart
<1>11. \A i \in 1..n : IsRead(text, i) =>
         /\ Token(text, i) = Open => i = 1
         /\ Token(text, i) = Close => i = n
  <2>1. CommaBreak # Open /\ CommaBreak # Close
    BY TokensApart DEF LineEnds
  <2>2. QED
    BY <1>6, <1>9, <1>10, <2>1
\* Both brackets are read.
<1>12. IsRead(text, 1) /\ R[1] = Open /\ Len(R) >= 1
  <2>1. 1 \notin out
    BY <1>5, <1>8
  <2>2. text[1] # Break
    BY <1>1, TokensApart DEF LineEnds
  <2>3. IsRead(text, 1) /\ Token(text, 1) = Open
    BY <1>1, <1>6, <1>8, <2>1, <2>2
  <2>4. at[1 + 1] = 1 /\ at[1 + 1] <= Len(R) /\ R[at[1] + 1] = Open
    BY <1>4, <1>8, <2>3
  <2>5. QED
    BY <1>4, <2>3, <2>4
<1>13. IsRead(text, n) /\ Len(R) = at[n] + 1 /\ n \notin out
  <2>1. PICK i \in 1..n : IsRead(text, i) /\ Len(R) = at[i] + 1
    BY <1>4, <1>12
  <2>2. Token(text, i) = Close
    BY <1>3, <1>4, <2>1
  <2>3. i = n
    BY <1>11, <2>1, <2>2
  <2>4. QED
    BY <1>6, <2>1, <2>3
<1>14. Framed(R)
  <2>1. Len(R) > 1
    <3>1. Len(R) # 1
      BY <1>3, <1>12, TokensApart
    <3>2. Len(R) \in Nat /\ Len(R) >= 1
      BY <1>4, <1>12
    <3>3. \A m \in Nat : m >= 1 /\ m # 1 => m > 1
      OBVIOUS
    <3>4. QED
      BY <3>1, <3>2, <3>3
  <2>2. ASSUME NEW q \in 2..(Len(R) - 1), R[q] \in {Open, Close}
        PROVE  FALSE
    <3>1. q \in 1..Len(R) /\ q # 1 /\ q # Len(R)
      BY <1>4
    <3>2. PICK i \in 1..n : IsRead(text, i) /\ q = at[i] + 1
      BY <1>4, <3>1
    <3>3. Token(text, i) \in {Open, Close}
      BY <1>4, <2>2, <3>2
    <3>4. i = 1 \/ i = n
      BY <1>11, <3>2, <3>3
    <3>5. QED
      BY <1>4, <1>13, <3>1, <3>2, <3>4
  <2>3. QED
    BY <1>3, <1>4, <1>12, <2>1, <2>2 DEF Framed
<1>15. ASSUME NEW q \in ElementAt(R)
       PROVE  \E i \in ElementAt(text) : IsRead(text, i) /\ q = at[i] + 1 /\ R[q] = text[i]
  <2>1. q \in 1..Len(R) /\ R[q] \notin Punctuation
    BY DEF ElementAt
  <2>2. PICK i \in 1..n : IsRead(text, i) /\ q = at[i] + 1
    BY <1>4, <2>1
  <2>3. Token(text, i) = R[q] /\ R[q] # CommaBreak
    BY <1>4, <2>1, <2>2, TokensApart
  <2>4. R[q] = text[i]
    BY <1>6, <2>2, <2>3
  <2>5. QED
    BY <2>1, <2>2, <2>4 DEF ElementAt, n
\* A comma that is commented out, between two elements that are read: the first
\* comment between them without a line end has another before it.
<1>16. ASSUME NEW i \in ElementAt(text), NEW j \in ElementAt(text), i < j, IsRead(text, i), IsRead(text, j)
       PROVE  \E c \in i..j : text[c] = Comma /\ c \notin out
  <2>1. i \in 1..n /\ j \in 1..n /\ i \in Nat /\ j \in Nat
    BY DEF ElementAt, n
  <2>2. text[i] # Slashes /\ text[i] # Comma /\ text[j] # Comma /\ text[j] # Slashes
    BY TokensApart DEF ElementAt
  <2>3. i \notin out
    BY <1>6, <1>16, <2>1
  <2> DEFINE Open1(u) == text[u] = Slashes /\ text[u + 1] \notin LineEnds
             U == {u \in i..j : Open1(u)}
  <2>4. ASSUME NEW c \in i..j, text[c] = Comma, c \in out
        PROVE  \E u \in U : u < c
    <3>1. c \in 1..n
      BY <1>1, <2>1
    <3>2. PICK u \in 1..(c - 1) : Off(u, c)
      BY <1>5, <2>4, <3>1
    <3>3. u \in Nat /\ c \in Nat /\ u < c /\ i <= c /\ c <= j
      BY <2>1
    <3>4. u + 1 \in (u + 1)..c
      BY <3>3
    <3>5. i <= u
      <4>1. SUFFICES ASSUME u < i PROVE FALSE
        BY <2>1, <3>3
      <4>2. \A k \in (u + 1)..i : k \in (u + 1)..c
        BY <2>1, <3>3
      <4>3. u \in 1..(i - 1) /\ Off(u, i)
        BY <2>1, <3>2, <3>3, <4>1, <4>2
      <4>4. QED
        BY <1>5, <2>1, <2>3, <4>3
    <3>6. u \in i..j /\ Open1(u)
      BY <2>1, <3>2, <3>3, <3>4, <3>5
    <3>7. QED
      BY <3>3, <3>6
  <2>5. CASE U = {}
    <3>1. PICK c \in i..j : text[c] = Comma
      BY <1>16 DEF Apart
    <3>2. QED
      BY <2>4, <2>5, <3>1
  <2>6. CASE U # {}
    <3> DEFINE u == Min(U)
    <3>1. U \in SUBSET Nat
      BY <2>1
    <3>2. u \in U /\ \A v \in U : u <= v
      <4> HIDE DEF U
      <4>1. QED
        BY <2>6, <3>1, LeastExists
    <3>3. u \in i..j /\ Open1(u)
      BY <3>2
    <3> HIDE DEF u
    <3>4. PICK c \in i..u : text[c] = Comma
      BY <3>3 DEF CommentsEnd
    <3>5. c \in i..j /\ c # u /\ c < u /\ u \in Nat /\ c \in Nat
      BY <2>1, <3>3, <3>4, TokensApart
    <3>6. c \notin out
      <4>1. SUFFICES ASSUME c \in out PROVE FALSE
        OBVIOUS
      <4>2. PICK v \in U : v < c
        BY <2>4, <3>4, <3>5, <4>1
      <4>3. u <= v /\ v \in Nat
        BY <3>1, <3>2
      <4>4. QED
        BY <3>5, <4>2, <4>3
    <3>7. QED
      BY <3>4, <3>5, <3>6
  <2>7. QED
    BY <2>5, <2>6
<1>17. Apart(R)
  <2>1. ASSUME NEW a \in ElementAt(R), NEW b \in ElementAt(R), a < b
        PROVE  \E c \in a..b : R[c] = Comma
    <3>1. PICK i \in ElementAt(text) : IsRead(text, i) /\ a = at[i] + 1
      BY <1>15
    <3>2. PICK j \in ElementAt(text) : IsRead(text, j) /\ b = at[j] + 1
      BY <1>15
    <3>3. i \in 1..n /\ j \in 1..n /\ i \in Nat /\ j \in Nat /\ at[i] \in Nat /\ at[j] \in Nat
      BY <1>4 DEF ElementAt, n
    <3>4. i < j
      <4>1. CASE j < i
        <5>1. at[j] + 1 <= at[i]
          BY <1>7, <3>2, <3>3, <4>1
        <5>2. QED
          BY <2>1, <3>1, <3>2, <3>3, <5>1
      <4>2. CASE i = j
        BY <2>1, <3>1, <3>2, <3>3, <4>2
      <4>3. QED
        BY <3>3, <4>1, <4>2
    <3>5. PICK c \in i..j : text[c] = Comma /\ c \notin out
      BY <1>16, <3>1, <3>2, <3>4
    <3>6. c \in 1..n /\ c # i /\ c # j /\ i < c /\ c < j
      <4>1. text[i] # Comma /\ text[j] # Comma
        BY TokensApart DEF ElementAt
      <4>2. c # i /\ c # j
        BY <3>5, <4>1
      <4>3. QED
        BY <1>1, <3>3, <4>2
    <3>7. IsRead(text, c) /\ Token(text, c) = Comma
      BY <1>6, <3>5, <3>6, TokensApart DEF LineEnds
    <3>8. at[i] + 1 <= at[c] /\ at[c] + 1 <= at[j] /\ at[c] \in Nat /\ R[at[c] + 1] = Comma
      BY <1>4, <1>7, <3>1, <3>3, <3>6, <3>7
    <3>9. at[c] + 1 \in a..b
      BY <3>1, <3>2, <3>3, <3>8
    <3>10. QED
      BY <3>8, <3>9
  <2>2. QED
    BY <2>1 DEF Apart
\* Between a comment and the next line end nothing is read.
<1>18. ASSUME NEW u \in 1..n, NEW l \in 1..n, u < l, IsRead(text, u), IsRead(text, l),
              text[u] = Slashes, \A k \in (u + 1)..(l - 1) : text[k] \notin LineEnds
       PROVE  at[l] = at[u] + 1
  <2>1. u \in Nat /\ l \in Nat /\ at[u] \in Nat /\ at[l] \in Nat /\ at[u] + 1 <= at[l] /\ at[l] + 1 <= Len(R)
    BY <1>4, <1>7, <1>18
  <2>2. ASSUME at[u] + 1 < at[l]
        PROVE  FALSE
    <3>1. at[l] \in 1..Len(R)
      BY <1>4, <2>1
    <3>2. PICK k \in 1..n : IsRead(text, k) /\ at[l] = at[k] + 1
      BY <1>4, <3>1
    <3>3. k \in Nat /\ at[k] \in Nat
      BY <1>4
    <3>4. k < l
      <4>1. CASE l < k
        <5>1. at[l] + 1 <= at[k]
          BY <1>7, <1>18, <4>1
        <5>2. QED
          BY <2>1, <3>2, <3>3, <5>1
      <4>2. CASE l = k
        BY <2>1, <3>2, <3>3, <4>2
      <4>3. QED
        BY <2>1, <3>3, <4>1, <4>2
    <3>5. u < k
      <4>1. CASE k < u
        <5>1. at[k] + 1 <= at[u]
          BY <1>7, <3>2, <4>1
        <5>2. QED
          BY <2>1, <2>2, <3>2, <3>3, <5>1
      <4>2. CASE u = k
        BY <2>1, <2>2, <3>2, <3>3, <4>2
      <4>3. QED
        BY <2>1, <3>3, <4>1, <4>2
    <3>6. u \in 1..(k - 1) /\ Off(u, k)
      <4>1. \A m \in (u + 1)..k : m \in (u + 1)..(l - 1)
        BY <2>1, <3>3, <3>4
      <4>2. u \in 1..(k - 1)
        BY <2>1, <3>3, <3>5
      <4>3. \A m \in (u + 1)..k : text[m] \notin LineEnds
        BY <1>18, <4>1
      <4>4. QED
        BY <1>18, <4>2, <4>3
    <3>7. k \in out
      BY <1>5, <3>6
    <3>8. QED
      BY <1>6, <3>2, <3>7
  <2>3. QED
    BY <2>1, <2>2
<1>19. \A l \in 1..n : text[l] \in LineEnds => l \notin out
  <2>1. ASSUME NEW l \in 1..n, text[l] \in LineEnds, l \in out
        PROVE  FALSE
    <3>1. PICK c \in 1..(l - 1) : Off(c, l)
      BY <1>5, <2>1
    <3>2. l \in (c + 1)..l
      OBVIOUS
    <3>3. QED
      BY <2>1, <3>1, <3>2
  <2>2. QED
    BY <2>1
<1>20. ASSUME NEW q \in 1..Len(R), R[q] = Slashes
       PROVE  R[q + 1] \in LineEnds
  <2>1. PICK u \in 1..n : IsRead(text, u) /\ q = at[u] + 1
    BY <1>4
  <2>2. Token(text, u) = Slashes /\ text[u] = Slashes
    <3>1. Token(text, u) = Slashes
      BY <1>4, <1>20, <2>1
    <3>2. CommaBreak # Slashes
      BY TokensApart DEF LineEnds
    <3>3. QED
      BY <1>6, <2>1, <3>1, <3>2
  <2> DEFINE L == {l \in (u + 1)..n : text[l] \in LineEnds}
             l == Min(L)
  <2>3. u \in Nat /\ u < n
    BY <1>1, <2>2, TokensApart
  <2>4. L # {}
    <3>1. SUFFICES ASSUME L = {} PROVE FALSE
      OBVIOUS
    <3>2. u \in 1..(n - 1) /\ Off(u, n)
      BY <1>1, <2>2, <2>3, <3>1
    <3>3. QED
      BY <1>5, <1>8, <1>13, <3>2
  <2>5. L \in SUBSET Nat
    BY <1>1, <2>3
  <2>6. l \in L /\ \A m \in L : l <= m
    <3> HIDE DEF L
    <3>1. QED
      BY <2>4, <2>5, LeastExists
  <2>7. l \in (u + 1)..n /\ text[l] \in LineEnds /\ l \in Nat
    BY <2>5, <2>6
  <2>8. \A k \in (u + 1)..(l - 1) : text[k] \notin LineEnds
    <3>1. ASSUME NEW k \in (u + 1)..(l - 1), text[k] \in LineEnds
          PROVE  FALSE
      <4>1. k \in L /\ k < l
        <5> HIDE DEF l
        <5>1. QED
          BY <1>1, <2>3, <2>7, <3>1
      <4>2. l <= k /\ k \in Nat
        BY <2>5, <2>6, <4>1
      <4> HIDE DEF l
      <4>3. QED
        BY <2>7, <4>1, <4>2
    <3>2. QED
      BY <3>1
  <2> HIDE DEF l, L
  <2>9. l \in 1..n /\ u < l
    BY <1>1, <2>3, <2>7
  <2>10. text[l - 1] \notin LineEnds
    <3>1. l - 1 = u \/ l - 1 \in (u + 1)..(l - 1)
      BY <2>3, <2>7, <2>9
    <3>2. QED
      BY <2>2, <2>8, <3>1, TokensApart
  <2>11. IsRead(text, l) /\ Token(text, l) \in LineEnds
    BY <1>6, <1>19, <2>7, <2>9, <2>10 DEF LineEnds
  <2>12. at[l] = at[u] + 1
    BY <1>18, <2>1, <2>2, <2>8, <2>9, <2>11
  <2>13. R[at[l] + 1] \in LineEnds
    BY <1>4, <2>9, <2>11
  <2>14. QED
    BY <2>1, <2>12, <2>13
<1>21. ASSUME NEW q \in 1..Len(R), R[q] = CommaBreak
       PROVE  R[q - 1] = Slashes
  <2>1. PICK l \in 1..n : IsRead(text, l) /\ q = at[l] + 1
    BY <1>4
  <2>2. Token(text, l) = CommaBreak
    BY <1>4, <1>21, <2>1
  <2> DEFINE U == {u \in 1..(l - 1) : Off(u, l - 1)}
             u == Min(U)
  <2>3. U # {}
    <3>1. CASE text[l] = CommaBreak
      <4>1. text[l - 1] = Slashes
        BY <3>1 DEF CommentsEnd, n
      <4>2. l # 1
        BY <1>1, <3>1, TokensApart DEF LineEnds
      <4>3. l - 1 \in U
        BY <1>1, <4>1, <4>2
      <4>4. QED
        BY <4>3
    <3>2. CASE text[l] = Break /\ text[l - 1] = Comma /\ l - 1 \in out
      <4>1. l - 1 \in 1..n
        BY <1>5, <3>2
      <4>2. PICK c \in 1..((l - 1) - 1) : Off(c, l - 1)
        BY <1>5, <3>2, <4>1
      <4>3. c \in U
        BY <1>1, <4>1, <4>2
      <4>4. QED
        BY <4>3
    <3>3. QED
      BY <1>6, <2>1, <2>2, <3>1, <3>2
  <2>4. U \in SUBSET Nat
    OBVIOUS
  <2>5. u \in U /\ \A v \in U : u <= v
    <3> HIDE DEF U
    <3>1. QED
      BY <2>3, <2>4, LeastExists
  <2>6. u \in 1..(l - 1) /\ Off(u, l - 1) /\ u \in Nat
    BY <2>5
  <2>7. \A v \in 1..(l - 1) : Off(v, l - 1) => u <= v
    BY <2>5
  <2> HIDE DEF u, U
  <2>8. u \in 1..n /\ u < l
    BY <1>1, <2>6
  <2>9. u \notin out
    <3>1. SUFFICES ASSUME u \in out PROVE FALSE
      OBVIOUS
    <3>2. PICK c \in 1..(u - 1) : Off(c, u)
      BY <1>5, <2>8, <3>1
    <3>3. c \in 1..(l - 1) /\ c < u
      BY <2>6, <2>8
    <3>4. \A k \in (c + 1)..(l - 1) : k \in (c + 1)..u \/ k \in (u + 1)..(l - 1)
      BY <2>6, <3>3
    <3>5. Off(c, l - 1)
      BY <2>6, <3>2, <3>4
    <3>6. u <= c
      BY <2>7, <3>3, <3>5
    <3>7. QED
      BY <2>6, <3>3, <3>6
  <2>10. IsRead(text, u) /\ Token(text, u) = Slashes
    BY <1>6, <2>6, <2>8, <2>9, TokensApart DEF LineEnds
  <2>11. at[l] = at[u] + 1
    BY <1>18, <2>1, <2>6, <2>8, <2>10
  <2>12. R[at[u] + 1] = Slashes /\ at[u] \in Nat
    BY <1>4, <2>8, <2>10
  <2>13. QED
    BY <2>1, <2>11, <2>12
<1>22. Lined(R)
  BY <1>20, <1>21 DEF Lined
<1>23. \A q \in ElementAt(R) : \E i \in ElementAt(text) : R[q] = text[i]
  BY <1>15
<1>24. QED
  BY <1>14, <1>17, <1>22, <1>23 DEF R

(***************************************************************************)
(* The deletions of runs.                                                  *)
(***************************************************************************)
LEMMA GreatestExists ==
  ASSUME NEW S \in SUBSET Nat, S # {}, NEW b \in Nat, \A x \in S : x <= b
  PROVE  Max(S) \in S /\ \A x \in S : x <= Max(S)
<1> DEFINE D == {b - x : x \in S}
<1>1. D \in SUBSET Nat /\ D # {}
  <2>1. \A x \in S : b - x \in Nat
    OBVIOUS
  <2>2. QED
    BY <2>1
<1>2. PICK n \in D : \A m \in D : ~(<<m, n>> \in OpToRel(<, Nat))
  BY <1>1, WFMin, NatLessThanWellFounded
<1>3. \A m \in D : ~(m < n)
  <2> HIDE DEF D
  <2>1. QED
    BY <1>1, <1>2 DEF OpToRel
<1>4. PICK y \in S : n = b - y
  OBVIOUS
<1>5. \A x \in S : y >= x
  <2>1. ASSUME NEW x \in S
        PROVE  y >= x
    <3>1. ~(b - x < b - y)
      BY <1>3, <1>4
    <3>2. x \in Nat /\ y \in Nat
      OBVIOUS
    <3>3. QED
      BY <3>1, <3>2
  <2>2. QED
    BY <2>1
<1>6. QED
  BY <1>5 DEF Max

LEMMA ElementWithin ==
  ASSUME NEW text, Framed(text), NEW i \in ElementAt(text)
  PROVE  i \in 2..(Len(text) - 1) /\ Len(text) \in Nat
<1>1. /\ Len(text) \in Nat /\ Len(text) > 1 /\ text[1] = Open /\ text[Len(text)] = Close
  BY RangeOfSeq DEF Framed
<1>2. i \in 1..Len(text) /\ text[i] \notin Punctuation
  BY DEF ElementAt
<1>3. QED
  BY <1>1, <1>2 DEF Punctuation

\* What RunEnd finds: a run of doomed elements.
LEMMA RunEnds ==
  ASSUME NEW text, Framed(text), NEW doomed \in SUBSET ElementAt(text), NEW i \in doomed
  PROVE  /\ RunEnd(text, doomed, i) \in doomed /\ i <= RunEnd(text, doomed, i)
         /\ \A k \in ElementAt(text) : i <= k /\ k <= RunEnd(text, doomed, i) => k \in doomed
         /\ \A j \in doomed :
              j >= i /\ (\A k \in ElementAt(text) : i <= k /\ k <= j => k \in doomed)
                => j <= RunEnd(text, doomed, i)
<1> DEFINE S == {j \in doomed : j >= i /\ \A k \in ElementAt(text) : i <= k /\ k <= j => k \in doomed}
<1>1. Len(text) \in Nat /\ \A j \in ElementAt(text) : j \in Nat /\ j <= Len(text)
  BY ElementWithin
<1>2. S \in SUBSET Nat /\ (\A j \in S : j <= Len(text))
  BY <1>1
<1>3. i \in S
  BY <1>1
<1>4. Max(S) \in S /\ \A j \in S : j <= Max(S)
  <2> HIDE DEF S
  <2>1. QED
    BY <1>1, <1>2, <1>3, GreatestExists
<1>5. RunEnd(text, doomed, i) = Max(S)
  BY DEF RunEnd
<1>6. QED
  BY <1>4, <1>5

\* Every doomed element lies in a run that begins somewhere.
LEMMA InARun ==
  ASSUME NEW text, Framed(text), NEW doomed \in SUBSET ElementAt(text), NEW i \in doomed
  PROVE  \E s \in RunStarts(text, doomed) : s <= i /\ i <= RunEnd(text, doomed, s)
<1> DEFINE S == {j \in doomed : j <= i /\ \A k \in ElementAt(text) : j <= k /\ k <= i => k \in doomed}
           s == Min(S)
           before == {k \in ElementAt(text) : k < s}
<1>1. Len(text) \in Nat /\ \A j \in ElementAt(text) : j \in Nat /\ j <= Len(text)
  BY ElementWithin
<1>2. S \in SUBSET Nat /\ i \in S
  BY <1>1
<1>3. s \in S /\ \A x \in S : s <= x
  <2> HIDE DEF S
  <2>1. QED
    BY <1>2, LeastExists
<1>4. s \in doomed /\ s <= i /\ s \in Nat /\ (\A k \in ElementAt(text) : s <= k /\ k <= i => k \in doomed)
  BY <1>1, <1>3
<1> HIDE DEF s
<1>5. ASSUME before # {}
      PROVE  Max(before) \notin doomed
  <2>1. before \in SUBSET Nat /\ \A x \in before : x <= Len(text)
    BY <1>1
  <2>2. Max(before) \in before /\ \A x \in before : x <= Max(before)
    <3> HIDE DEF before
    <3>1. QED
      BY <1>1, <1>5, <2>1, GreatestExists
  <2>3. ASSUME Max(before) \in doomed
        PROVE  FALSE
    <3>1. Max(before) \in Nat /\ Max(before) < s
      BY <2>1, <2>2
    <3> DEFINE m == Max(before)
    <3>2. \A k \in ElementAt(text) : m <= k /\ k <= i => k = m \/ s <= k
      <4>1. ASSUME NEW k \in ElementAt(text), m <= k, ~(s <= k)
            PROVE  k = m
        <5>1. k \in Nat /\ k < s /\ k \in before
          BY <1>1, <1>4, <4>1
        <5>2. k <= m
          BY <2>2, <5>1
        <5>3. QED
          BY <3>1, <4>1, <5>1, <5>2
      <4>2. QED
        BY <4>1
    <3>3. m \in S
      BY <1>1, <1>4, <2>3, <3>1, <3>2
    <3>4. QED
      BY <1>3, <1>4, <3>1, <3>3
  <2>4. QED
    BY <2>3
<1>6. s \in RunStarts(text, doomed)
  BY <1>4, <1>5 DEF RunStarts
<1>7. i <= RunEnd(text, doomed, s)
  BY <1>1, <1>4, RunEnds
<1>8. QED
  BY <1>4, <1>6, <1>7

\* What a deletion takes with a run: line ends up to a comma behind it; or else those
\* up to a comma before it, or to the end of a comment that ends in one.
DeletionShape(text, s, e, d) ==
  /\ d.from \in Nat /\ d.to \in Nat /\ d.with = <<>>
  /\ 1 <= d.from /\ d.from < s /\ e <= d.to /\ d.to < Len(text)
  /\ \A k \in (d.from + 1)..(s - 1) : text[k] \in {Comma} \cup LineEnds
  /\ \A k \in (d.from + 2)..(s - 1) : text[k] = Break
  /\ s - 1 > d.from => text[d.from + 1] \in {Comma, CommaBreak}
  /\ \A k \in (e + 1)..d.to : text[k] \in {Comma, Break}
  /\ d.to = e \/ text[d.to] = Comma
  /\ d.from = s - 1 \/ d.to = e
  /\ CommaAfter(text, e) # {} => d.from = s - 1
  /\ CommaAfter(text, e) = {} => d.to = e
  /\ s - 1 > d.from => d.from + 1 \in CommaBefore(text, s)

LEMMA DeletionSpans ==
  ASSUME NEW text, Framed(text), NEW s \in ElementAt(text), NEW e \in ElementAt(text), s <= e
  PROVE  DeletionShape(text, s, e, Deletion(text, s, e))
<1>1. s \in 2..(Len(text) - 1) /\ e \in 2..(Len(text) - 1) /\ Len(text) \in Nat
  BY ElementWithin
<1>2. text[1] = Open /\ text[Len(text)] = Close
  BY DEF Framed
<1> DEFINE after == CommaAfter(text, e)
           before == CommaBefore(text, s)
           n == Len(text)
<1>3. /\ after \in SUBSET Nat
      /\ \A c \in after : e < c /\ c <= n /\ text[c] = Comma /\ \A k \in (e + 1)..(c - 1) : text[k] = Break
  BY <1>1 DEF CommaAfter
<1>4. /\ before \in SUBSET Nat
      /\ \A c \in before : /\ 1 <= c /\ c < s /\ text[c] \in {Comma, CommaBreak}
                            /\ \A k \in (c + 1)..(s - 1) : text[k] = Break
  BY <1>1 DEF CommaBefore
<1> HIDE DEF n
<1>5. CASE after # {}
  <2> DEFINE m == Max(after)
  <2>1. m \in after
    <3> HIDE DEF after
    <3>1. QED
      BY <1>1, <1>3, <1>5, GreatestExists DEF n
  <2>2. Deletion(text, s, e) = [from |-> s - 1, to |-> m, with |-> <<>>]
    BY <1>5 DEF Deletion, Edit
  <2> HIDE DEF m
  <2>3. m \in Nat /\ e < m /\ m <= n /\ text[m] = Comma /\ \A k \in (e + 1)..(m - 1) : text[k] = Break
    BY <1>3, <2>1
  <2>4. m # n
    BY <1>2, <2>3 DEF Comma, Close, n
  <2> HIDE DEF after
  <2>5. \A k \in (e + 1)..m : k \in (e + 1)..(m - 1) \/ k = m
    BY <1>1, <2>3
  <2> DEFINE d == [from |-> s - 1, to |-> m, with |-> <<>>]
  <2>6. d.from = s - 1 /\ d.to = m /\ d.with = <<>>
    OBVIOUS
  <2> HIDE DEF d
  <2>7. DeletionShape(text, s, e, d)
    BY <1>1, <1>5, <2>3, <2>4, <2>5, <2>6 DEF DeletionShape, after, n
  <2>8. QED
    BY <2>2, <2>7 DEF d
<1>6. CASE after = {} /\ before # {}
  <2> DEFINE m == Min(before)
  <2>1. m \in before
    <3> HIDE DEF before
    <3>1. QED
      BY <1>4, <1>6, LeastExists
  <2>2. Deletion(text, s, e) = [from |-> m - 1, to |-> e, with |-> <<>>]
    BY <1>6 DEF Deletion, Edit
  <2> HIDE DEF m
  <2>3. m \in Nat /\ 1 <= m /\ m < s /\ text[m] \in {Comma, CommaBreak} /\ \A k \in (m + 1)..(s - 1) : text[k] = Break
    BY <1>4, <2>1
  <2>4. m # 1
    BY <1>2, <2>3, TokensApart DEF LineEnds
  <2> DEFINE d == [from |-> m - 1, to |-> e, with |-> <<>>]
  <2>5. d.from = m - 1 /\ d.to = e /\ d.with = <<>> /\ d.from + 1 = m /\ d.from + 2 = m + 1
    BY <2>3
  <2> HIDE DEF d, before, after
  <2>6. \A k \in m..(s - 1) : k = m \/ k \in (m + 1)..(s - 1)
    BY <1>1, <2>3
  <2>7. \A k \in m..(s - 1) : text[k] \in {Comma} \cup LineEnds
    BY <2>3, <2>6 DEF LineEnds
  <2>8. d.from \in Nat /\ 1 <= d.from /\ d.from < s /\ e < Len(text) /\ e \in Nat /\ s \in Nat
    BY <1>1, <2>3, <2>4, <2>5
  <2>9. DeletionShape(text, s, e, d)
    BY <1>6, <2>1, <2>3, <2>5, <2>7, <2>8 DEF DeletionShape, after, before
  <2>10. QED
    BY <2>2, <2>9 DEF d
<1>7. CASE after = {} /\ before = {}
  <2> DEFINE d == [from |-> s - 1, to |-> e, with |-> <<>>]
  <2>1. Deletion(text, s, e) = d
    BY <1>7 DEF Deletion, Edit
  <2>2. d.from = s - 1 /\ d.to = e /\ d.with = <<>>
    OBVIOUS
  <2> HIDE DEF d, before, after
  <2>3. DeletionShape(text, s, e, d)
    BY <1>1, <1>7, <2>2 DEF DeletionShape, after
  <2>4. QED
    BY <2>1, <2>3
<1>8. QED
  BY <1>5, <1>6, <1>7

\* No element but those of the run is taken with it.
LEMMA DeletionSpares ==
  ASSUME NEW text, Framed(text), NEW s \in ElementAt(text), NEW e \in ElementAt(text), s <= e,
         NEW i \in ElementAt(text), i < s \/ e < i
  PROVE  LET d == Deletion(text, s, e) IN ~ (d.from < i /\ i <= d.to)
<1> DEFINE d == Deletion(text, s, e)
<1>1. DeletionShape(text, s, e, d)
  BY DeletionSpans
<1>2. s \in Nat /\ e \in Nat /\ i \in Nat /\ text[i] \notin Punctuation
  BY ElementWithin DEF ElementAt
<1> HIDE DEF d
<1>3. text[i] \notin {Comma} \cup LineEnds /\ text[i] \notin {Comma, Break}
  BY <1>2 DEF Punctuation, Trivia, LineEnds
<1>4. /\ d.from \in Nat /\ d.to \in Nat
      /\ i \notin (d.from + 1)..(s - 1) /\ i \notin (e + 1)..d.to
  BY <1>1, <1>3 DEF DeletionShape
<1>5. QED
  BY <1>2, <1>4 DEF d

\* An edit of DeleteRuns is the deletion of a run.
LEMMA DeletesARun ==
  ASSUME NEW text, Framed(text), NEW doomed \in SUBSET ElementAt(text), NEW d \in DeleteRuns(text, doomed)
  PROVE  \E s, e \in doomed :
           /\ s \in RunStarts(text, doomed) /\ e = RunEnd(text, doomed, s) /\ s <= e
           /\ \A k \in ElementAt(text) : s <= k /\ k <= e => k \in doomed
           /\ d = Deletion(text, s, e)
<1>1. PICK s \in RunStarts(text, doomed) : d = Deletion(text, s, RunEnd(text, doomed, s))
  BY DEF DeleteRuns
<1>2. s \in doomed
  BY DEF RunStarts
<1>3. QED
  BY <1>1, <1>2, RunEnds

LEMMA RunsDeleted ==
  ASSUME NEW text, Framed(text), Apart(text), NEW doomed \in SUBSET ElementAt(text)
  PROVE  LET edits == DeleteRuns(text, doomed) IN
         /\ Within(text, edits) /\ CommasStay(text, edits)
         /\ \A d \in edits : d.with = <<>>
         /\ \A i \in doomed : ~ Kept(edits, i)
<1> DEFINE edits == DeleteRuns(text, doomed)
<1>1. Len(text) \in Nat /\ \A i \in ElementAt(text) : i \in Nat /\ 2 <= i /\ i < Len(text)
  BY ElementWithin
<1>2. \A d \in edits : \E s, e \in doomed :
           /\ s \in RunStarts(text, doomed) /\ e = RunEnd(text, doomed, s) /\ s <= e
           /\ \A k \in ElementAt(text) : s <= k /\ k <= e => k \in doomed
           /\ d = Deletion(text, s, e)
  BY DeletesARun
<1> HIDE DEF edits
<1>3. ASSUME NEW d \in edits
      PROVE  /\ d.from \in Nat /\ d.to \in Nat /\ d.with = <<>>
             /\ 1 <= d.from /\ d.from <= d.to /\ d.to < Len(text)
  <2>1. PICK s, e \in doomed : s <= e /\ d = Deletion(text, s, e)
    BY <1>2
  <2>2. s \in ElementAt(text) /\ e \in ElementAt(text)
    OBVIOUS
  <2>3. QED
    BY <1>1, <2>1, <2>2, DeletionSpans DEF DeletionShape
<1>4. ASSUME NEW i \in doomed
      PROVE  ~ Kept(edits, i)
  <2>1. PICK s \in RunStarts(text, doomed) : s <= i /\ i <= RunEnd(text, doomed, s)
    BY InARun
  <2> DEFINE e == RunEnd(text, doomed, s)
             d == Deletion(text, s, e)
  <2>2. s \in doomed /\ d \in edits
    BY DEF RunStarts, DeleteRuns, edits
  <2>3. e \in doomed /\ s <= e
    BY <2>2, RunEnds
  <2> HIDE DEF e
  <2>4. d.from < s /\ e <= d.to /\ d.from \in Nat /\ d.to \in Nat
    BY <2>2, <2>3, DeletionSpans DEF DeletionShape
  <2>5. d.from < i /\ i <= d.to
    <3> HIDE DEF d
    <3>1. QED
      BY <1>1, <2>1, <2>2, <2>3, <2>4 DEF e
  <2>6. QED
    BY <2>2, <2>5 DEF Kept
\* The gap between an element that stays and the next one that is not doomed.
<1>5. ASSUME NEW i \in ElementAt(text), NEW m \in ElementAt(text), i < m, i \notin doomed, m \notin doomed,
             \A k \in ElementAt(text) : i < k /\ k < m => k \in doomed
      PROVE  \E c \in i..m : text[c] = Comma /\ Kept(edits, c)
  <2>1. text[i] # Comma /\ text[m] # Comma
    BY DEF ElementAt, Punctuation
  <2>2. \A x, y \in ElementAt(text) : x < y => \E c \in x..y : text[c] = Comma
    BY DEF Apart
  <2>3. ASSUME NEW d \in edits, NEW c \in i..m, c # i, c # m, d.from < c, c <= d.to
        PROVE  \E s, e \in doomed :
                 /\ i < s /\ s <= e /\ e < m
                 /\ s \in RunStarts(text, doomed) /\ e = RunEnd(text, doomed, s)
                 /\ d = Deletion(text, s, e)
    <3>1. PICK s, e \in doomed :
             /\ s \in RunStarts(text, doomed) /\ e = RunEnd(text, doomed, s) /\ s <= e
             /\ \A k \in ElementAt(text) : s <= k /\ k <= e => k \in doomed
             /\ d = Deletion(text, s, e)
      BY <1>2
    <3>2. s \in Nat /\ e \in Nat /\ i \in Nat /\ m \in Nat /\ c \in Nat /\ d.from \in Nat /\ d.to \in Nat
      BY <1>1, <1>3
    <3>3. ~ (s <= i /\ i <= e) /\ ~ (s <= m /\ m <= e)
      BY <1>5, <3>1
    <3>4. /\ i < s \/ e < i => ~ (d.from < i /\ i <= d.to)
          /\ m < s \/ e < m => ~ (d.from < m /\ m <= d.to)
      BY <3>1, DeletionSpares
    <3>5. d.from < s /\ e <= d.to
      BY <3>1, DeletionSpans DEF DeletionShape
    <3>6. i < c /\ c < m
      BY <2>3, <3>2
    <3>7. i < s /\ e < m
      BY <1>5, <2>3, <3>1, <3>2, <3>3, <3>4, <3>5, <3>6
    <3>8. QED
      BY <3>1, <3>7
  <2>4. CASE \E s \in doomed : i < s /\ s < m /\ s \in RunStarts(text, doomed)
    <3>1. PICK s \in doomed : i < s /\ s < m /\ s \in RunStarts(text, doomed)
      BY <2>4
    <3> DEFINE e == RunEnd(text, doomed, s)
    \* No other run begins in the gap: what is before its first element would be doomed.
    <3>2. ASSUME NEW t \in RunStarts(text, doomed), i < t, t < m
          PROVE  \A k \in ElementAt(text) : i < k => t <= k
      <4> DEFINE before == {k \in ElementAt(text) : k < t}
      <4>1. t \in doomed /\ (before = {} \/ Max(before) \notin doomed)
        BY DEF RunStarts
      <4>2. t \in Nat /\ i \in before
        BY <1>1, <3>2, <4>1
      <4>3. before \in SUBSET Nat /\ \A x \in before : x <= Len(text)
        BY <1>1
      <4>4. Max(before) \in before /\ \A x \in before : x <= Max(before)
        <5> HIDE DEF before
        <5>1. QED
          BY <1>1, <4>2, <4>3, GreatestExists
      <4>5. Max(before) \notin doomed
        BY <4>1, <4>2
      <4>6. ASSUME NEW k \in ElementAt(text), i < k, ~ (t <= k)
            PROVE  FALSE
        <5>1. k \in before /\ k \in Nat
          BY <1>1, <4>2, <4>6
        <5>2. k <= Max(before) /\ Max(before) < t /\ Max(before) \in Nat /\ Max(before) \in ElementAt(text)
          BY <4>3, <4>4, <5>1
        <5>3. Max(before) > i /\ Max(before) < m
          BY <1>1, <3>2, <4>2, <4>6, <5>1, <5>2
        <5>4. QED
          BY <1>5, <4>5, <5>2, <5>3
      <4>7. QED
        BY <4>6
    <3>3. ASSUME NEW t \in RunStarts(text, doomed), i < t, t < m
          PROVE  t = s
      <4>1. t \in ElementAt(text) /\ t \in Nat /\ s \in Nat
        BY <1>1 DEF RunStarts
      <4>2. t <= s /\ s <= t
        BY <3>1, <3>2, <3>3, <4>1
      <4>3. QED
        BY <4>1, <4>2
    <3>4. ASSUME NEW d \in edits, NEW c \in i..m, c # i, c # m, d.from < c, c <= d.to
          PROVE  d = Deletion(text, s, e) /\ e < m
      <4>1. PICK t, f \in doomed :
                 /\ i < t /\ t <= f /\ f < m
                 /\ t \in RunStarts(text, doomed) /\ f = RunEnd(text, doomed, t)
                 /\ d = Deletion(text, t, f)
        BY <2>3, <3>4
      <4>2. t < m
        BY <1>1, <4>1
      <4>3. t = s
        BY <3>3, <4>1, <4>2
      <4>4. QED
        BY <4>1, <4>3
    <3>5. e \in doomed /\ s <= e /\ \A k \in ElementAt(text) : s <= k /\ k <= e => k \in doomed
      BY RunEnds
    <3>6. e < m /\ e \in Nat /\ s \in Nat /\ i \in Nat /\ m \in Nat
      <4> HIDE DEF e
      <4>1. QED
        BY <1>1, <1>5, <3>1, <3>5
    <3> HIDE DEF e
    <3> DEFINE D == Deletion(text, s, e)
    <3>7. /\ D.from \in Nat /\ D.to \in Nat
          /\ CommaAfter(text, e) # {} => D.from = s - 1
          /\ CommaAfter(text, e) = {} => D.to = e
      BY <3>5, DeletionSpans DEF DeletionShape
    <3> HIDE DEF D
    <3>8. CASE CommaAfter(text, e) # {}
      <4>1. PICK c \in i..s : text[c] = Comma
        BY <2>2, <3>1
      <4>2. text[s] # Comma
        BY DEF ElementAt, Punctuation
      <4>3. c \in i..m /\ c # i /\ c # m /\ c \in Nat /\ c < s
        BY <2>1, <3>1, <3>6, <4>1, <4>2
      <4>4. \A d \in edits : ~ (d.from < c /\ c <= d.to)
        <5>1. ASSUME NEW d \in edits, d.from < c, c <= d.to
              PROVE  FALSE
          <6>1. d = D
            BY <3>4, <4>3, <5>1 DEF D
          <6>2. QED
            BY <3>6, <3>7, <3>8, <4>3, <5>1, <6>1
        <5>2. QED
          BY <5>1
      <4>5. QED
        BY <4>1, <4>3, <4>4 DEF Kept
    <3>9. CASE CommaAfter(text, e) = {}
      <4>1. PICK c \in e..m : text[c] = Comma
        BY <2>2, <3>5, <3>6
      <4>2. text[e] # Comma
        BY <3>5 DEF ElementAt, Punctuation
      <4>3. c \in i..m /\ c # i /\ c # m /\ c \in Nat /\ c > e
        BY <2>1, <3>1, <3>5, <3>6, <4>1, <4>2
      <4>4. \A d \in edits : ~ (d.from < c /\ c <= d.to)
        <5>1. ASSUME NEW d \in edits, d.from < c, c <= d.to
              PROVE  FALSE
          <6>1. d = D
            BY <3>4, <4>3, <5>1 DEF D
          <6>2. QED
            BY <3>6, <3>7, <3>9, <4>3, <5>1, <6>1
        <5>2. QED
          BY <5>1
      <4>5. QED
        BY <4>1, <4>3, <4>4 DEF Kept
    <3>10. QED
      BY <3>8, <3>9
  <2>5. CASE ~ \E s \in doomed : i < s /\ s < m /\ s \in RunStarts(text, doomed)
    <3>1. PICK c \in i..m : text[c] = Comma
      BY <1>5, <2>2
    <3>2. c # i /\ c # m
      BY <2>1, <3>1
    <3>3. ASSUME NEW d \in edits, d.from < c, c <= d.to
          PROVE  FALSE
      <4>1. PICK s, e \in doomed : i < s /\ s <= e /\ e < m /\ s \in RunStarts(text, doomed)
        BY <2>3, <3>2, <3>3
      <4>2. s < m
        BY <1>1, <4>1
      <4>3. QED
        BY <2>5, <4>1, <4>2
    <3>4. QED
      BY <3>1, <3>3 DEF Kept
  <2>6. QED
    BY <2>4, <2>5
<1>6. ASSUME NEW i \in ElementAt(text), NEW j \in ElementAt(text), i < j, Kept(edits, i), Kept(edits, j)
      PROVE  \E c \in i..j : text[c] = Comma /\ Kept(edits, c)
  <2>1. i \notin doomed /\ j \notin doomed
    BY <1>4, <1>6
  <2> DEFINE N == {k \in ElementAt(text) : i < k /\ k \notin doomed}
             m == Min(N)
  <2>2. N \in SUBSET Nat /\ j \in N
    BY <1>1, <1>6, <2>1
  <2>3. m \in N /\ \A k \in N : m <= k
    <3> HIDE DEF N
    <3>1. QED
      BY <2>2, LeastExists
  <2>4. m \in ElementAt(text) /\ i < m /\ m \notin doomed /\ m <= j
    BY <2>2, <2>3
  <2>5. \A k \in ElementAt(text) : i < k /\ k < m => k \in doomed
    <3>1. \A k \in ElementAt(text) : i < k /\ k \notin doomed => m <= k
      BY <2>3
    <3> HIDE DEF m
    <3>2. QED
      BY <1>1, <2>4, <3>1
  <2> HIDE DEF m
  <2>6. PICK c \in i..m : text[c] = Comma /\ Kept(edits, c)
    BY <1>5, <2>1, <2>4, <2>5
  <2>7. c \in i..j
    BY <1>1, <2>4
  <2>8. QED
    BY <2>6, <2>7
<1>7. QED
  BY <1>3, <1>4, <1>6 DEF Within, CommasStay, edits

\* An element that is not doomed stays.
LEMMA RunsKeepOthers ==
  ASSUME NEW text, Framed(text), NEW doomed \in SUBSET ElementAt(text), NEW i \in ElementAt(text) \ doomed
  PROVE  Kept(DeleteRuns(text, doomed), i)
<1>1. SUFFICES ASSUME NEW d \in DeleteRuns(text, doomed), d.from < i, i <= d.to
               PROVE  FALSE
  BY DEF Kept
<1>2. PICK s, e \in doomed :
           /\ s <= e
           /\ \A k \in ElementAt(text) : s <= k /\ k <= e => k \in doomed
           /\ d = Deletion(text, s, e)
  BY DeletesARun
<1>3. s \in Nat /\ e \in Nat /\ i \in Nat /\ s \in ElementAt(text) /\ e \in ElementAt(text)
  BY ElementWithin
<1>4. i < s \/ e < i
  BY <1>2, <1>3
<1>5. QED
  BY <1>1, <1>2, <1>3, <1>4, DeletionSpares

LEMMA RunsLeaveComments ==
  ASSUME NEW text, Framed(text), Apart(text), Lined(text), NEW doomed \in SUBSET ElementAt(text)
  PROVE  CommentsStay(text, DeleteRuns(text, doomed))
<1> DEFINE edits == DeleteRuns(text, doomed)
           n == Len(text)
<1>1. n \in Nat /\ text[n] = Close /\ text[1] = Open
  BY RangeOfSeq DEF Framed
<1>2. \A i \in ElementAt(text) : i \in Nat /\ 2 <= i /\ i < n /\ text[i] \notin Punctuation
  BY ElementWithin DEF ElementAt
<1>3. \A d \in edits : \E s, e \in doomed :
           /\ s \in RunStarts(text, doomed) /\ e = RunEnd(text, doomed, s) /\ s <= e
           /\ \A k \in ElementAt(text) : s <= k /\ k <= e => k \in doomed
           /\ d = Deletion(text, s, e)
  BY DeletesARun
<1>4. \A i \in 1..n : /\ text[i] = Slashes => text[i + 1] \in LineEnds
                      /\ text[i] = CommaBreak => text[i - 1] = Slashes
  BY DEF Lined, n
<1> HIDE DEF n, edits
<1>5. ASSUME NEW i \in 1..n, Kept(edits, i), text[i] = CommaBreak
      PROVE  Kept(edits, i - 1)
  <2>1. SUFFICES ASSUME NEW d \in edits, d.from < i - 1, i - 1 <= d.to
                 PROVE  FALSE
    BY DEF Kept
  <2>2. PICK s, e \in doomed : s <= e /\ d = Deletion(text, s, e)
    BY <1>3
  <2>3. d.from \in Nat /\ d.to \in Nat /\ (d.to = e \/ text[d.to] = Comma)
    BY <2>2, DeletionSpans DEF DeletionShape
  <2>4. ~ (d.from < i /\ i <= d.to)
    BY <1>5 DEF Kept
  <2>5. d.to = i - 1
    BY <1>1, <2>1, <2>3, <2>4
  <2>6. text[d.to] = Slashes
    BY <1>4, <1>5, <2>5
  <2>7. QED
    BY <1>2, <2>3, <2>6, TokensApart
\* A comment whose end goes with a run: the element before the run stays, and so
\* does the comma behind it.
<1>6. ASSUME NEW i \in 1..n, Kept(edits, i), text[i] = Slashes, ~ Kept(edits, i + 1),
             NEW k \in ElementAt(text), k < i
      PROVE  \E c \in k..i : text[c] = Comma /\ Kept(edits, c)
  <2>1. PICK d \in edits : d.from < i + 1 /\ i + 1 <= d.to
    BY <1>6 DEF Kept
  <2>2. PICK s, e \in doomed :
           /\ s \in RunStarts(text, doomed) /\ e = RunEnd(text, doomed, s) /\ s <= e
           /\ d = Deletion(text, s, e)
    BY <1>3
  <2>3. DeletionShape(text, s, e, d)
    BY <2>2, DeletionSpans
  <2>4. d.from \in Nat /\ d.to \in Nat /\ d.from < s /\ s \in Nat /\ e \in Nat /\ i \in Nat /\ k \in Nat
    BY <1>1, <1>2, <2>3 DEF DeletionShape
  <2>5. d.from = i
    <3>1. ~ (d.from < i /\ i <= d.to)
      BY <1>6 DEF Kept
    <3>2. QED
      BY <2>1, <2>4, <3>1
  <2>6. text[i + 1] \in LineEnds
    BY <1>4, <1>6
  <2>7. i + 1 # s /\ i # s
    BY <1>2, <1>6, <2>6, TokensApart DEF LineEnds
  <2>8. i < s - 1 /\ i + 1 \in (i + 1)..(s - 1)
    BY <2>4, <2>5, <2>7
  <2>9. \A c \in (i + 1)..(s - 1) : text[c] \in LineEnds
    <3>1. \A c \in (i + 1)..(s - 1) : c = i + 1 \/ c \in (d.from + 2)..(s - 1)
      BY <2>4, <2>5
    <3>2. \A c \in (d.from + 2)..(s - 1) : text[c] = Break
      BY <2>3 DEF DeletionShape
    <3>3. QED
      BY <2>6, <3>1, <3>2 DEF LineEnds
  <2> DEFINE before == {x \in ElementAt(text) : x < s}
             m == Max(before)
  <2>10. k \in before
    BY <1>6, <2>4, <2>8
  <2>11. m \in before /\ \A x \in before : x <= m
    <3>1. before \in SUBSET Nat /\ \A x \in before : x <= n
      BY <1>2, <1>1
    <3> HIDE DEF before
    <3>2. QED
      BY <1>1, <2>10, <3>1, GreatestExists
  <2>12. m \notin doomed
    BY <2>2, <2>10 DEF RunStarts
  <2>13. m \in ElementAt(text) /\ m < s /\ k <= m /\ m \in Nat
    BY <1>2, <2>10, <2>11
  <2>14. \A x \in ElementAt(text) : x < s => x <= m
    BY <2>11
  <2> HIDE DEF m, before
  <2>15. m < i
    <3>1. m # i /\ m \notin (i + 1)..(s - 1)
      BY <1>2, <1>6, <2>9, <2>13, TokensApart DEF LineEnds
    <3>2. QED
      BY <2>4, <2>13, <3>1
  <2>16. PICK c \in m..s : text[c] = Comma
    BY <2>2, <2>13 DEF Apart
  <2>17. c \in Nat /\ m < c /\ c < i
    <3>1. c # m /\ c # s /\ c # i /\ c \notin (i + 1)..(s - 1)
      BY <1>2, <1>6, <2>9, <2>13, <2>16, TokensApart
    <3>2. QED
      BY <2>4, <2>13, <3>1
  <2>18. ASSUME NEW f \in edits, f.from < c, c <= f.to
         PROVE  FALSE
    <3>1. PICK t, u \in doomed :
             /\ t \in RunStarts(text, doomed) /\ u = RunEnd(text, doomed, t) /\ t <= u
             /\ \A x \in ElementAt(text) : t <= x /\ x <= u => x \in doomed
             /\ f = Deletion(text, t, u)
      BY <1>3
    <3>2. DeletionShape(text, t, u, f)
      BY <3>1, DeletionSpans
    <3>3. t \in Nat /\ u \in Nat /\ f.from \in Nat /\ f.to \in Nat /\ f.from < t /\ u <= f.to
      BY <1>2, <3>2 DEF DeletionShape
    <3>4. t # s
      <4>1. SUFFICES ASSUME t = s PROVE FALSE
        OBVIOUS
      <4>2. f = d
        BY <2>2, <3>1, <4>1
      <4>3. QED
        BY <2>5, <2>17, <2>18, <4>2
    <3>5. ~ (t <= m /\ m <= u)
      BY <2>12, <2>13, <3>1
    <3>6. CASE u < m
      <4>1. ~ (f.from < m /\ m <= f.to)
        BY <2>13, <3>1, <3>6, DeletionSpares
      <4>2. QED
        BY <2>13, <2>17, <2>18, <3>1, <3>3, <3>6, <4>1
    <3>7. CASE m < t
      <4>1. s < t
        <5>1. ~ (t < s)
          <6>1. t \in ElementAt(text)
            BY <3>1
          <6>2. t < s => t <= m
            BY <2>14, <6>1
          <6>3. QED
            BY <2>4, <2>13, <3>3, <3>7, <6>2
        <5>2. QED
          BY <2>4, <3>3, <3>4, <5>1
      <4>2. ~ (f.from < s /\ s <= f.to)
        BY <2>2, <3>1, <4>1, DeletionSpares
      <4>3. QED
        BY <2>4, <2>17, <2>18, <2>8, <3>1, <3>3, <4>1, <4>2
    <3>8. QED
      BY <2>13, <3>1, <3>3, <3>5, <3>6, <3>7
  <2>19. Kept(edits, c)
    BY <2>18 DEF Kept
  <2>20. c \in k..i
    BY <2>4, <2>13, <2>17
  <2>21. QED
    BY <2>16, <2>19, <2>20
<1>7. QED
  BY <1>5, <1>6 DEF CommentsStay, edits, n

(***************************************************************************)
(* The plans.                                                              *)
(***************************************************************************)
Plan(text, edits, p, w) ==
  Within(text, edits) /\ CommasStay(text, edits) /\ Puts(text, edits, p, w) /\ Fits(text, edits, p, w)

\* What is put in where a text has elements, and where it has none that stays.
Alone(x) == <<x>>
Behind(x) == <<Comma, Break, x>>
\* It is no part of a comment: those before it keep their line ends, or it has its own.
Shown(text, edits, p, w, x) ==
  \/ w = Behind(x)
  \/ w = Alone(x) /\ \A c \in 1..p : Kept(edits, c) /\ text[c] = Slashes => c < p /\ Kept(edits, c + 1)

LEMMA OneElement ==
  ASSUME NEW x, x \notin Punctuation
  PROVE  /\ Alone(x) \in Seq(Range(Alone(x))) /\ Len(Alone(x)) = 1 /\ Alone(x)[1] = x
         /\ Apart(Alone(x)) /\ \A k \in 1..Len(Alone(x)) : Alone(x)[k] \notin {Open, Close}
         /\ \A k \in ElementAt(Alone(x)) : Alone(x)[k] = x
         /\ Behind(x) \in Seq(Range(Behind(x))) /\ Len(Behind(x)) = 3 /\ Behind(x)[1] = Comma
         /\ Behind(x)[2] = Break /\ Behind(x)[3] = x /\ Apart(Behind(x)) /\ \A k \in 1..Len(Behind(x)) : Behind(x)[k] \notin {Open, Close}
         /\ \A k \in ElementAt(Behind(x)) : Behind(x)[k] = x
         /\ \A k \in 1..Len(Alone(x)) : Alone(x)[k] \notin {Slashes, CommaBreak}
         /\ \A k \in 1..Len(Behind(x)) : Behind(x)[k] \notin {Slashes, CommaBreak}
<1>1. /\ Alone(x) \in Seq({x}) /\ Len(Alone(x)) = 1 /\ Alone(x)[1] = x
      /\ Behind(x) \in Seq({x, Comma, Break}) /\ Len(Behind(x)) = 3 /\ Behind(x)[1] = Comma
      /\ Behind(x)[2] = Break /\ Behind(x)[3] = x
  BY DEF Alone, Behind
<1>2. Alone(x) \in Seq(Range(Alone(x))) /\ Behind(x) \in Seq(Range(Behind(x)))
  BY <1>1, SeqOfOwnRange
<1> HIDE DEF Alone, Behind
<1>3. /\ Comma \in Punctuation /\ Comma \notin {Open, Close} /\ x \notin {Open, Close}
      /\ Break \in Punctuation /\ Break \notin {Open, Close}
      /\ x \notin {Slashes, CommaBreak} /\ Comma \notin {Slashes, CommaBreak} /\ Break \notin {Slashes, CommaBreak}
  BY TokensApart DEF LineEnds
<1>4. \A k \in ElementAt(Alone(x)) : k = 1
  BY <1>1 DEF ElementAt
<1>5. \A k \in ElementAt(Behind(x)) : k = 3
  BY <1>1, <1>3 DEF ElementAt
<1>6. Apart(Alone(x)) /\ Apart(Behind(x))
  BY <1>4, <1>5 DEF Apart
<1>7. \A k \in 1..1 : k = 1
  OBVIOUS
<1>8. \A k \in 1..3 : k = 1 \/ k = 2 \/ k = 3
  OBVIOUS
<1>9. QED
  BY <1>1, <1>2, <1>3, <1>4, <1>5, <1>6, <1>7, <1>8

LEMMA PutsNothing ==
  ASSUME NEW text, Framed(text), NEW edits, \A d \in edits : d.with = <<>>
  PROVE  Puts(text, edits, 1, <<>>) /\ Fits(text, edits, 1, <<>>)
<1>1. Len(text) \in Nat /\ Len(text) > 1
  BY RangeOfSeq DEF Framed
<1>2. \A i \in 1..Len(text) : Inserted(edits, i) = <<>>
  BY DEF Inserted
<1>3. <<>> \in Seq(Range(<<>>)) /\ Len(<<>>) = 0
  OBVIOUS
<1>4. Puts(text, edits, 1, <<>>)
  BY <1>1, <1>2, <1>3 DEF Puts
<1>5. Fits(text, edits, 1, <<>>)
  BY <1>3 DEF Fits, Apart, ElementAt
<1>6. QED
  BY <1>4, <1>5

LEMMA PutsOne ==
  ASSUME NEW text, NEW cuts, \A d \in cuts : d.with = <<>>,
         NEW p \in 1..(Len(text) - 1), NEW to, NEW w, w \in Seq(Range(w)), Len(w) > 0
  PROVE  Puts(text, cuts \cup {Edit(p, to, w)}, p, w)
<1> DEFINE edits == cuts \cup {Edit(p, to, w)}
           here(i) == {e \in edits : e.from = i /\ e.with # <<>>}
<1>1. w # <<>>
  OBVIOUS
<1>2. Edit(p, to, w).from = p /\ Edit(p, to, w).with = w
  BY DEF Edit
<1>3. here(p) = {Edit(p, to, w)} /\ \A i : i # p => here(i) = {}
  BY <1>1, <1>2
<1>4. Inserted(edits, p) = w
  <2>1. (CHOOSE e \in {Edit(p, to, w)} : TRUE) = Edit(p, to, w)
    OBVIOUS
  <2>2. Inserted(edits, p) = IF here(p) = {} THEN <<>> ELSE (CHOOSE e \in here(p) : TRUE).with
    BY DEF Inserted
  <2> HIDE DEF here
  <2>3. QED
    BY <1>2, <1>3, <2>1, <2>2
<1>5. \A i : i # p => Inserted(edits, i) = <<>>
  BY <1>3 DEF Inserted
<1> HIDE DEF edits
<1>6. \A i \in 1..Len(text) : Inserted(edits, i) = IF i = p THEN w ELSE <<>>
  BY <1>4, <1>5
<1>7. QED
  BY <1>6 DEF Puts, edits

\* An element put in beside the deletion of runs.
LEMMA PutBesideRuns ==
  ASSUME NEW text, Framed(text), Apart(text), NEW doomed \in SUBSET ElementAt(text),
         NEW p \in 1..(Len(text) - 1), NEW w, w \in Seq(Range(w)), Len(w) > 0,
         Apart(w), \A k \in 1..Len(w) : w[k] \notin {Open, Close},
         \A i \in ElementAt(text) : i \notin doomed => i <= p /\ w[1] = Comma
  PROVE  Plan(text, DeleteRuns(text, doomed) \cup {Edit(p, p, w)}, p, w)
<1> DEFINE cuts == DeleteRuns(text, doomed)
           edits == cuts \cup {Edit(p, p, w)}
<1>1. /\ Within(text, cuts) /\ CommasStay(text, cuts)
      /\ \A d \in cuts : d.with = <<>>
      /\ \A i \in doomed : ~ Kept(cuts, i)
  BY RunsDeleted
<1> HIDE DEF cuts
<1>2. Len(text) \in Nat /\ p \in Nat /\ 1 <= p /\ p < Len(text)
  BY RangeOfSeq DEF Framed
<1>3. Edit(p, p, w).from = p /\ Edit(p, p, w).to = p
  BY DEF Edit
<1>4. \A i \in 1..Len(text) : Kept(edits, i) <=> Kept(cuts, i)
  BY <1>2, <1>3 DEF Kept
<1>5. Within(text, edits)
  BY <1>1, <1>2, <1>3 DEF Within
<1>6. \A i \in ElementAt(text) : i \in 1..Len(text)
  BY DEF ElementAt
<1>7. CommasStay(text, edits)
  <2>1. ASSUME NEW i \in ElementAt(text), NEW j \in ElementAt(text), i < j, Kept(edits, i), Kept(edits, j)
        PROVE  \E c \in i..j : text[c] = Comma /\ Kept(edits, c)
    <3>1. PICK c \in i..j : text[c] = Comma /\ Kept(cuts, c)
      BY <1>1, <1>4, <1>6, <2>1 DEF CommasStay
    <3>2. c \in 1..Len(text)
      BY <1>2, <1>6
    <3>3. QED
      BY <1>4, <3>1, <3>2
  <2>2. QED
    BY <2>1 DEF CommasStay
<1>8. Puts(text, edits, p, w)
  BY <1>1, PutsOne
<1>9. Fits(text, edits, p, w)
  BY <1>1, <1>4, <1>6 DEF Fits
<1>10. QED
  BY <1>5, <1>7, <1>8, <1>9 DEF Plan, cuts

\* It leaves the comments as the deletions do.
LEMMA TidyBesideRuns ==
  ASSUME NEW text, Framed(text), Apart(text), Lined(text), NEW doomed \in SUBSET ElementAt(text),
         NEW p \in 1..(Len(text) - 1), text[p] # Slashes,
         NEW w, \A k \in 1..Len(w) : w[k] \notin {Slashes, CommaBreak}
  PROVE  /\ Tidy(text, DeleteRuns(text, doomed), p, w)
         /\ Tidy(text, DeleteRuns(text, doomed) \cup {Edit(p, p, w)}, p, w)
<1> DEFINE cuts == DeleteRuns(text, doomed)
           edits == cuts \cup {Edit(p, p, w)}
<1>1. CommentsStay(text, cuts)
  BY RunsLeaveComments
<1> HIDE DEF cuts
<1>2. Edit(p, p, w).from = p /\ Edit(p, p, w).to = p /\ p \in Nat
  BY RangeOfSeq DEF Edit, Framed
<1>3. Len(text) \in Nat /\ \A k \in ElementAt(text) : k \in Nat
  BY RangeOfSeq, ElementWithin DEF Framed
<1>4. \A i \in Int : Kept(edits, i) <=> Kept(cuts, i)
  BY <1>2 DEF Kept
<1>5. CommentsStay(text, edits)
  <2>1. ASSUME NEW i \in 1..Len(text), Kept(edits, i)
        PROVE  /\ text[i] = CommaBreak => Kept(edits, i - 1)
               /\ text[i] = Slashes =>
                    \/ Kept(edits, i + 1)
                    \/ \A k \in ElementAt(text) : k < i /\ Kept(edits, k) =>
                         \E c \in k..i : text[c] = Comma /\ Kept(edits, c)
    <3>1. i \in Int /\ i - 1 \in Int /\ i + 1 \in Int
      BY <1>3
    <3>2. \A k \in ElementAt(text) : k \in Int /\ \A c \in k..i : c \in Int
      BY <1>3
    <3> HIDE DEF edits
    <3>3. Kept(cuts, i)
      BY <1>4, <2>1, <3>1
    <3>4. QED
      BY <1>1, <1>4, <3>1, <3>2, <3>3 DEF CommentsStay
  <2>2. QED
    BY <2>1 DEF CommentsStay
<1>6. QED
  BY <1>1, <1>5 DEF Tidy, cuts

LEMMA NewElements ==
  ASSUME NEW event
  PROVE  /\ Canonical(event) \notin Punctuation /\ OwnGroup(event) \notin Punctuation
         /\ \A value : Property(event, value) \notin Punctuation
  BY DEF Canonical, Handler, OwnGroup, Property, Punctuation, Trivia, LineEnds,
         Open, Close, Comma, Note, Slashes, Break, CommaBreak

LEMMA HandlerPlan ==
  ASSUME NEW event, NEW group, NEW isTarget \in BOOLEAN, HasHandlers(group),
         Framed(group.handlers), Apart(group.handlers), Lined(group.handlers)
  PROVE  LET text == group.handlers
             edits == HandlerEdits(event, group, isTarget)
         IN \E p, w : /\ Plan(text, edits, p, w) /\ Tidy(text, edits, p, w)
                      /\ isTarget => Shown(text, edits, p, w, Canonical(event))
                      /\ ~ isTarget => w = <<>>
<1> DEFINE text == group.handlers
           own == OwnedIn(event, group)
           x == Canonical(event)
<1>1. own \in SUBSET ElementAt(text)
  BY DEF OwnedIn
<1>2. Len(text) \in Nat /\ Len(text) > 1 /\ \A i \in ElementAt(text) : i \in Nat /\ 2 <= i /\ i < Len(text)
  <2>1. Len(text) \in Nat /\ Len(text) > 1
    BY RangeOfSeq DEF Framed
  <2>2. QED
    BY <2>1, ElementWithin
<1>3. x \notin Punctuation
  BY NewElements
<1> HIDE DEF own, text, x
<1>4. Framed(text) /\ Apart(text) /\ Lined(text)
  BY DEF text
<1>9. text[1] # Slashes /\ \A i \in ElementAt(text) : text[i] \notin {Slashes} \cup LineEnds
  BY <1>4, TokensApart DEF ElementAt, LineEnds, Framed
<1>5. CASE isTarget /\ AllOwned(event, group)
  <2>1. own # {} /\ own = ElementAt(text)
    BY <1>5 DEF AllOwned, own, text
  <2> DEFINE a == Min(own)
             b == Max(own)
             edits == {Edit(a - 1, b, <<x>>)}
  <2>2. own \in SUBSET Nat /\ \A i \in own : i <= Len(text)
    BY <1>2, <2>1
  <2>3. a \in own /\ b \in own /\ \A i \in own : a <= i /\ i <= b
    BY <1>2, <2>1, <2>2, LeastExists, GreatestExists
  <2>4. HandlerEdits(event, group, isTarget) = edits
    BY <1>5 DEF HandlerEdits, own, x
  <2> HIDE DEF a, b
  <2>5. a \in Nat /\ a - 1 \in Nat /\ b \in Nat /\ 1 <= a - 1 /\ a <= b /\ b < Len(text) /\ a - 1 \in 1..(Len(text) - 1)
    BY <1>2, <2>1, <2>3
  <2>6. Edit(a - 1, b, <<x>>).from = a - 1 /\ Edit(a - 1, b, <<x>>).to = b
    BY DEF Edit
  <2>7. Within(text, edits)
    BY <2>5, <2>6 DEF Within
  <2>8. \A i \in ElementAt(text) : ~ Kept(edits, i)
    <3>1. \A i \in ElementAt(text) : i \in Nat /\ a - 1 < i /\ i <= b
      BY <1>2, <2>1, <2>3, <2>5
    <3>2. QED
      BY <2>6, <3>1 DEF Kept
  <2>9. CommasStay(text, edits)
    BY <2>8 DEF CommasStay
  <2>10. Puts(text, edits, a - 1, Alone(x))
    <3>1. Puts(text, {} \cup {Edit(a - 1, b, Alone(x))}, a - 1, Alone(x))
      <4>1. Alone(x) \in Seq(Range(Alone(x))) /\ Len(Alone(x)) > 0
        BY <1>3, OneElement
      <4>2. \A d \in {} : d.with = <<>>
        OBVIOUS
      <4> DEFINE q == a - 1
      <4>3. q \in 1..(Len(text) - 1)
        BY <2>5
      <4> HIDE DEF q
      <4>4. Puts(text, {} \cup {Edit(q, b, Alone(x))}, q, Alone(x))
        BY <4>1, <4>2, <4>3, PutsOne
      <4>5. QED
        BY <4>4 DEF q
    <3>2. {} \cup {Edit(a - 1, b, Alone(x))} = edits
      BY DEF Alone
    <3>3. QED
      BY <3>1, <3>2
  <2>11. Fits(text, edits, a - 1, Alone(x))
    BY <1>3, <2>8, OneElement DEF Fits
  <2>14. \A i \in 1..Len(text) : Kept(edits, i) <=> i < a \/ b < i
    BY <2>5, <2>6 DEF Kept
  <2> HIDE DEF edits
  <2>12. Plan(text, edits, a - 1, Alone(x))
    BY <2>7, <2>9, <2>10, <2>11 DEF Plan
  <2>15. text[a - 1] # Slashes
    <3>1. text[(a - 1) + 1] \notin LineEnds
      BY <1>9, <2>1, <2>3, <2>5
    <3>2. QED
      BY <1>4, <2>5, <3>1 DEF Lined
  <2>16. CommentsStay(text, edits)
    <3>1. ASSUME NEW i \in 1..Len(text), Kept(edits, i), text[i] = CommaBreak
          PROVE  Kept(edits, i - 1)
      <4>1. text[i - 1] = Slashes
        BY <1>4, <3>1 DEF Lined
      <4>2. i # 1 /\ i - 1 # b
        <5>1. text[b] # Slashes /\ text[1] # CommaBreak
          BY <1>4, <1>9, <2>1, <2>3, TokensApart DEF LineEnds, Framed
        <5>2. QED
          BY <3>1, <4>1, <5>1
      <4>3. i - 1 \in 1..Len(text) /\ (i - 1 < a \/ b < i - 1)
        BY <1>2, <2>5, <2>14, <3>1, <4>2
      <4>4. QED
        BY <2>14, <4>3
    <3>2. QED
      BY <2>8, <3>1 DEF CommentsStay
  <2>17. Tidy(text, edits, a - 1, Alone(x))
    <3>1. \A k \in 1..Len(Alone(x)) : Alone(x)[k] \notin {Slashes, CommaBreak}
      BY <1>3, OneElement
    <3>2. QED
      BY <2>15, <2>16, <3>1 DEF Tidy
  <2>18. Shown(text, edits, a - 1, Alone(x), x)
    <3>1. ASSUME NEW c \in 1..(a - 1), text[c] = Slashes
          PROVE  c < a - 1 /\ Kept(edits, c + 1)
      <4>1. c # a - 1
        BY <2>15, <3>1
      <4>2. c < a - 1 /\ c + 1 \in 1..Len(text) /\ c + 1 < a
        BY <1>2, <2>5, <4>1
      <4>3. QED
        BY <2>14, <4>2
    <3>2. QED
      BY <3>1 DEF Shown
  <2> HIDE DEF Tidy, Shown, Plan
  <2>13. QED
    BY <1>5, <2>4, <2>12, <2>17, <2>18 DEF text, x
<1>6. CASE isTarget /\ ~ AllOwned(event, group)
  <2> DEFINE stay == ElementAt(text) \ own
  <2>1. HandlerEdits(event, group, isTarget) = DeleteRuns(text, own) \cup {Placement(event, group)}
    BY <1>6 DEF HandlerEdits, own, text
  <2>2. CASE stay = {}
    <3>1. ElementAt(text) = {}
      BY <1>1, <1>6, <2>2 DEF AllOwned, own, text
    <3>2. Placement(event, group) = Edit(1, 1, Alone(x))
      BY <2>2 DEF Placement, own, text, x, Alone
    <3>3. 1 \in 1..(Len(text) - 1)
      BY <1>2
    <3>4. Plan(text, DeleteRuns(text, own) \cup {Edit(1, 1, Alone(x))}, 1, Alone(x))
      <4>1. \A i \in ElementAt(text) : i \notin own => i <= 1 /\ Alone(x)[1] = Comma
        BY <3>1
      <4>2. /\ Alone(x) \in Seq(Range(Alone(x))) /\ Len(Alone(x)) > 0
            /\ Apart(Alone(x)) /\ \A k \in 1..Len(Alone(x)) : Alone(x)[k] \notin {Open, Close}
        BY <1>3, OneElement
      <4>3. QED
        BY <1>1, <1>4, <3>3, <4>1, <4>2, PutBesideRuns
    <3> DEFINE edits == DeleteRuns(text, own) \cup {Edit(1, 1, Alone(x))}
    <3> HIDE DEF edits
    <3>6. Tidy(text, edits, 1, Alone(x))
      <4>1. \A k \in 1..Len(Alone(x)) : Alone(x)[k] \notin {Slashes, CommaBreak}
        BY <1>3, OneElement
      <4>2. QED
        BY <1>1, <1>4, <1>9, <3>3, <4>1, TidyBesideRuns DEF edits
    <3>7. Shown(text, edits, 1, Alone(x), x)
      BY <1>9 DEF Shown
    <3>8. Plan(text, edits, 1, Alone(x)) /\ HandlerEdits(event, group, isTarget) = edits
      BY <2>1, <3>2, <3>4 DEF edits
    <3> HIDE DEF Tidy, Shown, Plan
    <3>5. QED
      BY <1>6, <3>6, <3>7, <3>8 DEF text, x
  <2>3. CASE stay # {}
    <3> DEFINE p == Max(stay)
    <3>1. p \in stay /\ \A i \in stay : i <= p
      <4>1. stay \in SUBSET Nat /\ \A i \in stay : i <= Len(text)
        BY <1>2
      <4> HIDE DEF stay
      <4>2. QED
        BY <1>2, <2>3, <4>1, GreatestExists
    <3>2. Placement(event, group) = Edit(p, p, Behind(x))
      BY <2>3 DEF Placement, own, text, x, Behind
    <3> HIDE DEF p
    <3>3. p \in 1..(Len(text) - 1)
      BY <1>2, <3>1
    <3>4. Plan(text, DeleteRuns(text, own) \cup {Edit(p, p, Behind(x))}, p, Behind(x))
      <4>1. \A i \in ElementAt(text) : i \notin own => i <= p /\ Behind(x)[1] = Comma
        BY <1>3, <3>1, OneElement
      <4>2. /\ Behind(x) \in Seq(Range(Behind(x))) /\ Len(Behind(x)) > 0
            /\ Apart(Behind(x)) /\ \A k \in 1..Len(Behind(x)) : Behind(x)[k] \notin {Open, Close}
        BY <1>3, OneElement
      <4>3. QED
        BY <1>1, <1>4, <3>3, <4>1, <4>2, PutBesideRuns
    <3> DEFINE edits == DeleteRuns(text, own) \cup {Edit(p, p, Behind(x))}
    <3> HIDE DEF edits
    <3>6. Tidy(text, edits, p, Behind(x))
      <4>1. \A k \in 1..Len(Behind(x)) : Behind(x)[k] \notin {Slashes, CommaBreak}
        BY <1>3, OneElement
      <4>2. text[p] # Slashes
        BY <1>9, <3>1
      <4>3. QED
        BY <1>1, <1>4, <3>3, <4>1, <4>2, TidyBesideRuns DEF edits
    <3>7. Shown(text, edits, p, Behind(x), x)
      BY DEF Shown
    <3>8. Plan(text, edits, p, Behind(x)) /\ HandlerEdits(event, group, isTarget) = edits
      BY <2>1, <3>2, <3>4 DEF edits
    <3> HIDE DEF Tidy, Shown, Plan
    <3>5. QED
      BY <1>6, <3>6, <3>7, <3>8 DEF text, x
  <2>4. QED
    BY <2>2, <2>3
<1>7. CASE ~ isTarget
  <2>1. HandlerEdits(event, group, isTarget) = DeleteRuns(text, own)
    BY <1>7 DEF HandlerEdits, own, text
  <2>2. /\ Within(text, DeleteRuns(text, own)) /\ CommasStay(text, DeleteRuns(text, own))
        /\ \A d \in DeleteRuns(text, own) : d.with = <<>>
    BY <1>1, <1>4, RunsDeleted
  <2>3. Plan(text, DeleteRuns(text, own), 1, <<>>)
    BY <1>4, <2>2, PutsNothing DEF Plan
  <2>5. Tidy(text, DeleteRuns(text, own), 1, <<>>)
    <3>1. 1 \in 1..(Len(text) - 1) /\ \A k \in 1..Len(<<>>) : <<>>[k] \notin {Slashes, CommaBreak}
      BY <1>2
    <3>2. QED
      BY <1>1, <1>4, <1>9, <3>1, TidyBesideRuns
  <2> DEFINE edits == DeleteRuns(text, own)
             none == <<>>
  <2>6. Plan(text, edits, 1, none) /\ Tidy(text, edits, 1, none) /\ HandlerEdits(event, group, isTarget) = edits
        /\ none = <<>>
    BY <2>1, <2>3, <2>5
  <2> HIDE DEF edits, none, Tidy, Plan
  <2>4. QED
    BY <1>7, <2>6 DEF text
<1>8. QED
  BY <1>5, <1>6, <1>7

LEMMA GroupPlan ==
  ASSUME NEW event, NEW array, NEW wanted \in BOOLEAN, Framed(array), Apart(array), Lined(array)
  PROVE  LET edits == GroupEdits(event, array, wanted)
             new == NewGroup(event, array, wanted)
         IN \E p, w : /\ Plan(array, edits, p, w) /\ Tidy(array, edits, p, w)
                      /\ \A k \in ElementAt(w) : w[k] = OwnGroup(event)
                      /\ new # {} => Shown(array, edits, p, w, OwnGroup(event))
                      /\ new = {} => w = <<>>
<1> DEFINE gone == Emptied(event, array, wanted)
           x == OwnGroup(event)
           new == NewGroup(event, array, wanted)
<1>1. gone \in SUBSET ElementAt(array)
  BY DEF Emptied
<1>2. Len(array) \in Nat /\ Len(array) > 1 /\ \A i \in ElementAt(array) : i \in Nat /\ 2 <= i /\ i < Len(array)
  <2>1. Len(array) \in Nat /\ Len(array) > 1
    BY RangeOfSeq DEF Framed
  <2>2. QED
    BY <2>1, ElementWithin
<1>10. array[1] # Slashes /\ \A i \in ElementAt(array) : array[i] # Slashes
  BY TokensApart DEF ElementAt, Framed
<1>3. x \notin Punctuation
  BY NewElements
<1>4. GroupEdits(event, array, wanted) = DeleteRuns(array, gone) \cup new
  BY DEF GroupEdits
<1>5. \/ new = {}
      \/ gone = ElementAt(array) /\ new = {Edit(1, 1, Alone(x))}
      \/ /\ gone # ElementAt(array)
         /\ new = {Edit(Max(ElementAt(array)), Max(ElementAt(array)), Behind(x))}
  BY DEF NewGroup, Alone, Behind
<1> HIDE DEF gone, new, x
<1>6. CASE new = {}
  <2>1. /\ Within(array, DeleteRuns(array, gone)) /\ CommasStay(array, DeleteRuns(array, gone))
        /\ \A d \in DeleteRuns(array, gone) : d.with = <<>>
    BY <1>1, RunsDeleted
  <2>2. Plan(array, DeleteRuns(array, gone), 1, <<>>)
    BY <2>1, PutsNothing DEF Plan
  <2>3. ElementAt(<<>>) = {}
    BY DEF ElementAt
  <2>4. GroupEdits(event, array, wanted) = DeleteRuns(array, gone)
    BY <1>4, <1>6
  <2>6. Tidy(array, DeleteRuns(array, gone), 1, <<>>)
    <3>1. 1 \in 1..(Len(array) - 1) /\ \A k \in 1..Len(<<>>) : <<>>[k] \notin {Slashes, CommaBreak}
      BY <1>2
    <3>2. QED
      BY <1>1, <1>10, <3>1, TidyBesideRuns
  <2> HIDE DEF Tidy, Plan
  <2>5. QED
    BY <1>6, <2>2, <2>3, <2>4, <2>6 DEF new
<1>7. CASE gone = ElementAt(array) /\ new = {Edit(1, 1, Alone(x))}
  <2>1. /\ Alone(x) \in Seq(Range(Alone(x))) /\ Len(Alone(x)) > 0 /\ Apart(Alone(x))
        /\ \A k \in 1..Len(Alone(x)) : Alone(x)[k] \notin {Open, Close}
        /\ \A k \in ElementAt(Alone(x)) : Alone(x)[k] = x
    BY <1>3, OneElement
  <2>2. 1 \in 1..(Len(array) - 1)
    BY <1>2
  <2>3. \A i \in ElementAt(array) : i \notin gone => i <= 1 /\ Alone(x)[1] = Comma
    BY <1>7
  <2>4. Plan(array, DeleteRuns(array, gone) \cup {Edit(1, 1, Alone(x))}, 1, Alone(x))
    BY <1>1, <2>1, <2>2, <2>3, PutBesideRuns
  <2> DEFINE edits == DeleteRuns(array, gone) \cup {Edit(1, 1, Alone(x))}
  <2> HIDE DEF edits
  <2>6. Tidy(array, edits, 1, Alone(x))
    <3>1. \A k \in 1..Len(Alone(x)) : Alone(x)[k] \notin {Slashes, CommaBreak}
      BY <1>3, OneElement
    <3>2. QED
      BY <1>1, <1>10, <2>2, <3>1, TidyBesideRuns DEF edits
  <2>7. Shown(array, edits, 1, Alone(x), x)
    BY <1>10 DEF Shown
  <2>8. Plan(array, edits, 1, Alone(x)) /\ GroupEdits(event, array, wanted) = edits /\ new # {}
    BY <1>4, <1>7, <2>4 DEF edits
  <2> HIDE DEF Tidy, Shown, Plan
  <2>5. QED
    BY <2>1, <2>6, <2>7, <2>8 DEF x, new
<1>8. CASE /\ gone # ElementAt(array)
           /\ new = {Edit(Max(ElementAt(array)), Max(ElementAt(array)), Behind(x))}
  <2> DEFINE p == Max(ElementAt(array))
  <2>1. p \in ElementAt(array) /\ \A i \in ElementAt(array) : i <= p
    <3>1. ElementAt(array) # {} /\ ElementAt(array) \in SUBSET Nat /\ \A i \in ElementAt(array) : i <= Len(array)
      BY <1>1, <1>2, <1>8
    <3>2. QED
      BY <1>2, <3>1, GreatestExists
  <2>2. new = {Edit(p, p, Behind(x))}
    BY <1>8
  <2> HIDE DEF p
  <2>3. /\ Behind(x) \in Seq(Range(Behind(x))) /\ Len(Behind(x)) > 0 /\ Apart(Behind(x))
        /\ \A k \in 1..Len(Behind(x)) : Behind(x)[k] \notin {Open, Close}
        /\ \A k \in ElementAt(Behind(x)) : Behind(x)[k] = x
        /\ Behind(x)[1] = Comma
    BY <1>3, OneElement
  <2>4. p \in 1..(Len(array) - 1)
    BY <1>2, <2>1
  <2>5. Plan(array, DeleteRuns(array, gone) \cup {Edit(p, p, Behind(x))}, p, Behind(x))
    BY <1>1, <2>1, <2>3, <2>4, PutBesideRuns
  <2> DEFINE edits == DeleteRuns(array, gone) \cup {Edit(p, p, Behind(x))}
  <2> HIDE DEF edits
  <2>6. Tidy(array, edits, p, Behind(x))
    <3>1. \A k \in 1..Len(Behind(x)) : Behind(x)[k] \notin {Slashes, CommaBreak}
      BY <1>3, OneElement
    <3>2. array[p] # Slashes
      BY <1>10, <2>1
    <3>3. QED
      BY <1>1, <2>4, <3>1, <3>2, TidyBesideRuns DEF edits
  <2>7. Shown(array, edits, p, Behind(x), x)
    BY DEF Shown
  <2>8. Plan(array, edits, p, Behind(x)) /\ GroupEdits(event, array, wanted) = edits /\ new # {}
    BY <1>4, <2>2, <2>5 DEF edits
  <2> HIDE DEF Tidy, Shown, Plan
  <2>9. QED
    BY <2>3, <2>6, <2>7, <2>8 DEF x, new
<1>9. QED
  BY <1>5, <1>6, <1>7, <1>8

(***************************************************************************)
(* Texts the program writes itself.                                        *)
(***************************************************************************)
LEMMA Concatenated ==
  ASSUME NEW T, NEW a \in Seq(T), NEW b \in Seq(T)
  PROVE  /\ a \o b \in Seq(T) /\ Len(a) \in Nat /\ Len(b) \in Nat /\ Len(a \o b) = Len(a) + Len(b)
         /\ \A k \in 1..Len(a) : (a \o b)[k] = a[k]
         /\ \A k \in 1..Len(b) : (a \o b)[Len(a) + k] = b[k]
  OBVIOUS

LEMMA ListedSound ==
  ASSUME NEW xs, xs \in Seq(Range(xs)), \A i \in 1..Len(xs) : xs[i] \notin Punctuation
  PROVE  LET m == IF Len(xs) = 0 THEN 0 ELSE 2 * Len(xs) - 1 IN
         /\ Listed(xs) \in Seq(Range(Listed(xs))) /\ Len(Listed(xs)) = m /\ m \in Nat
         /\ \A k \in 1..m : /\ k % 2 = 1 => k + 1 <= 2 * Len(xs) /\ (k + 1) \div 2 \in 1..Len(xs)
                                            /\ Listed(xs)[k] = xs[(k + 1) \div 2]
                            /\ k % 2 = 0 => Listed(xs)[k] = Comma
                            /\ k % 2 \in {0, 1}
         /\ m > 0 => m % 2 = 1
<1> DEFINE n == Len(xs)
           m == IF n = 0 THEN 0 ELSE 2 * n - 1
           L == Listed(xs)
           T == Range(xs) \cup {Comma}
<1>1. n \in Nat /\ m \in Nat /\ \A i \in 1..n : xs[i] \in Range(xs)
  BY RangeOfSeq
<1>2. ASSUME NEW k \in 1..(2 * n - 1)
      PROVE  /\ k % 2 \in {0, 1}
             /\ k % 2 = 1 => (k + 1) \div 2 \in 1..n
  BY <1>1
<1>3. L = [k \in 1..(2 * n - 1) |-> IF k % 2 = 1 THEN xs[(k + 1) \div 2] ELSE Comma]
  BY DEF Listed
<1>4. 1..(2 * n - 1) = 1..m
  BY <1>1
<1> HIDE DEF L, n
<1>5. \A k \in 1..m : (IF k % 2 = 1 THEN xs[(k + 1) \div 2] ELSE Comma) \in T
  BY <1>1, <1>2, <1>4
<1>6. L = [k \in 1..m |-> IF k % 2 = 1 THEN xs[(k + 1) \div 2] ELSE Comma]
  BY <1>3, <1>4
<1> HIDE DEF m, T
<1>7. L \in [1..m -> T]
  BY <1>5, <1>6
<1>8. L \in Seq(T) /\ Len(L) = m
  BY <1>1, <1>7
<1>9. L \in Seq(Range(L))
  BY <1>8, SeqOfOwnRange
<1>10. ASSUME NEW k \in 1..m
       PROVE  /\ k % 2 = 1 => k + 1 <= 2 * n /\ (k + 1) \div 2 \in 1..n /\ L[k] = xs[(k + 1) \div 2]
              /\ k % 2 = 0 => L[k] = Comma
              /\ k % 2 \in {0, 1}
  <2>1. k \in 1..(2 * n - 1) /\ k + 1 <= 2 * n
    BY <1>1, <1>4
  <2>2. L[k] = IF k % 2 = 1 THEN xs[(k + 1) \div 2] ELSE Comma
    BY <1>6
  <2>3. QED
    BY <1>2, <2>1, <2>2
<1>11. m > 0 => m % 2 = 1
  BY <1>1 DEF m
<1>12. QED
  BY <1>1, <1>8, <1>9, <1>10, <1>11 DEF L, m, n

LEMMA ListedApart ==
  ASSUME NEW xs, xs \in Seq(Range(xs)), \A i \in 1..Len(xs) : xs[i] \notin Punctuation
  PROVE  /\ Apart(Listed(xs)) /\ \A k \in 1..Len(Listed(xs)) : Listed(xs)[k] \notin {Open, Close}
         /\ \A k \in ElementAt(Listed(xs)) : k % 2 = 1 /\ \E i \in 1..Len(xs) : Listed(xs)[k] = xs[i]
<1> DEFINE L == Listed(xs)
           m == Len(L)
<1>1. /\ L \in Seq(Range(L)) /\ m \in Nat
      /\ \A k \in 1..m : /\ k % 2 = 1 => (k + 1) \div 2 \in 1..Len(xs) /\ L[k] = xs[(k + 1) \div 2]
                         /\ k % 2 = 0 => L[k] = Comma
                         /\ k % 2 \in {0, 1}
  BY ListedSound
<1> HIDE DEF L, m
<1>2. Comma \in Punctuation /\ Comma \notin {Open, Close}
  BY TokensApart
<1>3. \A k \in ElementAt(L) : k \in 1..m /\ L[k] \notin Punctuation
  BY DEF ElementAt, m
<1>4. ASSUME NEW k \in ElementAt(L)
      PROVE  k % 2 = 1 /\ \E i \in 1..Len(xs) : L[k] = xs[i]
  BY <1>1, <1>2, <1>3
<1>5. ASSUME NEW a \in ElementAt(L), NEW b \in ElementAt(L), a < b
      PROVE  \E c \in a..b : L[c] = Comma
  <2>1. a \in 1..m /\ b \in 1..m /\ a % 2 = 1 /\ m \in Nat
    BY <1>1, <1>3, <1>4
  <2>2. a + 1 \in 1..m /\ (a + 1) % 2 = 0 /\ a + 1 \in a..b
    BY <1>5, <2>1
  <2>3. QED
    BY <1>1, <2>2
<1>6. ASSUME NEW k \in 1..m
      PROVE  L[k] \notin {Open, Close}
  <2>1. CASE k % 2 = 1
    <3>1. PICK i \in 1..Len(xs) : L[k] = xs[i]
      BY <1>1, <2>1
    <3>2. QED
      BY <3>1 DEF Punctuation
  <2>2. CASE k % 2 = 0
    BY <1>1, <1>2, <2>2
  <2>3. QED
    BY <1>1, <2>1, <2>2
<1>7. QED
  BY <1>4, <1>5, <1>6 DEF Apart, L, m

LEMMA BareSound ==
  ASSUME NEW xs, xs \in Seq(Range(xs)), \A i \in 1..Len(xs) : xs[i] \notin Punctuation
  PROVE  /\ Framed(Bare(xs)) /\ Apart(Bare(xs)) /\ Parses(Bare(xs)) /\ Lined(Bare(xs))
         /\ \A q \in ElementAt(Bare(xs)) : \E i \in 1..Len(xs) : Bare(xs)[q] = xs[i]
<1> DEFINE L == Listed(xs)
           m == Len(L)
           B == Bare(xs)
           T == Range(L) \cup {Open, Close}
<1>1. /\ L \in Seq(Range(L)) /\ m \in Nat
      /\ \A k \in 1..m : /\ k % 2 = 1 => (k + 1) \div 2 \in 1..Len(xs) /\ L[k] = xs[(k + 1) \div 2]
                         /\ k % 2 = 0 => L[k] = Comma
                         /\ k % 2 \in {0, 1}
  BY ListedSound
<1>2. /\ Apart(L) /\ \A k \in 1..m : L[k] \notin {Open, Close}
      /\ \A k \in ElementAt(L) : \E i \in 1..Len(xs) : L[k] = xs[i]
  BY ListedApart
<1>3. B = <<Open>> \o L \o <<Close>>
  BY DEF Bare
<1> HIDE DEF L, m, B
<1>4. L \in Seq(T) /\ <<Open>> \in Seq(T) /\ <<Close>> \in Seq(T) /\ Len(L) = m
  BY <1>1 DEF m
<1> HIDE DEF T
<1>5. /\ B \in Seq(T) /\ Len(B) = m + 2 /\ B[1] = Open /\ B[m + 2] = Close
      /\ \A k \in 1..m : B[k + 1] = L[k]
  <2> DEFINE H == <<Open>> \o L
  <2>1. H \in Seq(T) /\ Len(H) = m + 1 /\ H[1] = Open /\ \A k \in 1..m : H[k + 1] = L[k]
    <3> DEFINE o == <<Open>>
    <3>1. o \in Seq(T) /\ Len(o) = 1 /\ o[1] = Open
      BY <1>4
    <3> HIDE DEF o
    <3>2. /\ o \o L \in Seq(T) /\ Len(o \o L) = 1 + m /\ (o \o L)[1] = Open
          /\ \A k \in 1..m : (o \o L)[1 + k] = L[k]
      <4>1. 1 \in 1..1
        OBVIOUS
      <4>2. o \in Seq(T) /\ L \in Seq(T)
        BY <1>4, <3>1
      <4>3. /\ o \o L \in Seq(T) /\ Len(o \o L) = Len(o) + Len(L)
            /\ \A k \in 1..Len(o) : (o \o L)[k] = o[k]
            /\ \A k \in 1..Len(L) : (o \o L)[Len(o) + k] = L[k]
        BY ONLY <4>2, Concatenated
      <4>4. QED
        BY <1>4, <3>1, <4>1, <4>3
    <3>3. QED
      BY <1>1, <3>2 DEF o
  <2> HIDE DEF H
  <2>2. B = H \o <<Close>>
    BY <1>3 DEF H
  <2>3. /\ B \in Seq(T) /\ Len(B) = m + 2 /\ B[m + 2] = Close
        /\ \A k \in 1..(m + 1) : B[k] = H[k]
    BY <1>1, <1>4, <2>1, <2>2
  <2>4. QED
    BY <1>1, <2>1, <2>3
<1>6. B \in Seq(Range(B))
  BY <1>5, SeqOfOwnRange
<1>7. \A q \in 1..Len(B) : q = 1 \/ q = Len(B) \/ (q - 1 \in 1..m /\ B[q] = L[q - 1])
  <2>1. ASSUME NEW q \in 1..Len(B), q # 1, q # Len(B)
        PROVE  q - 1 \in 1..m /\ B[q] = L[q - 1]
    <3>1. q - 1 \in 1..m /\ (q - 1) + 1 = q
      BY <1>1, <1>5, <2>1
    <3>2. QED
      BY <1>5, <3>1
  <2>2. QED
    BY <2>1
<1>8. Framed(B)
  <2>1. \A q \in 2..(Len(B) - 1) : B[q] \notin {Open, Close}
    <3>1. ASSUME NEW q \in 2..(Len(B) - 1)
          PROVE  B[q] \notin {Open, Close}
      <4>1. q \in 1..Len(B) /\ q # 1 /\ q # Len(B)
        BY <1>1, <1>5
      <4>2. QED
        BY <1>2, <1>7, <4>1
    <3>2. QED
      BY <3>1
  <2>2. QED
    BY <1>1, <1>5, <1>6, <2>1 DEF Framed
<1>9. ASSUME NEW q \in ElementAt(B)
      PROVE  q - 1 \in ElementAt(L) /\ B[q] = L[q - 1] /\ q \in 2..(Len(B) - 1)
  <2>1. q \in 1..Len(B) /\ B[q] \notin Punctuation
    BY DEF ElementAt
  <2>2. q # 1 /\ q # Len(B)
    BY <1>5, <2>1 DEF Punctuation
  <2>3. q - 1 \in 1..m /\ B[q] = L[q - 1]
    BY <1>7, <2>1, <2>2
  <2>4. QED
    BY <1>1, <1>5, <2>1, <2>2, <2>3 DEF ElementAt, m
<1>10. Apart(B)
  <2>1. ASSUME NEW a \in ElementAt(B), NEW b \in ElementAt(B), a < b
        PROVE  \E c \in a..b : B[c] = Comma
    <3>1. PICK c \in (a - 1)..(b - 1) : L[c] = Comma
      <4>1. a \in 2..(Len(B) - 1) /\ b \in 2..(Len(B) - 1) /\ a - 1 \in ElementAt(L) /\ b - 1 \in ElementAt(L)
        BY <1>9
      <4>2. a - 1 < b - 1
        BY <1>1, <1>5, <2>1, <4>1
      <4>3. QED
        BY <1>2, <4>1, <4>2 DEF Apart
    <3>2. a \in 2..(Len(B) - 1) /\ b \in 2..(Len(B) - 1)
      BY <1>9
    <3>3. c \in 1..m /\ c + 1 \in a..b
      BY <1>1, <1>5, <3>2
    <3>4. QED
      BY <1>5, <3>1, <3>3
  <2>2. QED
    BY <2>1 DEF Apart
<1>11. Comma \in Punctuation /\ Comma # Open /\ Comma # Close
  BY TokensApart
<1>12. Parses(B)
  <2>1. ASSUME NEW c \in 1..Len(B), B[c] = Comma
        PROVE  \E i \in ElementAt(B) : i < c /\ \A k \in (i + 1)..(c - 1) : B[k] \in Trivia
    <3>1. c - 1 \in 1..m /\ L[c - 1] = Comma
      BY <1>5, <1>7, <1>11, <2>1
    <3>2. (c - 1) % 2 = 0
      <4>1. CASE (c - 1) % 2 = 1
        <5>1. PICK i \in 1..Len(xs) : L[c - 1] = xs[i]
          BY <1>1, <3>1, <4>1
        <5>2. QED
          BY <1>11, <3>1, <5>1
      <4>2. QED
        BY <1>1, <3>1, <4>1
    <3>3. c - 2 \in 1..m /\ (c - 2) % 2 = 1
      <4>1. c \in Nat /\ m \in Nat /\ c - 1 \in 1..m /\ (c - 1) % 2 = 0
        BY <1>1, <3>1, <3>2
      <4> HIDE DEF m
      <4>2. QED
        BY ONLY <4>1
    <3>4. \E i \in 1..Len(xs) : L[c - 2] = xs[i]
      BY <1>1, <3>3
    <3>5. B[c - 1] = L[c - 2] /\ c - 1 \in 1..Len(B)
      <4>1. (c - 2) + 1 = c - 1 /\ c - 1 \in 1..Len(B)
        BY <1>1, <1>5, <3>1
      <4>2. QED
        BY <1>5, <3>3, <4>1
    <3>6. c - 1 \in ElementAt(B)
      BY <3>4, <3>5 DEF ElementAt
    <3>7. c - 1 < c /\ \A k \in ((c - 1) + 1)..(c - 1) : B[k] \in Trivia
      BY <1>1, <1>5
    <3>8. QED
      BY <3>6, <3>7
  <2>2. QED
    BY <1>5, <2>1 DEF Parses
<1>14. Lined(B)
  <2>1. ASSUME NEW k \in 1..m
        PROVE  L[k] \notin {Slashes, CommaBreak}
    <3>1. CASE k % 2 = 1
      <4>1. PICK i \in 1..Len(xs) : L[k] = xs[i]
        BY <1>1, <3>1
      <4>2. QED
        BY <4>1, TokensApart
    <3>2. CASE k % 2 = 0
      BY <1>1, <3>2, TokensApart DEF LineEnds
    <3>3. QED
      BY <1>1, <3>1, <3>2
  <2>2. \A q \in 1..Len(B) : B[q] \notin {Slashes, CommaBreak}
    BY <1>1, <1>5, <1>7, <2>1, TokensApart DEF LineEnds
  <2>3. QED
    BY <2>2 DEF Lined
<1>13. QED
  BY <1>2, <1>8, <1>9, <1>10, <1>12, <1>14 DEF B

(***************************************************************************)
(* A text whose elements are replaced one by one.                          *)
(***************************************************************************)
LEMMA Overlaid ==
  ASSUME NEW text, Framed(text), Apart(text), NEW new,
         \A i \in ElementAt(text) : new[i] \notin Punctuation
  PROVE  /\ Framed(Overlay(text, new)) /\ Apart(Overlay(text, new)) /\ Len(Overlay(text, new)) = Len(text)
         /\ ElementAt(Overlay(text, new)) = ElementAt(text)
         /\ \A i \in 1..Len(text) :
              Overlay(text, new)[i] = IF i \in ElementAt(text) THEN new[i] ELSE text[i]
<1> DEFINE n == Len(text)
           M == Overlay(text, new)
           E == ElementAt(text)
           v(i) == IF i \in E THEN new[i] ELSE text[i]
           T == {v(i) : i \in 1..n}
<1>1. /\ n \in Nat /\ n > 1 /\ DOMAIN text = 1..n /\ text[1] = Open /\ text[n] = Close
      /\ \A i \in 2..(n - 1) : text[i] \notin {Open, Close}
  BY RangeOfSeq DEF Framed
<1>2. E \in SUBSET (1..n) /\ \A i \in 1..n : i \in E <=> text[i] \notin Punctuation
  BY DEF ElementAt
<1> HIDE DEF E, n
<1>5. M = [i \in 1..n |-> v(i)]
  BY DEF Overlay, n, E
<1> HIDE DEF M, v
<1>6. M \in [1..n -> T] /\ \A i \in 1..n : M[i] = v(i)
  BY <1>5
<1> HIDE DEF T
<1>7. M \in Seq(T) /\ Len(M) = n
  BY <1>1, <1>6
<1>8. M \in Seq(Range(M))
  BY <1>7, SeqOfOwnRange
<1>9. \A i \in E : new[i] \notin Punctuation
  BY DEF E
<1>10. \A i \in 1..n : /\ i \in E => M[i] = new[i] /\ M[i] \notin Punctuation
                       /\ i \notin E => M[i] = text[i] /\ M[i] \in Punctuation
  BY <1>2, <1>6, <1>9 DEF v
<1>11. ElementAt(M) = E
  BY <1>2, <1>7, <1>10 DEF ElementAt
<1>12. Open \in Punctuation /\ Close \in Punctuation /\ Comma \in Punctuation
  BY DEF Punctuation
<1>13. Framed(M)
  <2>1. 1 \notin E /\ n \notin E /\ 1 \in 1..n /\ n \in 1..n
    BY <1>1, <1>2, <1>12
  <2>2. M[1] = Open /\ M[n] = Close
    BY <1>1, <1>10, <2>1
  <2>3. \A i \in 2..(n - 1) : M[i] \notin {Open, Close}
    <3>1. \A i \in 2..(n - 1) : i \in 1..n
      BY <1>1
    <3>2. QED
      BY <1>1, <1>10, <1>12, <3>1
  <2>4. QED
    BY <1>1, <1>7, <1>8, <2>2, <2>3 DEF Framed
<1>14. Apart(M)
  <2>1. ASSUME NEW i \in E, NEW j \in E, i < j
        PROVE  \E c \in i..j : M[c] = Comma
    <3>1. PICK c \in i..j : text[c] = Comma
      BY <2>1 DEF Apart, E
    <3>2. c \in 1..n
      BY <1>1, <1>2
    <3>3. c \notin E
      BY <1>2, <1>12, <3>1, <3>2
    <3>4. QED
      BY <1>10, <3>1, <3>2, <3>3
  <2>2. QED
    BY <1>11, <2>1 DEF Apart
<1>15. QED
  BY <1>7, <1>10, <1>11, <1>13, <1>14 DEF M, E, n

LEMMA PlanCarriesOver ==
  ASSUME NEW text, Framed(text), Apart(text), NEW new,
         \A i \in ElementAt(text) : new[i] \notin Punctuation,
         NEW edits, NEW p, NEW w, Plan(text, edits, p, w)
  PROVE  Plan(Overlay(text, new), edits, p, w)
<1> DEFINE M == Overlay(text, new)
<1>1. /\ Len(M) = Len(text) /\ ElementAt(M) = ElementAt(text)
      /\ \A i \in 1..Len(text) : M[i] = IF i \in ElementAt(text) THEN new[i] ELSE text[i]
  BY Overlaid
<1>2. Len(text) \in Nat
  BY RangeOfSeq DEF Framed
<1> HIDE DEF M
<1>3. Within(M, edits) /\ Puts(M, edits, p, w) /\ Fits(M, edits, p, w)
  BY <1>1 DEF Plan, Within, Puts, Fits
<1>4. \A c \in 1..Len(text) : text[c] = Comma => M[c] = Comma
  BY <1>1 DEF ElementAt, Punctuation
<1>5. CommasStay(M, edits)
  <2>1. ASSUME NEW i \in ElementAt(text), NEW j \in ElementAt(text), i < j, Kept(edits, i), Kept(edits, j)
        PROVE  \E c \in i..j : M[c] = Comma /\ Kept(edits, c)
    <3>1. PICK c \in i..j : text[c] = Comma /\ Kept(edits, c)
      BY <2>1 DEF Plan, CommasStay
    <3>2. c \in 1..Len(text)
      BY <1>2 DEF ElementAt
    <3>3. QED
      BY <1>4, <3>1, <3>2
  <2>2. QED
    BY <1>1, <2>1 DEF CommasStay
<1>6. QED
  BY <1>3, <1>5 DEF Plan, M

LEMMA TidyCarriesOver ==
  ASSUME NEW text, Framed(text), Apart(text), Lined(text), NEW new,
         \A i \in ElementAt(text) : new[i] \notin Punctuation
  PROVE  LET M == Overlay(text, new) IN
         /\ Lined(M)
         /\ \A edits, p, w : p \in 1..(Len(text) - 1) /\ Tidy(text, edits, p, w) => Tidy(M, edits, p, w)
         /\ \A edits, p, w, x : p \in 1..(Len(text) - 1) /\ Shown(text, edits, p, w, x) => Shown(M, edits, p, w, x)
<1> DEFINE M == Overlay(text, new)
           n == Len(text)
<1>1. /\ Len(M) = n /\ ElementAt(M) = ElementAt(text)
      /\ \A i \in 1..n : M[i] = IF i \in ElementAt(text) THEN new[i] ELSE text[i]
  BY Overlaid
<1>2. n \in Nat /\ n > 1 /\ text[1] = Open /\ text[n] = Close
  BY RangeOfSeq DEF Framed
<1>3. \A i \in 1..n : \A t \in Punctuation : M[i] = t <=> text[i] = t
  BY <1>1 DEF ElementAt
<1> HIDE DEF M
<1>4. {Comma, Slashes} \cup LineEnds \subseteq Punctuation /\ CommaBreak \in Punctuation
  BY DEF Punctuation, Trivia, LineEnds
<1>5. \A i \in 1..n : /\ M[i] = Slashes <=> text[i] = Slashes
                      /\ M[i] = Comma <=> text[i] = Comma
                      /\ M[i] = CommaBreak <=> text[i] = CommaBreak
                      /\ M[i] \in LineEnds <=> text[i] \in LineEnds
  BY <1>3, <1>4
<1>6. Lined(M)
  <2>1. ASSUME NEW i \in 1..n, M[i] = Slashes
        PROVE  M[i + 1] \in LineEnds
    <3>1. text[i + 1] \in LineEnds /\ i # n
      BY <1>2, <1>5, <2>1, TokensApart DEF Lined
    <3>2. i + 1 \in 1..n
      BY <1>2, <3>1
    <3>3. QED
      BY <1>5, <3>1, <3>2
  <2>2. ASSUME NEW i \in 1..n, M[i] = CommaBreak
        PROVE  M[i - 1] = Slashes
    <3>1. text[i - 1] = Slashes /\ i # 1
      BY <1>2, <1>5, <2>2, TokensApart DEF Lined, LineEnds
    <3>2. i - 1 \in 1..n
      BY <1>2, <3>1
    <3>3. QED
      BY <1>5, <3>1, <3>2
  <2>3. QED
    BY <1>1, <2>1, <2>2 DEF Lined
<1>7. ASSUME NEW edits, NEW p, NEW w, p \in 1..(n - 1), Tidy(text, edits, p, w)
      PROVE  Tidy(M, edits, p, w)
  <2>1. p \in 1..n
    BY <1>2, <1>7
  <2>2. \A k \in ElementAt(text) : \A i \in 1..n : \A c \in k..i : c \in 1..n
    BY <1>2 DEF ElementAt
  <2>3. CommentsStay(text, edits)
    BY <1>7 DEF Tidy
  <2>4. ASSUME NEW i \in 1..n, Kept(edits, i)
        PROVE  /\ M[i] = CommaBreak => Kept(edits, i - 1)
               /\ M[i] = Slashes =>
                    \/ Kept(edits, i + 1)
                    \/ \A k \in ElementAt(text) : k < i /\ Kept(edits, k) =>
                         \E c \in k..i : M[c] = Comma /\ Kept(edits, c)
    BY <1>5, <2>2, <2>3, <2>4 DEF CommentsStay
  <2>5. CommentsStay(M, edits)
    BY <1>1, <2>4 DEF CommentsStay
  <2>6. QED
    BY <1>5, <1>7, <2>1, <2>5 DEF Tidy
<1>8. ASSUME NEW edits, NEW p, NEW w, NEW x, p \in 1..(n - 1), Shown(text, edits, p, w, x)
      PROVE  Shown(M, edits, p, w, x)
  <2>1. \A c \in 1..p : c \in 1..n
    BY <1>2, <1>8
  <2>2. QED
    BY <1>5, <1>8, <2>1 DEF Shown
<1>9. QED
  BY <1>6, <1>7, <1>8 DEF M

(***************************************************************************)
(* The texts of a file.                                                    *)
(***************************************************************************)
GroupSound(group) ==
  HasHandlers(group) =>
    /\ group = [matcher |-> group.matcher, handlers |-> group.handlers]
    /\ Framed(group.handlers) /\ Apart(group.handlers) /\ Lined(group.handlers)
ArraySound(array) ==
  array # Junk => Framed(array) /\ Apart(array) /\ Lined(array) /\ \A i \in ElementAt(array) : GroupSound(array[i])
PropertySound(property) ==
  property = Property(property.event, property.value) /\ ArraySound(property.value)
ObjectSound(text) ==
  Framed(text) /\ Apart(text) /\ \A i \in ElementAt(text) : PropertySound(text[i])

\* What the parser takes of a group, and of a property.
GroupReads(group) == HasHandlers(group) => Parses(group.handlers)
PropertyParses(property) ==
  property.value # Junk =>
    Parses(property.value) /\ \A g \in ElementAt(property.value) : GroupReads(property.value[g])

LEMMA EditedGroupSound ==
  ASSUME NEW event, NEW array, NEW wanted \in BOOLEAN, NEW i \in ElementAt(array), GroupSound(array[i])
  PROVE  LET g == EditedGroup(event, array, wanted, i)
         IN g \notin Punctuation /\ (GroupReads(g) => GroupSound(g))
<1>1. array[i] \notin Punctuation
  BY DEF ElementAt
<1>2. CASE ~ HasHandlers(array[i]) \/ i \in Emptied(event, array, wanted)
  BY <1>1, <1>2 DEF EditedGroup
<1>3. CASE ~ (~ HasHandlers(array[i]) \/ i \in Emptied(event, array, wanted))
  <2> DEFINE g == array[i]
             edits == HandlerEdits(event, g, i = TargetGroup(array, wanted))
             spliced == Spliced(g.handlers, edits)
             new == Lexed(spliced)
  <2>1. /\ HasHandlers(g) /\ g = [matcher |-> g.matcher, handlers |-> g.handlers]
        /\ Framed(g.handlers) /\ Apart(g.handlers) /\ Lined(g.handlers)
    BY <1>3 DEF GroupSound
  <2>2. EditedGroup(event, array, wanted, i) = [g EXCEPT !.handlers = new]
    BY <1>3 DEF EditedGroup
  <2>3. Parses(new) => Framed(new) /\ Apart(new) /\ Lined(new)
    <3>1. PICK p, w : Plan(g.handlers, edits, p, w) /\ Tidy(g.handlers, edits, p, w)
      <4>1. (i = TargetGroup(array, wanted)) \in BOOLEAN
        OBVIOUS
      <4>2. QED
        BY <2>1, <4>1, HandlerPlan
    <3> HIDE DEF g, edits
    <3>2. Framed(spliced) /\ Apart(spliced) /\ CommentsEnd(spliced)
      BY <2>1, <3>1, SpliceSound, SpliceEnded DEF Plan
    <3> HIDE DEF spliced
    <3>3. QED
      BY <3>2, LexedSound
  <2> HIDE DEF g, new
  <2>4. [g EXCEPT !.handlers = new] = [matcher |-> g.matcher, handlers |-> new]
    BY <2>1
  <2>5. [matcher |-> g.matcher, handlers |-> new] \notin Punctuation
    BY DEF Punctuation, Trivia, LineEnds, Open, Close, Comma, Note, Slashes, Break, CommaBreak
  <2> DEFINE made == [matcher |-> g.matcher, handlers |-> new]
  <2>6. GroupReads(made) => GroupSound(made)
    <3>1. made.handlers = new /\ made.matcher = g.matcher
      OBVIOUS
    <3>2. made = [matcher |-> made.matcher, handlers |-> made.handlers]
      OBVIOUS
    <3> HIDE DEF made
    <3>3. QED
      BY <2>3, <3>1, <3>2 DEF GroupSound, GroupReads
  <2>7. QED
    BY <2>2, <2>4, <2>5, <2>6
<1>4. QED
  BY <1>2, <1>3

LEMMA OneInBrackets ==
  ASSUME NEW x, x \notin Punctuation
  PROVE  /\ Framed(Bare(<<x>>)) /\ Apart(Bare(<<x>>)) /\ Parses(Bare(<<x>>)) /\ Lined(Bare(<<x>>))
         /\ \A q \in ElementAt(Bare(<<x>>)) : Bare(<<x>>)[q] = x
<1> DEFINE xs == <<x>>
<1>1. xs \in Seq({x}) /\ Len(xs) = 1 /\ xs[1] = x
  OBVIOUS
<1>2. xs \in Seq(Range(xs))
  BY <1>1, SeqOfOwnRange
<1> HIDE DEF xs
<1>3. \A i \in 1..Len(xs) : xs[i] = x
  BY <1>1
<1>4. \A i \in 1..Len(xs) : xs[i] \notin Punctuation
  BY <1>3
<1>5. /\ Framed(Bare(xs)) /\ Apart(Bare(xs)) /\ Parses(Bare(xs)) /\ Lined(Bare(xs))
      /\ \A q \in ElementAt(Bare(xs)) : \E i \in 1..Len(xs) : Bare(xs)[q] = xs[i]
  BY <1>2, <1>4, BareSound
<1>6. QED
  BY <1>3, <1>5 DEF xs

LEMMA OwnGroupSound ==
  ASSUME NEW event
  PROVE  /\ GroupSound(OwnGroup(event))
         /\ OwnGroup(event).handlers = Bare(<<Canonical(event)>>) /\ Parses(OwnGroup(event).handlers)
<1>1. OwnGroup(event) = [matcher |-> Blank, handlers |-> Bare(<<Canonical(event)>>)]
  BY DEF OwnGroup
<1>2. /\ Framed(Bare(<<Canonical(event)>>)) /\ Apart(Bare(<<Canonical(event)>>))
      /\ Parses(Bare(<<Canonical(event)>>)) /\ Lined(Bare(<<Canonical(event)>>))
  BY NewElements, OneInBrackets
<1> DEFINE B == Bare(<<Canonical(event)>>)
<1> HIDE DEF B
<1>3. OwnGroup(event) = [matcher |-> Blank, handlers |-> B] /\ Framed(B) /\ Apart(B) /\ Parses(B) /\ Lined(B)
  BY <1>1, <1>2 DEF B
<1>4. QED
  BY <1>3 DEF GroupSound, B

LEMMA PlannedSound ==
  ASSUME NEW event, NEW array, array # Junk, NEW wanted \in BOOLEAN, ArraySound(array)
  PROVE  LET R == Planned(event, array, wanted) IN
         Parses(R) /\ (\A i \in ElementAt(R) : GroupReads(R[i])) => ArraySound(R)
<1> DEFINE new == [i \in ElementAt(array) |-> EditedGroup(event, array, wanted, i)]
           M == Overlay(array, new)
           edits == GroupEdits(event, array, wanted)
           S == Spliced(M, edits)
           R == Lexed(S)
<1>1. Framed(array) /\ Apart(array) /\ Lined(array) /\ \A i \in ElementAt(array) : GroupSound(array[i])
  BY DEF ArraySound
<1>2. \A i \in ElementAt(array) : new[i] \notin Punctuation /\ (GroupReads(new[i]) => GroupSound(new[i]))
  BY <1>1, EditedGroupSound
<1>3. Planned(event, array, wanted) = R
  BY DEF Planned, SplicedArray
<1> HIDE DEF new
<1>4. /\ Framed(M) /\ Apart(M) /\ Len(M) = Len(array) /\ ElementAt(M) = ElementAt(array)
      /\ \A i \in 1..Len(array) : M[i] = IF i \in ElementAt(array) THEN new[i] ELSE array[i]
  BY <1>1, <1>2, Overlaid
<1>5. PICK p, w : /\ Plan(array, edits, p, w) /\ Tidy(array, edits, p, w)
                  /\ \A k \in ElementAt(w) : w[k] = OwnGroup(event)
  BY <1>1, GroupPlan
<1>6. Plan(M, edits, p, w)
  BY <1>1, <1>2, <1>5, PlanCarriesOver
<1>12. Lined(M) /\ Tidy(M, edits, p, w)
  <2>1. p \in 1..(Len(array) - 1)
    BY <1>5 DEF Plan, Puts
  <2>2. QED
    BY <1>1, <1>2, <1>5, <2>1, TidyCarriesOver
<1> HIDE DEF M, edits
<1>7. /\ Framed(S) /\ Apart(S) /\ CommentsEnd(S)
      /\ \A q \in ElementAt(S) : \/ \E i \in ElementAt(M) : S[q] = M[i]
                                 \/ \E k \in ElementAt(w) : S[q] = w[k]
  BY <1>4, <1>6, <1>12, SpliceSound, SpliceEnded DEF Plan
<1>8. \A i \in ElementAt(M) : GroupReads(M[i]) => GroupSound(M[i])
  <2>1. \A i \in ElementAt(array) : i \in 1..Len(array)
    BY DEF ElementAt
  <2>2. QED
    BY <1>2, <1>4, <2>1
<1>9. GroupSound(OwnGroup(event))
  BY OwnGroupSound
<1> HIDE DEF S
<1>10. ASSUME Parses(R)
       PROVE  /\ Framed(R) /\ Apart(R) /\ Lined(R)
              /\ \A q \in ElementAt(R) : GroupReads(R[q]) => GroupSound(R[q])
  <2>1. /\ Framed(R) /\ Apart(R) /\ Lined(R)
        /\ \A q \in ElementAt(R) : \E i \in ElementAt(S) : R[q] = S[i]
    BY <1>7, <1>10, LexedSound
  <2> HIDE DEF R
  <2>2. QED
    BY <1>5, <1>7, <1>8, <1>9, <2>1
<1> HIDE DEF R
<1>11. QED
  BY <1>3, <1>10 DEF ArraySound

LEMMA PatchedPropertySound ==
  ASSUME NEW property, PropertySound(property), NEW wanted
  PROVE  LET p == PatchedProperty(property, wanted) IN
         p \notin Punctuation /\ (PropertyParses(p) => PropertySound(p))
<1>1. property = Property(property.event, property.value) /\ ArraySound(property.value)
  BY DEF PropertySound
<1>2. property \notin Punctuation
  BY <1>1, NewElements
<1>3. CASE property.value = Junk
  BY <1>2, <1>3 DEF PatchedProperty
<1>4. CASE property.value # Junk
  <2> DEFINE R == Planned(property.event, property.value, property.event \in wanted)
  <2>1. Parses(R) /\ (\A i \in ElementAt(R) : GroupReads(R[i])) => ArraySound(R)
    <3>1. (property.event \in wanted) \in BOOLEAN
      OBVIOUS
    <3>2. QED
      BY <1>1, <1>4, <3>1, PlannedSound
  <2>2. PatchedProperty(property, wanted) = [property EXCEPT !.value = R]
    BY <1>4 DEF PatchedProperty
  <2> HIDE DEF R
  <2>3. [property EXCEPT !.value = R] = Property(property.event, R)
    BY <1>1 DEF Property
  <2> DEFINE made == Property(property.event, R)
  <2>4. made \notin Punctuation
    BY NewElements
  <2>5. PropertyParses(made) => PropertySound(made)
    <3>1. made.event = property.event /\ made.value = R /\ made = Property(made.event, made.value)
      BY DEF Property
    <3> HIDE DEF made
    <3>2. QED
      BY <2>1, <3>1 DEF PropertySound, PropertyParses, ArraySound
  <2>6. QED
    BY <2>2, <2>3, <2>4, <2>5
<1>5. QED
  BY <1>3, <1>4

LEMMA FreshProperty ==
  ASSUME NEW e
  PROVE  LET f == Property(e, Bare(<<OwnGroup(e)>>)) IN
         f \notin Punctuation /\ PropertySound(f) /\ PropertyParses(f)
<1> DEFINE B == Bare(<<OwnGroup(e)>>)
           f == Property(e, B)
<1>1. /\ Framed(B) /\ Apart(B) /\ Parses(B) /\ Lined(B)
      /\ \A q \in ElementAt(B) : B[q] = OwnGroup(e)
  BY NewElements, OneInBrackets
<1> HIDE DEF B
<1>2. f.event = e /\ f.value = B /\ f = Property(f.event, f.value) /\ f \notin Punctuation
  BY NewElements DEF Property
<1>3. GroupSound(OwnGroup(e)) /\ Parses(OwnGroup(e).handlers)
  BY OwnGroupSound
<1>4. ArraySound(B)
  BY <1>1, <1>3 DEF ArraySound
<1> HIDE DEF f
<1>5. PropertySound(f) /\ PropertyParses(f)
  BY <1>1, <1>2, <1>3, <1>4 DEF PropertySound, PropertyParses, GroupReads
<1>6. QED
  BY <1>2, <1>5 DEF f, B

Fresh(e) == Property(e, Bare(<<OwnGroup(e)>>))

LEMMA FreshSound ==
  ASSUME NEW wanted \in SUBSET HookEvents
  PROVE  LET fresh == FreshProperties(wanted) IN
         /\ fresh \in Seq(Range(fresh)) /\ Len(fresh) \in Nat
         /\ \A i \in 1..Len(fresh) :
              fresh[i] \notin Punctuation /\ PropertySound(fresh[i]) /\ PropertyParses(fresh[i])
         /\ \A i \in 1..Len(fresh) : \E e \in wanted : fresh[i] = Fresh(e)
         /\ \A e \in wanted : \E i \in 1..Len(fresh) : fresh[i] = Fresh(e)
<1> DEFINE n == Len(EventOrder)
           T == {Fresh(e) : e \in wanted}
           parts == [i \in 1..n |-> IF EventOrder[i] \in wanted THEN <<Fresh(EventOrder[i])>> ELSE <<>>]
           fresh == FreshProperties(wanted)
<1>1. /\ n \in Nat /\ DOMAIN EventOrder = 1..n
      /\ \A e \in wanted : \E i \in 1..n : EventOrder[i] = e
  BY HookFileAssumption DEF Range
<1>2. fresh = Joined(parts)
  BY <1>1 DEF FreshProperties, Fresh
<1> HIDE DEF fresh
<1>3. /\ parts \in Seq(Seq(T)) /\ Len(parts) = n
      /\ \A i \in 1..n : EventOrder[i] \in wanted => parts[i] = <<Fresh(EventOrder[i])>>
  <2>1. \A i \in 1..n : EventOrder[i] \in wanted => Fresh(EventOrder[i]) \in T
    OBVIOUS
  <2> HIDE DEF T
  <2>2. \A i \in 1..n : parts[i] \in Seq(T)
    BY <2>1
  <2>3. parts \in Seq(Seq(T)) /\ Len(parts) = n
    BY <1>1, <2>2
  <2>4. QED
    BY <2>3
<1> HIDE DEF parts, T
<1>4. fresh \in Seq(T)
  BY <1>2, <1>3, JoinedLaid
<1>5. PICK at : Laid(parts, fresh, at)
  BY <1>2, <1>3, JoinedLaid
<1>6. /\ fresh \in Seq(Range(fresh)) /\ Len(fresh) \in Nat
      /\ \A i \in 1..Len(fresh) : fresh[i] \in T
  BY <1>4, SeqOfOwnRange
<1>7. \A i \in 1..Len(fresh) : \E e \in wanted : fresh[i] = Fresh(e)
  BY <1>6 DEF T
<1>8. \A e : Fresh(e) \notin Punctuation /\ PropertySound(Fresh(e)) /\ PropertyParses(Fresh(e))
  BY FreshProperty DEF Fresh
<1>9. ASSUME NEW e \in wanted
      PROVE  \E i \in 1..Len(fresh) : fresh[i] = Fresh(e)
  <2>1. PICK i \in 1..n : EventOrder[i] = e
    BY <1>1
  <2>2. parts[i] = <<Fresh(e)>>
    BY <1>3, <2>1
  <2>3. Len(parts[i]) = 1 /\ parts[i][1] = Fresh(e)
    BY <2>2
  <2>4. /\ at[i] \in Nat /\ at[i + 1] \in Nat /\ at[i + 1] = at[i] + Len(parts[i])
        /\ at[i + 1] <= at[n + 1] /\ at[n + 1] = Len(fresh)
        /\ \A k \in 1..Len(parts[i]) : fresh[at[i] + k] = parts[i][k]
    <3>1. i \in 1..n /\ i \in 1..(n + 1) /\ i + 1 \in 1..(n + 1) /\ n + 1 \in 1..(n + 1) /\ i + 1 <= n + 1
      BY <1>1, <2>1
    <3>2. QED
      BY <1>3, <1>5, <3>1 DEF Laid
  <2>5. at[i] + 1 \in 1..Len(fresh) /\ fresh[at[i] + 1] = Fresh(e)
    BY <2>3, <2>4
  <2>6. QED
    BY <2>5
<1>10. QED
  BY <1>6, <1>7, <1>8, <1>9 DEF fresh

\* A comma and a list, to go behind an element.
LEMMA ListedBehind ==
  ASSUME NEW xs, xs \in Seq(Range(xs)), \A i \in 1..Len(xs) : xs[i] \notin Punctuation
  PROVE  LET w == <<Comma>> \o Listed(xs) IN
         /\ w \in Seq(Range(w)) /\ Len(w) > 0 /\ w[1] = Comma /\ Apart(w)
         /\ \A k \in 1..Len(w) : w[k] \notin {Open, Close}
         /\ \A k \in ElementAt(w) : \E i \in 1..Len(xs) : w[k] = xs[i]
<1> DEFINE L == Listed(xs)
           m == Len(L)
           o == <<Comma>>
           w == o \o L
           T == Range(L) \cup {Comma}
<1>1. L \in Seq(Range(L)) /\ m \in Nat
  BY ListedSound
<1>2. /\ Apart(L) /\ \A k \in 1..m : L[k] \notin {Open, Close}
      /\ \A k \in ElementAt(L) : \E i \in 1..Len(xs) : L[k] = xs[i]
  BY ListedApart
<1> HIDE DEF L, m
<1>3. L \in Seq(T) /\ o \in Seq(T) /\ Len(o) = 1 /\ o[1] = Comma /\ Len(L) = m /\ 1 \in 1..1
  BY <1>1 DEF m
<1> HIDE DEF o, T
<1>4. /\ w \in Seq(T) /\ Len(w) = Len(o) + Len(L)
      /\ \A k \in 1..Len(o) : w[k] = o[k]
      /\ \A k \in 1..Len(L) : w[Len(o) + k] = L[k]
  <2>1. o \in Seq(T) /\ L \in Seq(T)
    BY <1>3
  <2>2. QED
    BY ONLY <2>1, Concatenated
<1>5. w \in Seq(Range(w))
  BY <1>4, SeqOfOwnRange
<1> HIDE DEF w
<1>6. Len(w) = 1 + m /\ w[1] = Comma /\ \A k \in 1..m : w[1 + k] = L[k]
  BY <1>3, <1>4
<1>7. \A k \in 1..Len(w) : k = 1 \/ (k - 1 \in 1..m /\ w[k] = L[k - 1])
  <2>1. ASSUME NEW k \in 1..Len(w), k # 1
        PROVE  k - 1 \in 1..m /\ w[k] = L[k - 1]
    <3>1. k - 1 \in 1..m /\ 1 + (k - 1) = k
      BY <1>1, <1>6, <2>1
    <3>2. QED
      BY <1>6, <3>1
  <2>2. QED
    BY <2>1
<1>8. Comma \in Punctuation /\ Comma \notin {Open, Close}
  BY TokensApart
<1>9. ASSUME NEW k \in ElementAt(w)
      PROVE  k - 1 \in ElementAt(L) /\ k - 1 \in 1..m /\ w[k] = L[k - 1] /\ k \in 1..Len(w)
  <2>1. k \in 1..Len(w) /\ w[k] \notin Punctuation
    BY DEF ElementAt
  <2>2. k - 1 \in 1..m /\ w[k] = L[k - 1]
    BY <1>6, <1>7, <1>8, <2>1
  <2>3. QED
    BY <2>1, <2>2 DEF ElementAt, m
<1>10. Apart(w)
  <2>1. ASSUME NEW a \in ElementAt(w), NEW b \in ElementAt(w), a < b
        PROVE  \E c \in a..b : w[c] = Comma
    <3>1. a \in 1..Len(w) /\ b \in 1..Len(w) /\ a - 1 \in ElementAt(L) /\ b - 1 \in ElementAt(L) /\ a - 1 < b - 1
      BY <1>1, <1>6, <1>9, <2>1
    <3>2. PICK c \in (a - 1)..(b - 1) : L[c] = Comma
      BY <1>2, <3>1 DEF Apart
    <3>3. c \in 1..m /\ 1 + c \in a..b
      BY <1>1, <1>6, <1>9, <3>1
    <3>4. QED
      BY <1>6, <3>2, <3>3
  <2>2. QED
    BY <2>1 DEF Apart
<1>11. \A k \in 1..Len(w) : w[k] \notin {Open, Close}
  BY <1>2, <1>6, <1>7, <1>8
<1>12. Len(w) > 0
  BY <1>1, <1>6
<1>13. QED
  BY <1>2, <1>5, <1>6, <1>9, <1>10, <1>11, <1>12 DEF w, o, L

LEMMA NewPropertiesPlan ==
  ASSUME NEW text, Framed(text), Apart(text), NEW wanted \in SUBSET HookEvents
  PROVE  \E p, w : /\ Plan(text, NewProperties(text, wanted), p, w)
                   /\ \A k \in ElementAt(w) : PropertySound(w[k])
<1> DEFINE fresh == FreshProperties(wanted \ Named(text))
           last == ElementAt(text)
           L == Listed(fresh)
           none == {}
<1>1. /\ fresh \in Seq(Range(fresh)) /\ Len(fresh) \in Nat
      /\ \A i \in 1..Len(fresh) : fresh[i] \notin Punctuation /\ PropertySound(fresh[i])
  <2>1. wanted \ Named(text) \in SUBSET HookEvents
    OBVIOUS
  <2>2. QED
    BY <2>1, FreshSound
<1>2. NewProperties(text, wanted) =
        IF fresh = <<>> THEN {}
        ELSE IF last = {} THEN {Edit(1, 1, L)}
        ELSE {Edit(Max(last), Max(last), <<Comma>> \o L)}
  BY DEF NewProperties
<1> HIDE DEF fresh
<1>3. Len(text) \in Nat /\ Len(text) > 1 /\ \A i \in last : i \in Nat /\ 2 <= i /\ i < Len(text)
  <2>1. Len(text) \in Nat /\ Len(text) > 1
    BY RangeOfSeq DEF Framed
  <2>2. QED
    BY <2>1, ElementWithin
<1>4. DeleteRuns(text, none) = {} /\ none \in SUBSET ElementAt(text)
  BY DEF DeleteRuns, RunStarts
<1>5. CASE fresh = <<>>
  <2>1. Within(text, {}) /\ CommasStay(text, {})
    BY <1>4, RunsDeleted
  <2>2. Puts(text, {}, 1, <<>>) /\ Fits(text, {}, 1, <<>>)
    <3>1. \A d \in {} : d.with = <<>>
      OBVIOUS
    <3>2. QED
      BY <3>1, PutsNothing
  <2>3. ElementAt(<<>>) = {}
    BY DEF ElementAt
  <2>4. NewProperties(text, wanted) = {}
    BY <1>2, <1>5
  <2>5. QED
    BY <2>1, <2>2, <2>3, <2>4 DEF Plan
<1>6. CASE fresh # <<>> /\ last = {}
  <2>1. L \in Seq(Range(L)) /\ Len(L) > 0
    <3>1. Len(fresh) > 0
      BY <1>1, <1>6
    <3>2. QED
      BY <1>1, <3>1, ListedSound
  <2>2. /\ Apart(L) /\ \A k \in 1..Len(L) : L[k] \notin {Open, Close}
        /\ \A k \in ElementAt(L) : \E i \in 1..Len(fresh) : L[k] = fresh[i]
    BY <1>1, ListedApart
  <2> HIDE DEF L
  <2>3. Plan(text, DeleteRuns(text, none) \cup {Edit(1, 1, L)}, 1, L)
    <3>1. \A i \in ElementAt(text) : i \notin none => i <= 1 /\ L[1] = Comma
      BY <1>6
    <3>2. 1 \in 1..(Len(text) - 1)
      BY <1>3
    <3> HIDE DEF none
    <3>3. QED
      BY <1>4, <2>1, <2>2, <3>1, <3>2, PutBesideRuns
  <2>4. NewProperties(text, wanted) = DeleteRuns(text, none) \cup {Edit(1, 1, L)}
    BY <1>2, <1>4, <1>6
  <2>5. QED
    BY <1>1, <2>2, <2>3, <2>4
<1>7. CASE fresh # <<>> /\ last # {}
  <2> DEFINE w == <<Comma>> \o L
             p == Max(last)
  <2>1. /\ w \in Seq(Range(w)) /\ Len(w) > 0 /\ w[1] = Comma /\ Apart(w)
        /\ \A k \in 1..Len(w) : w[k] \notin {Open, Close}
        /\ \A k \in ElementAt(w) : \E i \in 1..Len(fresh) : w[k] = fresh[i]
    BY <1>1, ListedBehind
  <2>2. p \in last /\ \A i \in last : i <= p
    <3>1. last \in SUBSET Nat /\ \A i \in last : i <= Len(text)
      BY <1>3
    <3> HIDE DEF last
    <3>2. QED
      BY <1>3, <1>7, <3>1, GreatestExists
  <2>3. NewProperties(text, wanted) = DeleteRuns(text, none) \cup {Edit(p, p, w)}
    BY <1>2, <1>4, <1>7
  <2> HIDE DEF w, p
  <2>4. Plan(text, DeleteRuns(text, none) \cup {Edit(p, p, w)}, p, w)
    <3>1. \A i \in ElementAt(text) : i \notin none => i <= p /\ w[1] = Comma
      BY <2>1, <2>2
    <3>2. p \in 1..(Len(text) - 1)
      BY <1>3, <2>2
    <3> HIDE DEF none
    <3>3. QED
      BY <1>4, <2>1, <3>1, <3>2, PutBesideRuns
  <2>5. QED
    BY <1>1, <2>1, <2>3, <2>4
<1>8. QED
  BY <1>5, <1>6, <1>7

(***************************************************************************)
(* The file.                                                               *)
(***************************************************************************)
FileSound(text) == text \notin NoText => ObjectSound(text)
Reads(text) == Parses(text) /\ \A i \in ElementAt(text) : PropertyParses(text[i])
FileParses(text) == text \notin NoText => Reads(text)

LEMMA FileParts ==
  ASSUME NEW text
  PROVE  FileShape(text) /\ SeparatedFile(text) <=> FileSound(text) /\ FileParses(text)
<1>1. CASE text \in NoText
  BY <1>1 DEF FileShape, SeparatedFile, AllTexts, FileSound, FileParses
<1>2. CASE text \notin NoText
  <2> DEFINE At(p) == LET array == text[p].value IN
               IF array = Junk THEN {}
               ELSE {array} \cup {array[g].handlers : g \in {k \in ElementAt(array) : HasHandlers(array[k])}}
             All == {text} \cup UNION {At(p) : p \in ElementAt(text)}
  <2>1. AllTexts(text) = All
    BY <1>2 DEF AllTexts
  <2>2. ASSUME SeparatedFile(text)
        PROVE  /\ Separated(text)
               /\ \A p \in ElementAt(text) : text[p].value # Junk =>
                    /\ Separated(text[p].value)
                    /\ \A g \in ElementAt(text[p].value) :
                         HasHandlers(text[p].value[g]) => Separated(text[p].value[g].handlers)
    <3>1. \A t \in All : Separated(t)
      BY <2>1, <2>2 DEF SeparatedFile
    <3>2. \A p \in ElementAt(text) : \A t \in At(p) : Separated(t)
      BY <3>1
    <3>3. QED
      BY <3>1, <3>2
  <2>3. ASSUME /\ Separated(text)
               /\ \A p \in ElementAt(text) : text[p].value # Junk =>
                    /\ Separated(text[p].value)
                    /\ \A g \in ElementAt(text[p].value) :
                         HasHandlers(text[p].value[g]) => Separated(text[p].value[g].handlers)
        PROVE  SeparatedFile(text)
    <3>1. ASSUME NEW p \in ElementAt(text), NEW t \in At(p)
          PROVE  Separated(t)
      BY <2>3, <3>1
    <3>2. \A t \in All : Separated(t)
      BY <2>3, <3>1
    <3>3. QED
      BY <2>1, <3>2 DEF SeparatedFile
  <2> HIDE DEF At, All
  <2>4. ASSUME FileShape(text), SeparatedFile(text)
        PROVE  FileSound(text) /\ FileParses(text)
    <3>1. Framed(text) /\ Apart(text) /\ Parses(text)
      BY <1>2, <2>2, <2>4 DEF FileShape, Separated
    <3>2. ASSUME NEW p \in ElementAt(text)
          PROVE  PropertySound(text[p]) /\ PropertyParses(text[p])
      <4>1. text[p] = Property(text[p].event, text[p].value) /\ ArrayShape(text[p].value)
        BY <1>2, <2>4 DEF FileShape
      <4>2. text[p].value # Junk =>
              /\ Separated(text[p].value)
              /\ \A g \in ElementAt(text[p].value) :
                   HasHandlers(text[p].value[g]) => Separated(text[p].value[g].handlers)
        BY <2>2, <2>4
      <4>3. ArraySound(text[p].value)
        BY <4>1, <4>2 DEF ArrayShape, ArraySound, GroupShape, GroupSound, Separated
      <4>4. PropertyParses(text[p])
        BY <4>2 DEF PropertyParses, GroupReads, Separated
      <4>5. QED
        BY <4>1, <4>3, <4>4 DEF PropertySound
    <3>3. QED
      BY <3>1, <3>2 DEF FileSound, FileParses, Reads, ObjectSound
  <2>5. ASSUME FileSound(text), FileParses(text)
        PROVE  FileShape(text) /\ SeparatedFile(text)
    <3>1. Framed(text) /\ Apart(text) /\ Parses(text)
      BY <1>2, <2>5 DEF FileSound, FileParses, Reads, ObjectSound
    <3>2. ASSUME NEW p \in ElementAt(text)
          PROVE  /\ text[p] = Property(text[p].event, text[p].value) /\ ArrayShape(text[p].value)
                 /\ text[p].value # Junk =>
                      /\ Separated(text[p].value)
                      /\ \A g \in ElementAt(text[p].value) :
                           HasHandlers(text[p].value[g]) => Separated(text[p].value[g].handlers)
      <4>1. PropertySound(text[p]) /\ PropertyParses(text[p])
        BY <1>2, <2>5 DEF FileSound, FileParses, Reads, ObjectSound
      <4>2. ArraySound(text[p].value)
        BY <4>1 DEF PropertySound
      <4>3. ArrayShape(text[p].value)
        BY <4>2 DEF ArrayShape, ArraySound, GroupShape, GroupSound
      <4>4. text[p].value # Junk =>
              /\ Separated(text[p].value)
              /\ \A g \in ElementAt(text[p].value) :
                   HasHandlers(text[p].value[g]) => Separated(text[p].value[g].handlers)
        BY <4>1, <4>2 DEF PropertyParses, GroupReads, ArraySound, GroupSound, Separated
      <4>5. QED
        BY <4>1, <4>3, <4>4 DEF PropertySound
    <3>3. SeparatedFile(text)
      BY <2>3, <3>1, <3>2 DEF Separated
    <3>4. FileShape(text)
      BY <3>1, <3>2 DEF FileShape
    <3>5. QED
      BY <3>3, <3>4
  <2>6. QED
    BY <2>4, <2>5
<1>3. QED
  BY <1>1, <1>2

LEMMA PatchedSound ==
  ASSUME NEW text, FileSound(text), text # Junk, NEW wanted \in SUBSET HookEvents
  PROVE  LET R == PatchedText(text, wanted) IN
         /\ text \notin NoText => (Reads(R) => ObjectSound(R))
         /\ text \in NoText => R = Absent \/ (Reads(R) /\ ObjectSound(R))
<1>1. CASE text = Scalar /\ wanted = {}
  BY <1>1 DEF PatchedText, NoText
<1>2. CASE ~ (text = Scalar /\ wanted = {}) /\ text \in {Absent, Scalar}
  <2> DEFINE fresh == FreshProperties(wanted)
             B == Bare(fresh)
  <2>1. /\ fresh \in Seq(Range(fresh))
        /\ \A i \in 1..Len(fresh) :
             fresh[i] \notin Punctuation /\ PropertySound(fresh[i]) /\ PropertyParses(fresh[i])
    BY FreshSound
  <2>2. PatchedText(text, wanted) = B /\ text \in NoText
    BY <1>2 DEF PatchedText, NoText
  <2> HIDE DEF fresh
  <2>3. /\ Framed(B) /\ Apart(B) /\ Parses(B)
        /\ \A q \in ElementAt(B) : \E i \in 1..Len(fresh) : B[q] = fresh[i]
    BY <2>1, BareSound
  <2> HIDE DEF B
  <2>4. \A q \in ElementAt(B) : PropertySound(B[q]) /\ PropertyParses(B[q])
    BY <2>1, <2>3
  <2>5. QED
    BY <2>2, <2>3, <2>4 DEF ObjectSound, Reads
<1>3. CASE text \notin {Absent, Scalar}
  <2> DEFINE new == [i \in ElementAt(text) |-> PatchedProperty(text[i], wanted)]
             M == Overlay(text, new)
             edits == NewProperties(text, wanted)
             R == Spliced(M, edits)
  <2>11. text \notin NoText
    BY <1>3 DEF NoText
  <2>1. Framed(text) /\ Apart(text) /\ \A i \in ElementAt(text) : PropertySound(text[i])
    BY <2>11 DEF FileSound, ObjectSound
  <2>2. \A i \in ElementAt(text) : new[i] \notin Punctuation /\ (PropertyParses(new[i]) => PropertySound(new[i]))
    BY <2>1, PatchedPropertySound
  <2>3. PatchedText(text, wanted) = R
    BY <1>3 DEF PatchedText
  <2> HIDE DEF new
  <2>4. /\ Framed(M) /\ Apart(M) /\ Len(M) = Len(text) /\ ElementAt(M) = ElementAt(text)
        /\ \A i \in 1..Len(text) : M[i] = IF i \in ElementAt(text) THEN new[i] ELSE text[i]
    BY <2>1, <2>2, Overlaid
  <2>5. PICK p, w : Plan(text, edits, p, w) /\ \A k \in ElementAt(w) : PropertySound(w[k])
    BY <2>1, NewPropertiesPlan
  <2>6. Plan(M, edits, p, w)
    BY <2>1, <2>2, <2>5, PlanCarriesOver
  <2> HIDE DEF M, edits
  <2>7. /\ Framed(R) /\ Apart(R)
        /\ \A q \in ElementAt(R) : \/ \E i \in ElementAt(M) : R[q] = M[i]
                                   \/ \E k \in ElementAt(w) : R[q] = w[k]
    BY <2>4, <2>6, SpliceSound DEF Plan
  <2>8. \A i \in ElementAt(M) : PropertyParses(M[i]) => PropertySound(M[i])
    <3>1. \A i \in ElementAt(text) : i \in 1..Len(text)
      BY DEF ElementAt
    <3>2. QED
      BY <2>2, <2>4, <3>1
  <2> HIDE DEF R
  <2>9. \A q \in ElementAt(R) : PropertyParses(R[q]) => PropertySound(R[q])
    BY <2>5, <2>7, <2>8
  <2>10. QED
    BY <2>3, <2>7, <2>9, <2>11 DEF ObjectSound, Reads
<1>4. QED
  BY <1>1, <1>2, <1>3

\* Brackets stand at the ends only, so that an edit beside one knows what it is
\* beside; and every two elements are separated.
HookFileInv == FileShape(document) /\ StaysSeparated

LEMMA HookFileInductive ==
  /\ FileInit => HookFileInv
  /\ HookFileInv /\ [FileNext]_fileVars => HookFileInv'
<1>1. FileInit => HookFileInv
  BY HookFileAssumption DEF FileInit, HookFileInv, StaysSeparated
<1>2. ASSUME HookFileInv, [FileNext]_fileVars
      PROVE  HookFileInv'
  <2>1. ASSUME NEW wanted \in SUBSET HookEvents, Patch(wanted)
        PROVE  HookFileInv'
    <3> DEFINE R == PatchedText(document, wanted)
    <3>1. document' = R /\ ~ RefusedPatch(wanted)
      BY <2>1 DEF Patch
    <3>2. document # Junk
      BY <3>1 DEF RefusedPatch
    <3>3. FileSound(document)
      BY <1>2, FileParts DEF HookFileInv, StaysSeparated
    <3>4. /\ document \notin NoText => (Reads(R) => ObjectSound(R))
          /\ document \in NoText => R = Absent \/ (Reads(R) /\ ObjectSound(R))
      BY <3>2, <3>3, PatchedSound
    <3>5. document \notin NoText => ~ Invalid(R)
      BY <3>1, <3>2 DEF RefusedPatch, NoText
    <3> HIDE DEF R
    <3>6. ~ Invalid(R) => Reads(R)
      BY DEF Invalid, Reads, PropertyParses, GroupReads
    <3>7. FileSound(R) /\ FileParses(R)
      BY <3>4, <3>5, <3>6 DEF FileSound, FileParses, NoText
    <3>8. FileShape(R) /\ SeparatedFile(R)
      BY <3>7, FileParts
    <3>9. QED
      BY <3>1, <3>8 DEF HookFileInv, StaysSeparated
  <2>2. ASSUME NEW wanted \in SUBSET HookEvents, RefusePatch(wanted)
        PROVE  HookFileInv'
    BY <1>2, <2>2 DEF RefusePatch, HookFileInv, StaysSeparated
  <2>3. CASE UNCHANGED fileVars
    BY <1>2, <2>3 DEF fileVars, HookFileInv, StaysSeparated
  <2>4. QED
    BY <1>2, <2>1, <2>2, <2>3 DEF FileNext
<1>3. QED
  BY <1>1, <1>2

\* Whatever build patches, over any sequence of patches and for any handlers,
\* groups and comments in it, a file whose elements were separated by commas
\* keeps them separated: apply_edits never lets a deletion take the comma that
\* two remaining elements need, nor an insertion come without one.
THEOREM FileStaysSeparated == FileSpec => []StaysSeparated
<1>1. FileInit => HookFileInv
  BY HookFileInductive
<1>2. HookFileInv /\ [FileNext]_fileVars => HookFileInv'
  BY HookFileInductive
<1>3. HookFileInv => StaysSeparated
  BY DEF HookFileInv
<1>4. QED
  BY <1>1, <1>2, <1>3, PTL DEF FileSpec

(***************************************************************************)
(* How a command is read and a word is written: one state after each       *)
(* character, of which the last is what CommandLine takes.                 *)
(***************************************************************************)
ReaderState(T) ==
  [words : Seq(Seq(T)), word : Seq(T), quoted : BOOLEAN, begun : BOOLEAN, held : Nat]

LEMMA TimesSeq ==
  ASSUME NEW T, NEW n \in Nat, NEW c \in T
  PROVE  /\ Times(n, c) \in Seq(T) /\ Len(Times(n, c)) = n
         /\ \A k \in 1..n : Times(n, c)[k] = c
  BY DEF Times

LEMMA StartTyped ==
  ASSUME NEW T
  PROVE  Start \in ReaderState(T)
  BY DEF Start, ReaderState

LEMMA EndWordTyped ==
  ASSUME NEW T, NEW s \in ReaderState(T)
  PROVE  EndWord(s) \in ReaderState(T)
<1>1. s.word \in Seq(T) /\ s.words \in Seq(Seq(T))
  BY DEF ReaderState
<1>2. Append(s.words, s.word) \in Seq(Seq(T))
  BY <1>1
<1>3. <<>> \in Seq(T)
  OBVIOUS
<1>4. QED
  BY <1>1, <1>2, <1>3 DEF EndWord, ReaderState

LEMMA AddsTyped ==
  ASSUME NEW T, NEW s \in ReaderState(T), NEW c \in T
  PROVE  Adds(s, <<c>>) \in ReaderState(T)
<1>1. s.word \in Seq(T) /\ <<c>> \in Seq(T)
  BY DEF ReaderState
<1>2. s.word \o <<c>> \in Seq(T)
  BY <1>1
<1>3. QED
  BY <1>2 DEF Adds, ReaderState

LEMMA FlushedTyped ==
  ASSUME NEW T, NEW s \in ReaderState(T), NEW n \in Nat, Backslash \in T
  PROVE  Flushed(s, n) \in ReaderState(T)
<1>1. s.word \in Seq(T) /\ Times(n, Backslash) \in Seq(T)
  BY TimesSeq DEF ReaderState
<1>2. s.word \o Times(n, Backslash) \in Seq(T)
  BY <1>1
<1>3. QED
  BY <1>2 DEF Flushed, ReaderState

LEMMA TogglesTyped ==
  ASSUME NEW T, NEW s \in ReaderState(T)
  PROVE  Toggles(s) \in ReaderState(T)
  BY DEF Toggles, ReaderState

LEMMA HoldsBackTyped ==
  ASSUME NEW T, NEW s \in ReaderState(T)
  PROVE  HoldsBack(s) \in ReaderState(T)
<1> DEFINE m == s.held + 1
<1>1. m \in Nat
  BY DEF ReaderState
<1>2. HoldsBack(s) = [s EXCEPT !.held = m, !.begun = TRUE]
  BY DEF HoldsBack
<1> HIDE DEF m
<1>3. [s EXCEPT !.held = m, !.begun = TRUE] \in ReaderState(T)
  BY <1>1 DEF ReaderState
<1>4. QED
  BY <1>2, <1>3

LEMMA PosixStepTyped ==
  ASSUME NEW T, NEW s \in ReaderState(T), NEW c \in T
  PROVE  PosixStep(s, c) \in ReaderState(T)
<1>1. Adds(s, <<c>>) \in ReaderState(T) /\ EndWord(s) \in ReaderState(T)
  BY AddsTyped, EndWordTyped
<1>2. [s EXCEPT !.held = 0] \in ReaderState(T)
  BY DEF ReaderState
<1>3. Adds([s EXCEPT !.held = 0], <<c>>) \in ReaderState(T)
  BY <1>2, AddsTyped
<1>4. QED
  BY <1>1, <1>3, HoldsBackTyped, TogglesTyped DEF PosixStep

LEMMA WindowsStepTyped ==
  ASSUME NEW T, NEW s \in ReaderState(T), NEW c \in T, Backslash \in T
  PROVE  WindowsStep(s, c) \in ReaderState(T)
<1>1. s.held \in Nat /\ s.held \div 2 \in Nat
  BY DEF ReaderState
<1>2. Flushed(s, s.held) \in ReaderState(T) /\ Flushed(s, s.held \div 2) \in ReaderState(T)
  BY <1>1, FlushedTyped
<1>3. /\ Adds(Flushed(s, s.held), <<c>>) \in ReaderState(T)
      /\ Adds(Flushed(s, s.held \div 2), <<c>>) \in ReaderState(T)
      /\ EndWord(Flushed(s, s.held)) \in ReaderState(T)
  BY <1>2, AddsTyped, EndWordTyped
<1>4. /\ HoldsBack(s) \in ReaderState(T)
      /\ Toggles(Flushed(s, s.held \div 2)) \in ReaderState(T)
  BY <1>2, HoldsBackTyped, TogglesTyped
<1>5. QED
  BY <1>3, <1>4 DEF WindowsStep

Recurs(g, n, step, first) == g = [i \in 0..n |-> IF i = 0 THEN first ELSE step[<<i, g[i - 1]>>]]
LEMMA Recursion ==
  ASSUME NEW D, NEW n \in Nat, NEW step \in [(1..n) \X D -> D], NEW first \in D
  PROVE  \E g \in [0..n -> D] : Recurs(g, n, step, first)
<1>1. PICK g \in [0..n -> D] : Runs(g, n, step, first)
  BY StepsExist
<1>2. \A i \in 0..n : g[i] = IF i = 0 THEN first ELSE step[<<i, g[i - 1]>>]
  <2>1. \A i \in 0..n : i = 0 \/ i \in 1..n
    OBVIOUS
  <2>2. QED
    BY <1>1, <2>1 DEF Runs
<1>3. g = [i \in 0..n |-> IF i = 0 THEN first ELSE step[<<i, g[i - 1]>>]]
  BY <1>2
<1>4. QED
  BY <1>3 DEF Recurs

\* The states of the reader, character by character.
PosixStates(f, text) ==
  f[0] = Start /\ \A i \in 1..Len(text) : f[i] = PosixStep(f[i - 1], text[i])
WindowsStates(f, text) ==
  f[0] = Start /\ \A i \in 1..Len(text) : f[i] = WindowsStep(f[i - 1], text[i])

LEMMA PosixReadStates ==
  ASSUME NEW T, NEW text \in Seq(T)
  PROVE  \E f : PosixStates(f, text) /\ PosixRead(text) = f[Len(text)]
<1> DEFINE n == Len(text)
           D == ReaderState(T)
           step == [x \in (1..n) \X D |-> PosixStep(x[2], text[x[1]])]
           After(f, i) == PosixStep(f[i - 1], text[i])
           Is(f) == f = [i \in 0..n |-> IF i = 0 THEN Start ELSE After(f, i)]
           after == CHOOSE f : Is(f)
<1>1. n \in Nat /\ \A i \in 1..n : text[i] \in T
  OBVIOUS
<1>2. step \in [(1..n) \X D -> D] /\ Start \in D
  BY <1>1, PosixStepTyped, StartTyped
<1>3. \A i \in 1..n, s \in D : step[<<i, s>>] = PosixStep(s, text[i])
  BY <1>1
<1>4. PosixRead(text) = after[n]
  BY DEF PosixRead
<1> HIDE DEF n, step, D
<1>5. PICK g \in [0..n -> D] : Recurs(g, n, step, Start)
  BY <1>1, <1>2, Recursion
<1>6. Is(g)
  <2>1. \A i \in 0..n : i = 0 \/ (i \in 1..n /\ i - 1 \in 0..n /\ g[i - 1] \in D)
    BY <1>1, <1>5
  <2>2. \A i \in 0..n : i = 0 \/ step[<<i, g[i - 1]>>] = After(g, i)
    BY <1>3, <2>1
  <2> HIDE DEF After
  <2>3. QED
    BY <1>5, <2>2 DEF Recurs
<1>7. Is(after)
  <2> HIDE DEF Is
  <2>1. QED
    BY <1>6
<1> HIDE DEF after, After
<1>8. after[0] = Start /\ \A i \in 1..n : after[i] = After(after, i)
  <2>1. 0 \in 0..n /\ \A i \in 1..n : i \in 0..n /\ i # 0
    BY <1>1
  <2>2. after = [i \in 0..n |-> IF i = 0 THEN Start ELSE After(after, i)]
    BY <1>7
  <2>3. QED
    BY <2>1, <2>2
<1>9. PosixStates(after, text)
  BY <1>8 DEF PosixStates, After, n
<1>10. QED
  BY <1>4, <1>9 DEF n

LEMMA WindowsReadStates ==
  ASSUME NEW T, NEW text \in Seq(T)
  PROVE  \E f : WindowsStates(f, text) /\ WindowsRead(text) = f[Len(text)]
<1> DEFINE n == Len(text)
           D == ReaderState(T \cup {Backslash})
           step == [x \in (1..n) \X D |-> WindowsStep(x[2], text[x[1]])]
           After(f, i) == WindowsStep(f[i - 1], text[i])
           Is(f) == f = [i \in 0..n |-> IF i = 0 THEN Start ELSE After(f, i)]
           after == CHOOSE f : Is(f)
<1>1. n \in Nat /\ \A i \in 1..n : text[i] \in T \cup {Backslash}
  OBVIOUS
<1>2. step \in [(1..n) \X D -> D] /\ Start \in D
  BY <1>1, WindowsStepTyped, StartTyped
<1>3. \A i \in 1..n, s \in D : step[<<i, s>>] = WindowsStep(s, text[i])
  BY <1>1
<1>4. WindowsRead(text) = after[n]
  BY DEF WindowsRead
<1> HIDE DEF n, step, D
<1>5. PICK g \in [0..n -> D] : Recurs(g, n, step, Start)
  BY <1>1, <1>2, Recursion
<1>6. Is(g)
  <2>1. \A i \in 0..n : i = 0 \/ (i \in 1..n /\ i - 1 \in 0..n /\ g[i - 1] \in D)
    BY <1>1, <1>5
  <2>2. \A i \in 0..n : i = 0 \/ step[<<i, g[i - 1]>>] = After(g, i)
    BY <1>3, <2>1
  <2> HIDE DEF After
  <2>3. QED
    BY <1>5, <2>2 DEF Recurs
<1>7. Is(after)
  <2> HIDE DEF Is
  <2>1. QED
    BY <1>6
<1> HIDE DEF after, After
<1>8. after[0] = Start /\ \A i \in 1..n : after[i] = After(after, i)
  <2>1. 0 \in 0..n /\ \A i \in 1..n : i \in 0..n /\ i # 0
    BY <1>1
  <2>2. after = [i \in 0..n |-> IF i = 0 THEN Start ELSE After(after, i)]
    BY <1>7
  <2>3. QED
    BY <2>1, <2>2
<1>9. WindowsStates(after, text)
  BY <1>8 DEF WindowsStates, After, n
<1>10. QED
  BY <1>4, <1>9 DEF n

\* The states of the writer.
Unwritten == [out |-> <<DoubleQuote>>, held |-> 0]
QuoteStates(g, word) ==
  g[0] = Unwritten /\ \A i \in 1..Len(word) : g[i] = QuoteStep(g[i - 1], word[i])
WriterState(T) == [out : Seq(T), held : Nat]

\* What the writer puts out before a character that is no backslash, and that character.
PutOut(a, r, c) == a \o Times(r, Backslash) \o <<c>>

\* The states of the writer of a word, and what it ends with.
WrittenAs(g, word, T) ==
  /\ QuoteStates(g, word) /\ \A i \in 0..Len(word) : g[i] \in WriterState(T)
  /\ WindowsQuote(word) = PutOut(g[Len(word)].out, 2 * g[Len(word)].held, DoubleQuote)

LEMMA QuoteStepTyped ==
  ASSUME NEW T, NEW s \in WriterState(T), NEW c \in T, Backslash \in T
  PROVE  QuoteStep(s, c) \in WriterState(T)
<1> DEFINE m == IF c = DoubleQuote THEN s.held + 1 ELSE s.held
           o == s.out \o Times(m, Backslash) \o <<c>>
<1>1. s.out \in Seq(T) /\ s.held \in Nat
  BY DEF WriterState
<1>2. m \in Nat /\ s.held + 1 \in Nat
  BY <1>1
<1>3. QuoteStep(s, c) = IF c = Backslash THEN [s EXCEPT !.held = @ + 1] ELSE [out |-> o, held |-> 0]
  BY DEF QuoteStep
<1> HIDE DEF m
<1>4. Times(m, Backslash) \in Seq(T)
  BY <1>2, TimesSeq
<1>5. o \in Seq(T)
  BY <1>1, <1>4
<1> HIDE DEF o
<1>6. [out |-> o, held |-> 0] \in WriterState(T)
  BY <1>5 DEF WriterState
<1>7. [s EXCEPT !.held = @ + 1] \in WriterState(T)
  <2> DEFINE h == s.held + 1
  <2>1. h \in Nat
    BY <1>2
  <2> HIDE DEF h
  <2>2. [s EXCEPT !.held = h] \in WriterState(T)
    BY <2>1 DEF WriterState
  <2>3. QED
    BY <2>2 DEF h
<1>8. QED
  BY <1>3, <1>6, <1>7

LEMMA WindowsQuoteStates ==
  ASSUME NEW T, NEW word \in Seq(T)
  PROVE  \E g : WrittenAs(g, word, T \cup {Backslash, DoubleQuote})
<1> DEFINE n == Len(word)
           U == T \cup {Backslash, DoubleQuote}
           D == WriterState(U)
           step == [x \in (1..n) \X D |-> QuoteStep(x[2], word[x[1]])]
           After(f, i) == QuoteStep(f[i - 1], word[i])
           Is(f) == f = [i \in 0..n |-> IF i = 0 THEN Unwritten ELSE After(f, i)]
           after == CHOOSE f : Is(f)
<1>1. n \in Nat /\ \A i \in 1..n : word[i] \in U
  OBVIOUS
<1>2. step \in [(1..n) \X D -> D] /\ Unwritten \in D
  <2>1. Backslash \in U /\ <<DoubleQuote>> \in Seq(U)
    OBVIOUS
  <2>2. Unwritten \in D
    BY <2>1 DEF Unwritten, WriterState
  <2> HIDE DEF U
  <2>3. QED
    BY <1>1, <2>1, <2>2, QuoteStepTyped
<1>3. \A i \in 1..n, s \in D : step[<<i, s>>] = QuoteStep(s, word[i])
  BY <1>1
<1>4. WindowsQuote(word) = PutOut(after[n].out, 2 * after[n].held, DoubleQuote)
  BY DEF WindowsQuote, Unwritten, PutOut
<1> HIDE DEF n, step, D, U
<1>5. PICK g \in [0..n -> D] : Recurs(g, n, step, Unwritten)
  BY <1>1, <1>2, Recursion
<1>6. Is(g)
  <2>1. \A i \in 0..n : i = 0 \/ (i \in 1..n /\ i - 1 \in 0..n /\ g[i - 1] \in D)
    BY <1>1, <1>5
  <2>2. \A i \in 0..n : i = 0 \/ step[<<i, g[i - 1]>>] = After(g, i)
    BY <1>3, <2>1
  <2> HIDE DEF After
  <2>3. QED
    BY <1>5, <2>2 DEF Recurs
<1>7. Is(after)
  <2> HIDE DEF Is
  <2>1. QED
    BY <1>6
<1> HIDE DEF after, After
<1>8. after[0] = Unwritten /\ \A i \in 1..n : after[i] = After(after, i)
  <2>1. 0 \in 0..n /\ \A i \in 1..n : i \in 0..n /\ i # 0
    BY <1>1
  <2>2. after = [i \in 0..n |-> IF i = 0 THEN Unwritten ELSE After(after, i)]
    BY <1>7
  <2>3. QED
    BY <2>1, <2>2
<1>9. QuoteStates(after, word)
  BY <1>8 DEF QuoteStates, After, n
<1>10. \A i \in 0..n : after[i] \in D
  <2> DEFINE S == {m \in Nat : m <= n => after[m] \in D}
  <2>1. 0 \in S
    BY <1>2, <1>8
  <2>2. ASSUME NEW m \in S
        PROVE  m + 1 \in S
    <3>1. CASE m + 1 <= n
      <4>1. m + 1 \in 1..n /\ (m + 1) - 1 = m /\ after[m] \in D
        BY <1>1, <3>1
      <4>2. after[m + 1] = QuoteStep(after[m], word[m + 1])
        BY <1>8, <4>1 DEF After
      <4>3. QuoteStep(after[m], word[m + 1]) \in D
        <5>1. Backslash \in U
          BY DEF U
        <5>2. QED
          BY <1>1, <4>1, <5>1, QuoteStepTyped DEF D
      <4>4. QED
        BY <4>1, <4>2, <4>3
    <3>2. QED
      BY <1>1, <3>1
  <2>3. S = Nat
    <3> HIDE DEF S
    <3>1. S \in SUBSET Nat
      BY DEF S
    <3>2. QED
      BY <2>1, <2>2, <3>1, SetInduction
  <2>4. QED
    BY <1>1, <2>3
<1>11. QED
  BY <1>4, <1>9, <1>10 DEF WrittenAs, n, D, U

(***************************************************************************)
(* The reader of a command                                                 *)
(* The words read, the word being read, whether a quoted run is open and a *)
(* word begun, and how many backslashes are held back.                     *)
(***************************************************************************)
\* The state of a reader.  The truth values have names, and what a reader holds is
\* one operator, so that the lemmas below speak of either by name.
Yes == TRUE
No == FALSE
Reader(W, w, q, b, h) == [words |-> W, word |-> w, quoted |-> q, begun |-> b, held |-> h]
LEMMA ReaderIs ==
  ASSUME NEW W, NEW w, NEW q, NEW b, NEW h, NEW s, s = Reader(W, w, q, b, h)
  PROVE  s.words = W /\ s.word = w /\ s.quoted = q /\ s.begun = b /\ s.held = h
  BY DEF Reader

LEMMA ReaderAdds ==
  ASSUME NEW W, NEW w, NEW q, NEW b, NEW h, NEW s, s = Reader(W, w, q, b, h), NEW text
  PROVE  Adds(s, text) = Reader(W, w \o text, q, Yes, h)
<1> DEFINE x == s.word \o text
           y == TRUE
<1>1. s \in [words : {W}, word : {w}, quoted : {q}, begun : {b}, held : {h}]
  BY DEF Reader
<1>2. Adds(s, text) = [s EXCEPT !.word = x, !.begun = y]
  BY DEF Adds
<1> HIDE DEF x, y
<1>3. [s EXCEPT !.word = x, !.begun = y] \in [words : {W}, word : {x}, quoted : {q}, begun : {y}, held : {h}]
  BY <1>1
<1>4. \A t \in [words : {W}, word : {x}, quoted : {q}, begun : {y}, held : {h}] : t = Reader(W, x, q, y, h)
  BY DEF Reader
<1>5. Adds(s, text) = Reader(W, x, q, y, h)
  BY <1>2, <1>3, <1>4
<1>6. s.words = W /\ s.word = w /\ s.quoted = q /\ s.held = h
  BY ReaderIs
<1>7. Reader(W, x, q, y, h) = Reader(W, w \o text, q, Yes, h)
  BY ONLY <1>6, Zenon DEF Yes, No, x, y
<1>8. QED
  BY ONLY <1>5, <1>7

LEMMA ReaderFlushed ==
  ASSUME NEW W, NEW w, NEW q, NEW b, NEW h, NEW s, s = Reader(W, w, q, b, h), NEW n
  PROVE  Flushed(s, n) = Reader(W, w \o Times(n, Backslash), q, b, 0)
<1> DEFINE x == s.word \o Times(n, Backslash)
           y == 0
<1>1. s \in [words : {W}, word : {w}, quoted : {q}, begun : {b}, held : {h}]
  BY DEF Reader
<1>2. Flushed(s, n) = [s EXCEPT !.word = x, !.held = y]
  BY DEF Flushed
<1> HIDE DEF x, y
<1>3. [s EXCEPT !.word = x, !.held = y] \in [words : {W}, word : {x}, quoted : {q}, begun : {b}, held : {y}]
  BY <1>1
<1>4. \A t \in [words : {W}, word : {x}, quoted : {q}, begun : {b}, held : {y}] : t = Reader(W, x, q, b, y)
  BY DEF Reader
<1>5. Flushed(s, n) = Reader(W, x, q, b, y)
  BY <1>2, <1>3, <1>4
<1>6. s.words = W /\ s.word = w /\ s.quoted = q /\ s.held = h
  BY ReaderIs
<1>7. Reader(W, x, q, b, y) = Reader(W, w \o Times(n, Backslash), q, b, 0)
  BY ONLY <1>6, Zenon DEF Yes, No, x, y
<1>8. QED
  BY ONLY <1>5, <1>7

Ended(s) == [s EXCEPT !.words = Append(@, s.word), !.word = <<>>, !.begun = FALSE]
LEMMA ReaderEnded ==
  ASSUME NEW W, NEW w, NEW q, NEW b, NEW h, NEW s, s = Reader(W, w, q, b, h)
  PROVE  Ended(s) = Reader(Append(W, w), <<>>, q, No, h)
<1> DEFINE x == Append(s.words, s.word)
           y == <<>>
           z == FALSE
<1>1. s \in [words : {W}, word : {w}, quoted : {q}, begun : {b}, held : {h}]
  BY DEF Reader
<1>2. Ended(s) = [s EXCEPT !.words = x, !.word = y, !.begun = z]
  BY DEF Ended
<1> HIDE DEF x, y, z
<1>3. [s EXCEPT !.words = x, !.word = y, !.begun = z] \in [words : {x}, word : {y}, quoted : {q}, begun : {z}, held : {h}]
  BY <1>1
<1>4. \A t \in [words : {x}, word : {y}, quoted : {q}, begun : {z}, held : {h}] : t = Reader(x, y, q, z, h)
  BY DEF Reader
<1>5. Ended(s) = Reader(x, y, q, z, h)
  BY <1>2, <1>3, <1>4
<1>6. s.words = W /\ s.word = w /\ s.quoted = q /\ s.held = h
  BY ReaderIs
<1>7. Reader(x, y, q, z, h) = Reader(Append(W, w), <<>>, q, No, h)
  BY ONLY <1>6, Zenon DEF Yes, No, x, y, z
<1>8. QED
  BY ONLY <1>5, <1>7

LEMMA ReaderToggles ==
  ASSUME NEW W, NEW w, NEW q, NEW b, NEW h, NEW s, s = Reader(W, w, q, b, h)
  PROVE  Toggles(s) = Reader(W, w, ~q, Yes, h)
<1> DEFINE x == ~s.quoted
           y == TRUE
<1>1. s \in [words : {W}, word : {w}, quoted : {q}, begun : {b}, held : {h}]
  BY DEF Reader
<1>2. Toggles(s) = [s EXCEPT !.quoted = x, !.begun = y]
  BY DEF Toggles
<1> HIDE DEF x, y
<1>3. [s EXCEPT !.quoted = x, !.begun = y] \in [words : {W}, word : {w}, quoted : {x}, begun : {y}, held : {h}]
  BY <1>1
<1>4. \A t \in [words : {W}, word : {w}, quoted : {x}, begun : {y}, held : {h}] : t = Reader(W, w, x, y, h)
  BY DEF Reader
<1>5. Toggles(s) = Reader(W, w, x, y, h)
  BY <1>2, <1>3, <1>4
<1>6. s.words = W /\ s.word = w /\ s.quoted = q /\ s.held = h
  BY ReaderIs
<1>7. Reader(W, w, x, y, h) = Reader(W, w, ~q, Yes, h)
  BY ONLY <1>6, Zenon DEF Yes, No, x, y
<1>8. QED
  BY ONLY <1>5, <1>7

LEMMA ReaderHolds ==
  ASSUME NEW W, NEW w, NEW q, NEW b, NEW h, NEW s, s = Reader(W, w, q, b, h)
  PROVE  HoldsBack(s) = Reader(W, w, q, Yes, h + 1)
<1> DEFINE x == s.held + 1
           y == TRUE
<1>1. s \in [words : {W}, word : {w}, quoted : {q}, begun : {b}, held : {h}]
  BY DEF Reader
<1>2. HoldsBack(s) = [s EXCEPT !.held = x, !.begun = y]
  BY DEF HoldsBack
<1> HIDE DEF x, y
<1>3. [s EXCEPT !.held = x, !.begun = y] \in [words : {W}, word : {w}, quoted : {q}, begun : {y}, held : {x}]
  BY <1>1
<1>4. \A t \in [words : {W}, word : {w}, quoted : {q}, begun : {y}, held : {x}] : t = Reader(W, w, q, y, x)
  BY DEF Reader
<1>5. HoldsBack(s) = Reader(W, w, q, y, x)
  BY <1>2, <1>3, <1>4
<1>6. s.words = W /\ s.word = w /\ s.quoted = q /\ s.held = h
  BY ReaderIs
<1>7. Reader(W, w, q, y, x) = Reader(W, w, q, Yes, h + 1)
  BY ONLY <1>6, Zenon DEF Yes, No, x, y
<1>8. QED
  BY ONLY <1>5, <1>7

LEMMA ReaderUnescapes ==
  ASSUME NEW W, NEW w, NEW q, NEW b, NEW h, NEW s, s = Reader(W, w, q, b, h)
  PROVE  [s EXCEPT !.held = 0] = Reader(W, w, q, b, 0)
  BY DEF Reader

LEMMA ReaderEndsWord ==
  ASSUME NEW W, NEW w, NEW q, NEW h, NEW s, s = Reader(W, w, q, Yes, h)
  PROVE  EndWord(s) = Reader(Append(W, w), <<>>, q, No, h)
<1>1. s.begun = Yes
  BY ReaderIs
<1>2. s.begun
  BY <1>1 DEF Yes
<1>3. EndWord(s) = Ended(s)
  BY ONLY <1>2, Zenon DEF EndWord, Ended
<1>4. QED
  BY <1>3, ReaderEnded

LEMMA ReaderOpens ==
  ASSUME NEW W, NEW w, NEW b, NEW h, NEW s
  PROVE  /\ s = Reader(W, w, No, b, h) => Toggles(s) = Reader(W, w, Yes, Yes, h)
         /\ s = Reader(W, w, Yes, b, h) => Toggles(s) = Reader(W, w, No, Yes, h)
<1>1. (~No) = Yes /\ (~Yes) = No
  BY DEF Yes, No
<1>2. QED
  BY <1>1, ReaderToggles

(***************************************************************************)
(* A word quoted for a POSIX shell is read as it was                       *)
(***************************************************************************)
\* A reader outside of a word, and one that has read a word or some of it.
Between(W) == Reader(W, <<>>, No, No, 0)
Spelled(text, k, part) == k + Len(part) <= Len(text) /\ \A j \in 1..Len(part) : text[k + j] = part[j]

LEMMA Extensional ==
  ASSUME NEW T, NEW a \in Seq(T), NEW b \in Seq(T), Len(a) = Len(b), \A k \in 1..Len(a) : a[k] = b[k]
  PROVE  a = b
  OBVIOUS

LEMMA PrefixGrows ==
  ASSUME NEW T, NEW a \in Seq(T)
  PROVE  /\ SubSeq(a, 1, 0) = <<>> /\ SubSeq(a, 1, Len(a)) = a
         /\ \A m \in 0..(Len(a) - 1) : /\ SubSeq(a, 1, m + 1) = SubSeq(a, 1, m) \o <<a[m + 1]>>
                                       /\ SubSeq(a, 1, m + 1) = Append(SubSeq(a, 1, m), a[m + 1])
         /\ \A m \in 0..Len(a) : /\ SubSeq(a, 1, m) \in Seq(T) /\ Len(SubSeq(a, 1, m)) = m
                                 /\ \A k \in 1..m : SubSeq(a, 1, m)[k] = a[k]
<1>1. Len(a) \in Nat
  OBVIOUS
<1>2. \A m \in 0..Len(a) : /\ SubSeq(a, 1, m) \in Seq(T) /\ Len(SubSeq(a, 1, m)) = m
                           /\ \A k \in 1..m : SubSeq(a, 1, m)[k] = a[k]
  BY <1>1
<1>3. SubSeq(a, 1, 0) = <<>>
  BY <1>1, <1>2
<1>4. SubSeq(a, 1, Len(a)) = a
  BY <1>1
<1>5. ASSUME NEW m \in 0..(Len(a) - 1)
      PROVE  /\ SubSeq(a, 1, m + 1) = SubSeq(a, 1, m) \o <<a[m + 1]>>
             /\ SubSeq(a, 1, m + 1) = Append(SubSeq(a, 1, m), a[m + 1])
  <2>1. m \in 0..Len(a) /\ m + 1 \in 0..Len(a) /\ m + 1 \in 1..Len(a) /\ a[m + 1] \in T
    BY <1>1
  <2>2. SubSeq(a, 1, m + 1) \in Seq(T) /\ SubSeq(a, 1, m) \in Seq(T) /\ <<a[m + 1]>> \in Seq(T)
    BY <1>2, <2>1
  <2>3. SubSeq(a, 1, m + 1) = SubSeq(a, 1, m) \o <<a[m + 1]>>
    <3> DEFINE p == SubSeq(a, 1, m)
               q == SubSeq(a, 1, m + 1)
    <3>1. /\ p \in Seq(T) /\ q \in Seq(T) /\ Len(p) = m /\ Len(q) = m + 1
          /\ (\A k \in 1..m : p[k] = a[k]) /\ \A k \in 1..(m + 1) : q[k] = a[k]
      BY <1>2, <2>1
    <3> HIDE DEF p, q
    <3>2. p \o <<a[m + 1]>> \in Seq(T) /\ Len(p \o <<a[m + 1]>>) = m + 1
      BY <2>1, <2>2, <3>1
    <3>3. \A k \in 1..(m + 1) : (p \o <<a[m + 1]>>)[k] = q[k]
      BY <2>1, <2>2, <3>1
    <3>4. q = p \o <<a[m + 1]>>
      BY <3>1, <3>2, <3>3, Extensional
    <3>5. QED
      BY <3>4 DEF p, q
  <2>4. SubSeq(a, 1, m) \o <<a[m + 1]>> = Append(SubSeq(a, 1, m), a[m + 1])
    BY <2>1, <2>2
  <2>5. QED
    BY <2>3, <2>4
<1>6. QED
  BY <1>2, <1>3, <1>4, <1>5

PosixChar(c) == IF c = Quote THEN <<Quote, Backslash, Quote, Quote>> ELSE <<c>>

\* What PosixStep does, case by case.
LEMMA PosixCases ==
  ASSUME NEW s, NEW c
  PROVE  /\ s.held = 1 => PosixStep(s, c) = Adds([s EXCEPT !.held = 0], <<c>>)
         /\ s.held = 0 /\ c = Quote => PosixStep(s, c) = Toggles(s)
         /\ s.held = 0 /\ c = Backslash /\ s.quoted = No => PosixStep(s, c) = HoldsBack(s)
         /\ s.held = 0 /\ c = Space /\ s.quoted = No => PosixStep(s, c) = EndWord(s)
         /\ s.held = 0 /\ c # Quote /\ s.quoted = Yes => PosixStep(s, c) = Adds(s, <<c>>)
<1>1. Quote # Backslash /\ Quote # Space /\ Backslash # Space /\ 0 # 1
  BY CharacterAssumption
<1>2. s.held = 1 => PosixStep(s, c) = Adds([s EXCEPT !.held = 0], <<c>>)
  BY DEF PosixStep
<1>3. s.held = 0 /\ c = Quote => PosixStep(s, c) = Toggles(s)
  BY <1>1 DEF PosixStep
<1>4. s.held = 0 /\ c = Backslash /\ s.quoted = No => PosixStep(s, c) = HoldsBack(s)
  BY <1>1 DEF PosixStep, No
<1>5. s.held = 0 /\ c = Space /\ s.quoted = No => PosixStep(s, c) = EndWord(s)
  BY <1>1 DEF PosixStep, No
<1>6. s.held = 0 /\ c # Quote /\ s.quoted = Yes => PosixStep(s, c) = Adds(s, <<c>>)
  BY <1>1 DEF PosixStep, Yes
<1>7. QED
  BY <1>2, <1>3, <1>4, <1>5, <1>6

LEMMA PosixSteps ==
  ASSUME NEW W, NEW w
  PROVE  /\ \A c : c # Quote => PosixStep(Reader(W, w, Yes, Yes, 0), c) = Reader(W, w \o <<c>>, Yes, Yes, 0)
         /\ PosixStep(Reader(W, w, Yes, Yes, 0), Quote) = Reader(W, w, No, Yes, 0)
         /\ PosixStep(Reader(W, w, No, Yes, 0), Quote) = Reader(W, w, Yes, Yes, 0)
         /\ PosixStep(Reader(W, w, No, Yes, 0), Backslash) = Reader(W, w, No, Yes, 1)
         /\ PosixStep(Reader(W, w, No, Yes, 1), Quote) = Reader(W, w \o <<Quote>>, No, Yes, 0)
         /\ PosixStep(Reader(W, w, No, Yes, 0), Space) = Between(Append(W, w))
         /\ PosixStep(Between(W), Quote) = Reader(W, <<>>, Yes, Yes, 0)
<1>1. ASSUME NEW v, NEW q, NEW b, NEW h, NEW s, s = Reader(W, v, q, b, h)
      PROVE  /\ s.held = h /\ s.quoted = q
             /\ \A c : Adds(s, <<c>>) = Reader(W, v \o <<c>>, q, Yes, h)
             /\ [s EXCEPT !.held = 0] = Reader(W, v, q, b, 0)
             /\ HoldsBack(s) = Reader(W, v, q, Yes, h + 1)
             /\ q = No => Toggles(s) = Reader(W, v, Yes, Yes, h)
             /\ q = Yes => Toggles(s) = Reader(W, v, No, Yes, h)
             /\ b = Yes => EndWord(s) = Reader(Append(W, v), <<>>, q, No, h)
  BY <1>1, ReaderIs, ReaderAdds, ReaderUnescapes, ReaderHolds, ReaderOpens, ReaderEndsWord
<1>3. ASSUME NEW c, c # Quote
      PROVE  PosixStep(Reader(W, w, Yes, Yes, 0), c) = Reader(W, w \o <<c>>, Yes, Yes, 0)
  BY <1>1, <1>3, PosixCases
<1>4. PosixStep(Reader(W, w, Yes, Yes, 0), Quote) = Reader(W, w, No, Yes, 0)
  <2> DEFINE r == Reader(W, w, Yes, Yes, 0)
  <2>1. r.held = 0 /\ r.quoted = Yes /\ Toggles(r) = Reader(W, w, No, Yes, 0)
    BY <1>1 DEF Between
  <2> HIDE DEF r
  <2>2. PosixStep(r, Quote) = Toggles(r)
    BY <2>1, PosixCases
  <2>3. QED
    BY <2>1, <2>2 DEF r
<1>5. PosixStep(Reader(W, w, No, Yes, 0), Quote) = Reader(W, w, Yes, Yes, 0)
  <2> DEFINE r == Reader(W, w, No, Yes, 0)
  <2>1. r.held = 0 /\ r.quoted = No /\ Toggles(r) = Reader(W, w, Yes, Yes, 0)
    BY <1>1 DEF Between
  <2> HIDE DEF r
  <2>2. PosixStep(r, Quote) = Toggles(r)
    BY <2>1, PosixCases
  <2>3. QED
    BY <2>1, <2>2 DEF r
<1>6. PosixStep(Reader(W, w, No, Yes, 0), Backslash) = Reader(W, w, No, Yes, 1)
  <2> DEFINE r == Reader(W, w, No, Yes, 0)
  <2>1. r.held = 0 /\ r.quoted = No /\ HoldsBack(r) = Reader(W, w, No, Yes, 1)
    BY <1>1 DEF Between
  <2> HIDE DEF r
  <2>2. PosixStep(r, Backslash) = HoldsBack(r)
    BY <2>1, PosixCases
  <2>3. QED
    BY <2>1, <2>2 DEF r
<1>7. PosixStep(Reader(W, w, No, Yes, 1), Quote) = Reader(W, w \o <<Quote>>, No, Yes, 0)
  <2> DEFINE r == Reader(W, w, No, Yes, 1)
             u == Reader(W, w, No, Yes, 0)
  <2>1. r.held = 1 /\ [r EXCEPT !.held = 0] = u /\ Adds(u, <<Quote>>) = Reader(W, w \o <<Quote>>, No, Yes, 0)
    BY <1>1
  <2> HIDE DEF r, u
  <2>2. PosixStep(r, Quote) = Adds([r EXCEPT !.held = 0], <<Quote>>)
    BY <2>1, PosixCases
  <2>3. QED
    BY <2>1, <2>2 DEF r
<1>8. PosixStep(Reader(W, w, No, Yes, 0), Space) = Between(Append(W, w))
  <2> DEFINE r == Reader(W, w, No, Yes, 0)
  <2>1. r.held = 0 /\ r.quoted = No /\ EndWord(r) = Between(Append(W, w))
    BY <1>1 DEF Between
  <2> HIDE DEF r
  <2>2. PosixStep(r, Space) = EndWord(r)
    BY <2>1, PosixCases
  <2>3. QED
    BY <2>1, <2>2 DEF r
<1>9. PosixStep(Between(W), Quote) = Reader(W, <<>>, Yes, Yes, 0)
  <2> DEFINE r == Between(W)
  <2>1. r.held = 0 /\ r.quoted = No /\ Toggles(r) = Reader(W, <<>>, Yes, Yes, 0)
    BY <1>1 DEF Between
  <2> HIDE DEF r
  <2>2. PosixStep(r, Quote) = Toggles(r)
    BY <2>1, PosixCases
  <2>3. QED
    BY <2>1, <2>2 DEF r
<1>10. QED
  BY <1>3, <1>4, <1>5, <1>6, <1>7, <1>8, <1>9

LEMMA PosixCharRead ==
  ASSUME NEW text, NEW f, PosixStates(f, text), NEW k \in Nat, NEW c, NEW W, NEW w,
         Len(text) \in Nat, f[k] = Reader(W, w, Yes, Yes, 0), Spelled(text, k, PosixChar(c))
  PROVE  f[k + Len(PosixChar(c))] = Reader(W, w \o <<c>>, Yes, Yes, 0)
<1>1. CASE c # Quote
  <2>1. Len(PosixChar(c)) = 1 /\ k + 1 <= Len(text) /\ text[k + 1] = c
    BY <1>1 DEF PosixChar, Spelled
  <2>2. k + 1 \in 1..Len(text) /\ (k + 1) - 1 = k
    BY <2>1
  <2>3. f[k + 1] = PosixStep(f[k], c)
    BY <2>1, <2>2 DEF PosixStates
  <2>4. QED
    BY <1>1, <2>1, <2>3, PosixSteps
<1>2. CASE c = Quote
  <2> DEFINE a == <<Quote, Backslash, Quote, Quote>>
  <2>1. Len(a) = 4 /\ a[1] = Quote /\ a[2] = Backslash /\ a[3] = Quote /\ a[4] = Quote
    OBVIOUS
  <2>2. PosixChar(c) = a
    BY <1>2 DEF PosixChar
  <2> HIDE DEF a
  <2>3. k + 4 <= Len(text) /\ \A j \in 1..4 : text[k + j] = a[j]
    BY <2>1, <2>2 DEF Spelled
  <2>4. text[k + 1] = Quote /\ text[k + 2] = Backslash /\ text[k + 3] = Quote /\ text[k + 4] = Quote
    BY <2>1, <2>3
  <2>5. /\ k + 1 \in 1..Len(text) /\ (k + 1) - 1 = k
        /\ k + 2 \in 1..Len(text) /\ (k + 2) - 1 = k + 1
        /\ k + 3 \in 1..Len(text) /\ (k + 3) - 1 = k + 2
        /\ k + 4 \in 1..Len(text) /\ (k + 4) - 1 = k + 3
    BY <2>3
  <2>6. f[k + 1] = Reader(W, w, No, Yes, 0)
    BY <2>4, <2>5, PosixSteps DEF PosixStates
  <2>7. f[k + 2] = Reader(W, w, No, Yes, 1)
    BY <2>4, <2>5, <2>6, PosixSteps DEF PosixStates
  <2>8. f[k + 3] = Reader(W, w \o <<Quote>>, No, Yes, 0)
    BY <2>4, <2>5, <2>7, PosixSteps DEF PosixStates
  <2>9. f[k + 4] = Reader(W, w \o <<Quote>>, Yes, Yes, 0)
    BY <2>4, <2>5, <2>8, PosixSteps DEF PosixStates
  <2>10. QED
    BY <1>2, <2>1, <2>2, <2>9
<1>3. QED
  BY <1>1, <1>2

LEMMA PosixQuoteTyped ==
  ASSUME NEW T, NEW word \in Seq(T), Quote \in T, Backslash \in T
  PROVE  LET chars == [i \in 1..Len(word) |-> PosixChar(word[i])] IN
         /\ chars \in Seq(Seq(T)) /\ Len(chars) = Len(word)
         /\ Joined(chars) \in Seq(T)
         /\ PosixQuote(word) = <<Quote>> \o Joined(chars) \o <<Quote>>
         /\ PosixQuote(word) \in Seq(T)
<1> DEFINE chars == [i \in 1..Len(word) |-> PosixChar(word[i])]
<1>1. \A c \in T : PosixChar(c) \in Seq(T)
  BY DEF PosixChar
<1>2. chars \in Seq(Seq(T)) /\ Len(chars) = Len(word)
  BY <1>1
<1>3. PosixQuote(word) = <<Quote>> \o Joined(chars) \o <<Quote>>
  BY DEF PosixQuote, PosixChar
<1> HIDE DEF chars
<1>4. Joined(chars) \in Seq(T)
  BY <1>2, JoinedLaid
<1>5. <<Quote>> \o Joined(chars) \o <<Quote>> \in Seq(T)
  BY <1>4
<1>6. QED
  BY <1>2, <1>3, <1>4, <1>5 DEF chars

LEMMA PosixWordRead ==
  ASSUME NEW T, NEW word \in Seq(T), Quote \in T, Backslash \in T,
         NEW text, Len(text) \in Nat, NEW f, PosixStates(f, text),
         NEW k \in Nat, NEW W, f[k] = Between(W), Spelled(text, k, PosixQuote(word))
  PROVE  f[k + Len(PosixQuote(word))] = Reader(W, word, No, Yes, 0)
<1> DEFINE n == Len(word)
           chars == [i \in 1..n |-> PosixChar(word[i])]
           J == Joined(chars)
           Q == PosixQuote(word)
<1>1. n \in Nat /\ \A i \in 1..n : word[i] \in T
  OBVIOUS
<1>2. chars \in Seq(Seq(T)) /\ Len(chars) = n /\ J \in Seq(T) /\ Q = <<Quote>> \o J \o <<Quote>>
  BY PosixQuoteTyped
<1>3. \A i \in 1..n : chars[i] = PosixChar(word[i])
  OBVIOUS
<1> HIDE DEF chars
<1>4. PICK at : Laid(chars, J, at)
  BY <1>2, JoinedLaid
<1> HIDE DEF J, n
<1>5. /\ at \in [1..(n + 1) -> Nat] /\ at[1] = 0 /\ Len(J) = at[n + 1]
      /\ \A i \in 1..n : at[i + 1] = at[i] + Len(chars[i])
      /\ \A i, j \in 1..(n + 1) : i <= j => at[i] <= at[j]
      /\ \A i \in 1..n : \A x \in 1..Len(chars[i]) : J[at[i] + x] = chars[i][x]
  BY <1>2, <1>4 DEF Laid
<1>6. /\ Len(J) \in Nat /\ Len(Q) = Len(J) + 2 /\ Q[1] = Quote /\ Q[Len(J) + 2] = Quote
      /\ \A x \in 1..Len(J) : Q[x + 1] = J[x]
  BY <1>2
<1> HIDE DEF Q
<1>7. k + Len(Q) <= Len(text) /\ \A x \in 1..Len(Q) : text[k + x] = Q[x]
  BY DEF Spelled, Q
<1>8. /\ k + 1 \in 1..Len(text) /\ (k + 1) - 1 = k /\ text[k + 1] = Quote
  BY <1>6, <1>7
<1>9. f[k + 1] = Reader(W, <<>>, Yes, Yes, 0)
  BY <1>8, PosixSteps DEF PosixStates
<1> DEFINE S == {m \in Nat : m <= n => f[k + 1 + at[m + 1]] = Reader(W, SubSeq(word, 1, m), Yes, Yes, 0)}
<1>10. 0 \in S
  <2>1. SubSeq(word, 1, 0) = <<>>
    BY PrefixGrows
  <2>2. k + 1 + at[0 + 1] = k + 1
    BY <1>5
  <2>3. QED
    BY <1>9, <2>1, <2>2
<1>11. ASSUME NEW m \in S
       PROVE  m + 1 \in S
  <2>1. SUFFICES ASSUME m + 1 <= n
                 PROVE  f[k + 1 + at[(m + 1) + 1]] = Reader(W, SubSeq(word, 1, m + 1), Yes, Yes, 0)
    OBVIOUS
  <2>2. m \in Nat /\ m <= n /\ m + 1 \in 1..n /\ m \in 0..(n - 1) /\ m + 1 \in 1..(n + 1) /\ (m + 1) + 1 \in 1..(n + 1)
        /\ n + 1 \in 1..(n + 1)
    BY <1>1, <2>1
  <2> DEFINE a == at[m + 1]
             l == k + 1 + a
             c == word[m + 1]
  <2>3. f[l] = Reader(W, SubSeq(word, 1, m), Yes, Yes, 0)
    BY <2>2
  <2> HIDE DEF S
  <2>4. a \in Nat /\ l \in Nat /\ at[(m + 1) + 1] = a + Len(PosixChar(c)) /\ at[(m + 1) + 1] <= Len(J)
        /\ at[(m + 1) + 1] \in Nat
    <3>1. a \in Nat /\ at[(m + 1) + 1] \in Nat
      BY <1>5, <2>2
    <3>2. at[(m + 1) + 1] = a + Len(chars[m + 1]) /\ chars[m + 1] = PosixChar(c)
      BY <1>3, <1>5, <2>2
    <3>3. at[(m + 1) + 1] <= Len(J)
      BY <1>5, <2>2
    <3> HIDE DEF a, c
    <3>4. QED
      BY <3>1, <3>2, <3>3
  <2>5. Len(PosixChar(c)) \in Nat
    <3> HIDE DEF c
    <3>1. Len(<<c>>) = 1 /\ Len(<<Quote, Backslash, Quote, Quote>>) = 4
      OBVIOUS
    <3>2. QED
      BY <3>1 DEF PosixChar
  <2>6. ASSUME NEW x \in 1..Len(PosixChar(c))
        PROVE  text[l + x] = PosixChar(c)[x]
    <3>1. J[a + x] = PosixChar(c)[x]
      BY <1>3, <1>5, <2>2
    <3> HIDE DEF a, c
    <3>2. a + x \in 1..Len(J)
      BY <1>6, <2>4, <2>5
    <3>3. (a + x) + 1 \in 1..Len(Q) /\ Q[(a + x) + 1] = J[a + x]
      BY <1>6, <3>2
    <3>4. l + x = k + ((a + x) + 1)
      BY <2>4, <2>5 DEF l
    <3>5. QED
      BY <1>7, <3>1, <3>3, <3>4
  <2> HIDE DEF a, c
  <2>7. Spelled(text, l, PosixChar(c))
    <3>1. l + Len(PosixChar(c)) <= Len(text)
      BY <1>6, <1>7, <2>4, <2>5 DEF l
    <3>2. QED
      BY <2>6, <3>1 DEF Spelled
  <2> DEFINE before == SubSeq(word, 1, m)
  <2>8. SubSeq(word, 1, m + 1) = before \o <<c>>
    BY <2>2, PrefixGrows DEF c, n
  <2>9. k + 1 + at[(m + 1) + 1] = l + Len(PosixChar(c))
    BY <2>4, <2>5 DEF l
  <2> HIDE DEF before, l
  <2>10. f[l] = Reader(W, before, Yes, Yes, 0)
    BY <2>3 DEF before
  <2>11. f[l + Len(PosixChar(c))] = Reader(W, before \o <<c>>, Yes, Yes, 0)
    BY <2>4, <2>7, <2>10, PosixCharRead
  <2>12. QED
    BY <2>8, <2>9, <2>11
<1>12. S = Nat
  <2> HIDE DEF S
  <2>1. S \in SUBSET Nat
    BY DEF S
  <2>2. QED
    BY <1>10, <1>11, <2>1, SetInduction
<1>13. f[k + 1 + Len(J)] = Reader(W, word, Yes, Yes, 0)
  <2>1. f[k + 1 + at[n + 1]] = Reader(W, SubSeq(word, 1, n), Yes, Yes, 0)
    BY <1>1, <1>12
  <2>2. SubSeq(word, 1, n) = word
    BY PrefixGrows DEF n
  <2>3. QED
    BY <1>5, <2>1, <2>2
<1> HIDE DEF S
<1>14. /\ k + Len(Q) \in 1..Len(text) /\ (k + Len(Q)) - 1 = k + 1 + Len(J)
       /\ text[k + Len(Q)] = Quote
  BY <1>6, <1>7
<1>15. f[k + Len(Q)] = PosixStep(f[k + 1 + Len(J)], Quote)
  BY <1>14 DEF PosixStates
<1>16. QED
  BY <1>13, <1>15, PosixSteps DEF Q

(***************************************************************************)
(* The words of a command, one after the other                             *)
(***************************************************************************)
\* Words with a space between every two.
Parts(quoted) == [i \in 1..Len(quoted) |-> (IF i = 1 THEN <<>> ELSE <<Space>>) \o quoted[i]]

\* A reader in the states f of the text that takes each word as it was before it was quoted.
ReadsWords(f, text, words, quoted) ==
  /\ f[0] = Between(<<>>)
  /\ \A k \in Nat : \A i \in 1..Len(words) : \A W :
       f[k] = Between(W) /\ Spelled(text, k, quoted[i])
         => f[k + Len(quoted[i])] = Reader(W, words[i], No, Yes, 0)
  /\ \A k \in Nat : \A i \in 1..Len(words) : \A W :
       k + 1 <= Len(text) /\ text[k + 1] = Space /\ f[k] = Reader(W, words[i], No, Yes, 0)
         => f[k + 1] = Between(Append(W, words[i]))

LEMMA WordsRead ==
  ASSUME NEW T, Space \in T, NEW words \in Seq(Seq(T)), NEW quoted \in Seq(Seq(T)),
         Len(quoted) = Len(words), Len(words) > 0,
         NEW f, ReadsWords(f, Joined(Parts(quoted)), words, quoted)
  PROVE  f[Len(Joined(Parts(quoted)))]
           = Reader(SubSeq(words, 1, Len(words) - 1), words[Len(words)], No, Yes, 0)
<1> DEFINE n == Len(words)
           parts == Parts(quoted)
           text == Joined(parts)
<1>1. n \in Nat /\ n > 0 /\ \A i \in 1..n : quoted[i] \in Seq(T) /\ Len(quoted[i]) \in Nat
  OBVIOUS
<1>2. /\ parts \in Seq(Seq(T)) /\ Len(parts) = n
      /\ parts[1] = <<>> \o quoted[1]
      /\ \A i \in 2..n : parts[i] = <<Space>> \o quoted[i]
  <2>1. \A i \in 1..n : (IF i = 1 THEN <<>> ELSE <<Space>>) \o quoted[i] \in Seq(T)
    BY <1>1
  <2>2. parts \in Seq(Seq(T)) /\ Len(parts) = n
    BY <1>1, <2>1 DEF Parts
  <2>3. \A i \in 1..n : parts[i] = (IF i = 1 THEN <<>> ELSE <<Space>>) \o quoted[i]
    BY <1>1 DEF Parts
  <2> HIDE DEF parts, n
  <2>4. 1 \in 1..n /\ \A i \in 2..n : i \in 1..n /\ i # 1
    BY <1>1
  <2>5. parts[1] = <<>> \o quoted[1]
    BY ONLY <2>3, <2>4
  <2>6. \A i \in 2..n : parts[i] = <<Space>> \o quoted[i]
    BY ONLY <2>3, <2>4
  <2>7. QED
    BY <2>2, <2>5, <2>6 DEF n
<1> HIDE DEF parts
<1>3. text \in Seq(T) /\ \E at : Laid(parts, text, at)
  BY <1>2, JoinedLaid
<1>4. PICK at : Laid(parts, text, at)
  BY <1>3
<1> HIDE DEF text, n
<1>5. /\ at \in [1..(n + 1) -> Nat] /\ at[1] = 0 /\ Len(text) = at[n + 1]
      /\ \A i \in 1..n : at[i + 1] = at[i] + Len(parts[i])
      /\ \A i, j \in 1..(n + 1) : i <= j => at[i] <= at[j]
      /\ \A i \in 1..n : \A x \in 1..Len(parts[i]) : text[at[i] + x] = parts[i][x]
  BY <1>2, <1>4 DEF Laid
<1>6. parts[1] = quoted[1]
  <2>1. 1 \in 1..n
    BY <1>1
  <2>2. QED
    BY <1>1, <1>2, <2>1
<1>7. ASSUME NEW i \in 2..n
      PROVE  /\ Len(parts[i]) = Len(quoted[i]) + 1 /\ parts[i][1] = Space
             /\ \A x \in 1..Len(quoted[i]) : parts[i][1 + x] = quoted[i][x]
  <2>1. i \in 1..n
    BY <1>1
  <2>2. quoted[i] \in Seq(T) /\ <<Space>> \in Seq(T) /\ Len(<<Space>>) = 1 /\ <<Space>>[1] = Space
        /\ parts[i] = <<Space>> \o quoted[i]
    BY <1>1, <1>2, <2>1
  <2>3. QED
    BY ONLY <2>2, Concatenated
<1>8. /\ \A k \in Nat : \A i \in 1..n : \A W :
           f[k] = Between(W) /\ Spelled(text, k, quoted[i])
             => f[k + Len(quoted[i])] = Reader(W, words[i], No, Yes, 0)
      /\ \A k \in Nat : \A i \in 1..n : \A W :
           k + 1 <= Len(text) /\ text[k + 1] = Space /\ f[k] = Reader(W, words[i], No, Yes, 0)
             => f[k + 1] = Between(Append(W, words[i]))
      /\ f[0] = Between(<<>>)
  BY DEF ReadsWords, text, n, parts
<1> DEFINE S == {m \in Nat : m + 1 <= n =>
                   f[at[m + 2]] = Reader(SubSeq(words, 1, m), words[m + 1], No, Yes, 0)}
<1>9. 0 \in S
  <2>1. 1 \in 1..n /\ 1 \in 1..(n + 1) /\ 1 + 1 = 2 /\ 2 \in 1..(n + 1) /\ n + 1 \in 1..(n + 1) /\ 2 <= n + 1
    BY <1>1
  <2>2. at[2] = Len(quoted[1]) /\ at[2] <= Len(text) /\ \A x \in 1..Len(quoted[1]) : text[0 + x] = quoted[1][x]
    <3>1. at[1 + 1] = 0 + Len(quoted[1]) /\ Len(quoted[1]) \in Nat
      BY <1>1, <1>5, <1>6, <2>1
    <3>2. at[2] <= Len(text)
      BY <1>5, <2>1
    <3>3. \A x \in 1..Len(quoted[1]) : text[0 + x] = quoted[1][x]
      BY <1>5, <1>6, <2>1
    <3>4. QED
      BY <2>1, <3>1, <3>2, <3>3
  <2>3. Spelled(text, 0, quoted[1])
    BY <1>1, <2>1, <2>2 DEF Spelled
  <2>4. f[0 + Len(quoted[1])] = Reader(<<>>, words[1], No, Yes, 0)
    BY <1>8, <2>1, <2>3
  <2>5. SubSeq(words, 1, 0) = <<>>
    BY PrefixGrows
  <2>6. QED
    <3>1. 0 + Len(quoted[1]) = at[2] /\ 0 + 2 = 2 /\ 0 + 1 = 1
      BY <1>1, <2>1, <2>2
    <3>2. QED
      BY <2>4, <2>5, <3>1
<1>10. ASSUME NEW m \in S
       PROVE  m + 1 \in S
  <2>1. SUFFICES ASSUME (m + 1) + 1 <= n
                 PROVE  f[at[(m + 1) + 2]] = Reader(SubSeq(words, 1, m + 1), words[(m + 1) + 1], No, Yes, 0)
    OBVIOUS
  <2>2. m \in Nat
    OBVIOUS
  <2> DEFINE l == m + 2
             a == at[l]
  <2>3. f[a] = Reader(SubSeq(words, 1, m), words[m + 1], No, Yes, 0)
    BY <1>1, <2>1, <2>2
  <2> HIDE DEF S, a
  <2>4. /\ l \in 2..n /\ l \in 1..n /\ l \in 1..(n + 1) /\ l + 1 \in 1..(n + 1) /\ n + 1 \in 1..(n + 1) /\ l + 1 <= n + 1
        /\ (m + 1) + 2 = l + 1 /\ (m + 1) + 1 = l /\ m \in 0..(n - 1)
    BY <1>1, <2>1, <2>2
  <2> HIDE DEF l
  <2>5. a \in Nat /\ at[l + 1] = a + (Len(quoted[l]) + 1) /\ at[l + 1] <= Len(text) /\ Len(text) \in Nat
        /\ Len(quoted[l]) \in Nat
    BY <1>1, <1>5, <1>7, <2>4 DEF a
  <2>6. text[a + 1] = Space /\ \A x \in 1..Len(quoted[l]) : text[(a + 1) + x] = quoted[l][x]
    <3>1. 1 \in 1..Len(parts[l]) /\ \A x \in 1..Len(quoted[l]) : 1 + x \in 1..Len(parts[l])
      <4>1. Len(parts[l]) = Len(quoted[l]) + 1 /\ Len(quoted[l]) \in Nat
        BY <1>7, <2>4, <2>5
      <4>2. QED
        BY <4>1
    <3>2. \A x \in 1..Len(parts[l]) : text[a + x] = parts[l][x]
      BY <1>5, <2>4 DEF a
    <3>3. ASSUME NEW x \in 1..Len(quoted[l])
          PROVE  text[(a + 1) + x] = quoted[l][x]
      <4>1. text[a + (1 + x)] = quoted[l][x]
        BY <1>7, <2>4, <3>1, <3>2
      <4>2. a + (1 + x) = (a + 1) + x
        BY <2>5
      <4>3. QED
        BY <4>1, <4>2
    <3>4. QED
      BY <1>7, <2>4, <3>1, <3>2, <3>3
  <2>7. a + 1 \in Nat /\ a + 1 <= Len(text) /\ (a + 1) + Len(quoted[l]) = at[l + 1] /\ (a + 1) + Len(quoted[l]) <= Len(text)
    <3> DEFINE b == Len(quoted[l])
               e == at[l + 1]
               t == Len(text)
    <3>1. a \in Nat /\ b \in Nat /\ t \in Nat /\ e = a + (b + 1) /\ e <= t
      BY <2>5
    <3> HIDE DEF b, e, t
    <3>2. a + 1 \in Nat /\ a + 1 <= t /\ (a + 1) + b = e /\ (a + 1) + b <= t
      BY <3>1
    <3>3. QED
      BY <3>2 DEF b, e, t
  <2>8. f[a + 1] = Between(Append(SubSeq(words, 1, m), words[m + 1]))
    <3>1. m + 1 \in 1..n
      BY <1>1, <2>1, <2>2
    <3>2. QED
      BY <1>8, <2>3, <2>5, <2>6, <2>7, <3>1
  <2>9. Append(SubSeq(words, 1, m), words[m + 1]) = SubSeq(words, 1, m + 1)
    BY <2>4, PrefixGrows DEF n
  <2>10. Spelled(text, a + 1, quoted[l])
    BY <2>6, <2>7 DEF Spelled
  <2>11. f[(a + 1) + Len(quoted[l])] = Reader(SubSeq(words, 1, m + 1), words[l], No, Yes, 0)
    BY <1>8, <2>4, <2>7, <2>8, <2>9, <2>10
  <2>12. QED
    BY <2>4, <2>7, <2>11
<1>11. S = Nat
  <2> HIDE DEF S
  <2>1. S \in SUBSET Nat
    BY DEF S
  <2>2. QED
    BY <1>9, <1>10, <2>1, SetInduction
<1>12. n - 1 \in Nat /\ (n - 1) + 1 = n /\ (n - 1) + 2 = n + 1
  BY <1>1
<1>13. f[at[n + 1]] = Reader(SubSeq(words, 1, n - 1), words[n], No, Yes, 0)
  <2>1. n - 1 \in S
    BY <1>11, <1>12
  <2>2. QED
    BY <1>12, <2>1
<1>14. QED
  BY <1>5, <1>13 DEF n, text, parts

LEMMA LastWord ==
  ASSUME NEW T, NEW W, NEW w \in Seq(T), NEW q, NEW s, s = Reader(W, w, q, Yes, 0)
  PROVE  EndWord(Flushed(s, s.held)).words = Append(W, w)
<1> DEFINE none == Times(0, Backslash)
<1>1. s.held = 0
  BY ReaderIs
<1>2. none = <<>>
  BY DEF Times
<1>3. w \o none = w
  BY <1>2
<1>4. Flushed(s, 0) = Reader(W, w \o none, q, Yes, 0)
  BY ReaderFlushed
<1> HIDE DEF none
<1>5. Flushed(s, 0) = Reader(W, w, q, Yes, 0)
  BY <1>3, <1>4
<1>6. EndWord(Flushed(s, 0)) = Reader(Append(W, w), <<>>, q, No, 0)
  BY <1>5, ReaderEndsWord
<1>7. EndWord(Flushed(s, 0)).words = Append(W, w)
  <2> DEFINE e == EndWord(Flushed(s, 0))
             V == Append(W, w)
             x == <<>>
  <2>1. e = Reader(V, x, q, No, 0)
    BY <1>6
  <2> HIDE DEF e, V, x
  <2>2. e.words = V
    BY <2>1, ReaderIs
  <2>3. QED
    BY <2>2 DEF e, V
<1>8. QED
  BY ONLY <1>1, <1>7

LEMMA AllWords ==
  ASSUME NEW T, NEW words \in Seq(T), Len(words) > 0
  PROVE  Append(SubSeq(words, 1, Len(words) - 1), words[Len(words)]) = words
<1>1. Len(words) - 1 \in 0..(Len(words) - 1) /\ (Len(words) - 1) + 1 = Len(words)
  OBVIOUS
<1>2. QED
  BY <1>1, PrefixGrows

LEMMA StartIsBetween == Start = Between(<<>>)
  BY DEF Start, Between, Reader, No

LEMMA FirstOfParts ==
  ASSUME NEW T, Space \in T, NEW quoted \in Seq(Seq(T)), Len(quoted) > 0, Len(quoted[1]) > 0
  PROVE  LET text == Joined(Parts(quoted)) IN
         text \in Seq(T) /\ Len(text) \in Nat /\ Len(text) > 0 /\ text[1] = quoted[1][1]
<1> DEFINE n == Len(quoted)
           parts == Parts(quoted)
           text == Joined(parts)
<1>1. n \in Nat /\ 1 \in 1..n /\ 1 \in 1..(n + 1) /\ n + 1 \in 1..(n + 1) /\ 1 + 1 \in 1..(n + 1)
      /\ 1 + 1 <= n + 1 /\ quoted[1] \in Seq(T)
  OBVIOUS
<1>2. \A i \in 1..n : (IF i = 1 THEN <<>> ELSE <<Space>>) \o quoted[i] \in Seq(T)
  OBVIOUS
<1>3. parts \in Seq(Seq(T)) /\ Len(parts) = n /\ parts[1] = <<>> \o quoted[1]
  BY <1>1, <1>2 DEF Parts
<1>4. parts[1] = quoted[1]
  BY <1>1, <1>3
<1> HIDE DEF parts
<1>5. text \in Seq(T) /\ \E at : Laid(parts, text, at)
  BY <1>3, JoinedLaid
<1>6. PICK at : Laid(parts, text, at)
  BY <1>5
<1> HIDE DEF text
<1>7. /\ at \in [1..(n + 1) -> Nat] /\ at[1] = 0 /\ Len(text) = at[n + 1]
      /\ at[1 + 1] = at[1] + Len(parts[1]) /\ at[1 + 1] <= at[n + 1]
      /\ \A x \in 1..Len(parts[1]) : text[at[1] + x] = parts[1][x]
  BY <1>1, <1>3, <1>6 DEF Laid
<1>8. Len(quoted[1]) \in Nat /\ 1 \in 1..Len(quoted[1]) /\ 0 + 1 = 1
  BY <1>1
<1>9. text[1] = quoted[1][1]
  BY <1>4, <1>7, <1>8
<1>10. Len(text) \in Nat /\ Len(text) > 0
  BY <1>1, <1>4, <1>7, <1>8
<1>11. QED
  BY <1>5, <1>9, <1>10 DEF text, parts

PosixQuoted(words) == [i \in 1..Len(words) |-> PosixQuote(words[i])]

LEMMA PosixRoundTrip ==
  ASSUME NEW T, Quote \in T, Backslash \in T, Space \in T, NEW words \in Seq(Seq(T)), Len(words) > 0
  PROVE  /\ PosixWords(Joined(Parts(PosixQuoted(words)))) = words
         /\ Joined(Parts(PosixQuoted(words))) \in Seq(T)
         /\ Len(Joined(Parts(PosixQuoted(words)))) > 0
         /\ Joined(Parts(PosixQuoted(words)))[1] = Quote
<1> DEFINE quoted == PosixQuoted(words)
           text == Joined(Parts(quoted))
           n == Len(words)
<1>1. n \in Nat /\ \A i \in 1..n : words[i] \in Seq(T) /\ PosixQuote(words[i]) \in Seq(T)
  <2>1. \A i \in 1..n : words[i] \in Seq(T)
    OBVIOUS
  <2>2. \A word \in Seq(T) : PosixQuote(word) \in Seq(T)
    BY PosixQuoteTyped
  <2>3. QED
    BY <2>1, <2>2
<1>2. quoted \in Seq(Seq(T)) /\ Len(quoted) = n /\ \A i \in 1..n : quoted[i] = PosixQuote(words[i])
  BY <1>1 DEF PosixQuoted
<1> HIDE DEF quoted
<1>3. Len(quoted[1]) > 0 /\ quoted[1][1] = Quote
  <2>1. 1 \in 1..n
    BY <1>1
  <2> DEFINE J == Joined([i \in 1..Len(words[1]) |-> PosixChar(words[1][i])])
  <2>2. J \in Seq(T) /\ PosixQuote(words[1]) = <<Quote>> \o J \o <<Quote>>
    BY <1>1, <2>1, PosixQuoteTyped
  <2> HIDE DEF J
  <2>3. Len(<<Quote>> \o J \o <<Quote>>) > 0 /\ (<<Quote>> \o J \o <<Quote>>)[1] = Quote
    BY <2>2
  <2>4. quoted[1] = PosixQuote(words[1])
    BY <1>2, <2>1
  <2>5. QED
    BY ONLY <2>2, <2>3, <2>4
<1>4. text \in Seq(T) /\ Len(text) > 0 /\ text[1] = quoted[1][1] /\ Len(text) \in Nat
  BY <1>1, <1>2, <1>3, FirstOfParts
<1>5. PICK f : PosixStates(f, text) /\ PosixRead(text) = f[Len(text)]
  BY <1>4, PosixReadStates
<1> HIDE DEF text
<1>6. ReadsWords(f, text, words, quoted)
  <2>1. f[0] = Between(<<>>)
    BY <1>5, StartIsBetween DEF PosixStates
  <2>2. ASSUME NEW k \in Nat, NEW i \in 1..n, NEW W, f[k] = Between(W), Spelled(text, k, quoted[i])
        PROVE  f[k + Len(quoted[i])] = Reader(W, words[i], No, Yes, 0)
    <3>1. quoted[i] = PosixQuote(words[i]) /\ words[i] \in Seq(T)
      BY <1>1, <1>2
    <3>2. QED
      <4> DEFINE word == words[i]
      <4>1. /\ word \in Seq(T) /\ Quote \in T /\ Backslash \in T
            /\ Len(text) \in Nat /\ PosixStates(f, text)
        BY <1>4, <1>5, <3>1
      <4>2. k \in Nat /\ f[k] = Between(W) /\ Spelled(text, k, PosixQuote(word))
        BY <2>2, <3>1
      <4> HIDE DEF word
      <4>3. f[k + Len(PosixQuote(word))] = Reader(W, word, No, Yes, 0)
        BY ONLY <4>1, <4>2, PosixWordRead
      <4>4. QED
        BY <3>1, <4>3 DEF word
  <2>3. ASSUME NEW k \in Nat, NEW i \in 1..n, NEW W,
               k + 1 <= Len(text), text[k + 1] = Space, f[k] = Reader(W, words[i], No, Yes, 0)
        PROVE  f[k + 1] = Between(Append(W, words[i]))
    <3>1. k + 1 \in 1..Len(text) /\ (k + 1) - 1 = k
      <4>1. k \in Nat /\ Len(text) \in Nat /\ k + 1 <= Len(text)
        BY <1>4, <2>3
      <4>2. QED
        BY ONLY <4>1
    <3>2. f[k + 1] = PosixStep(f[k], Space)
      BY <1>5, <2>3, <3>1 DEF PosixStates
    <3>3. QED
      BY <2>3, <3>2, PosixSteps
  <2>4. QED
    BY <2>1, <2>2, <2>3 DEF ReadsWords
<1>7. PosixRead(text) = Reader(SubSeq(words, 1, n - 1), words[n], No, Yes, 0)
  BY <1>2, <1>5, <1>6, WordsRead DEF text
<1>8. PosixWords(text) = Append(SubSeq(words, 1, n - 1), words[n])
  <2>1. words[n] \in Seq(T)
    BY <1>1
  <2>2. QED
    <3> DEFINE end == PosixRead(text)
               V == SubSeq(words, 1, n - 1)
               w == words[n]
    <3>1. end = Reader(V, w, No, Yes, 0) /\ w \in Seq(T)
      BY <1>7, <2>1
    <3> HIDE DEF end, V, w
    <3>2. EndWord(Flushed(end, end.held)).words = Append(V, w)
      BY <3>1, LastWord
    <3>3. EndWord(Flushed(end, end.held)).words = Append(SubSeq(words, 1, n - 1), words[n])
      BY <3>2 DEF V, w
    <3>4. PosixWords(text) = EndWord(Flushed(end, end.held)).words
      BY DEF PosixWords, end
    <3>5. QED
      BY ONLY <3>3, <3>4
<1>9. PosixWords(text) = words
  BY <1>8, AllWords
<1>10. QED
  BY <1>4, <1>9, <1>3 DEF text, quoted

(***************************************************************************)
(* A word quoted for Windows is read as it was                             *)
(* The writer holds backslashes back until it knows what follows them, and *)
(* so does the reader; character by character, what the writer has put out *)
(* is read as the part of the word it has not held back.                   *)
(***************************************************************************)
\* What WindowsStep does, case by case.
LEMMA WindowsCases ==
  ASSUME NEW s, NEW c
  PROVE  /\ c = Backslash => WindowsStep(s, c) = HoldsBack(s)
         /\ c = DoubleQuote /\ s.held % 2 = 1 => WindowsStep(s, c) = Adds(Flushed(s, s.held \div 2), <<c>>)
         /\ c = DoubleQuote /\ s.held % 2 = 0 => WindowsStep(s, c) = Toggles(Flushed(s, s.held \div 2))
         /\ c = Space /\ s.quoted = No => WindowsStep(s, c) = EndWord(Flushed(s, s.held))
         /\ c \notin {Backslash, DoubleQuote} /\ s.quoted = Yes
              => WindowsStep(s, c) = Adds(Flushed(s, s.held), <<c>>)
<1>1. DoubleQuote # Backslash /\ DoubleQuote # Space /\ Backslash # Space
  BY CharacterAssumption
<1>2. c = Backslash => WindowsStep(s, c) = HoldsBack(s)
  BY DEF WindowsStep
<1>3. c = DoubleQuote /\ s.held % 2 = 1 => WindowsStep(s, c) = Adds(Flushed(s, s.held \div 2), <<c>>)
  BY <1>1 DEF WindowsStep
<1>4. c = DoubleQuote /\ s.held % 2 = 0 => WindowsStep(s, c) = Toggles(Flushed(s, s.held \div 2))
  <2>1. 0 # 1
    OBVIOUS
  <2>2. QED
    BY <1>1, <2>1, Zenon DEF WindowsStep
<1>5. c = Space /\ s.quoted = No => WindowsStep(s, c) = EndWord(Flushed(s, s.held))
  BY <1>1 DEF WindowsStep, No
<1>6. c \notin {Backslash, DoubleQuote} /\ s.quoted = Yes
        => WindowsStep(s, c) = Adds(Flushed(s, s.held), <<c>>)
  BY <1>1 DEF WindowsStep, Yes
<1>7. QED
  BY <1>2, <1>3, <1>4, <1>5, <1>6

LEMMA NoneHeld ==
  ASSUME NEW T, NEW w \in Seq(T)
  PROVE  w \o Times(0, Backslash) = w
<1>1. Times(0, Backslash) = <<>>
  BY DEF Times
<1>2. QED
  BY <1>1

LEMMA ReaderMoves ==
  ASSUME NEW W, NEW v, NEW q, NEW b, NEW h, NEW s, s = Reader(W, v, q, b, h)
  PROVE  /\ s.held = h /\ s.quoted = q
         /\ HoldsBack(s) = Reader(W, v, q, Yes, h + 1)
         /\ \A n : Flushed(s, n) = Reader(W, v \o Times(n, Backslash), q, b, 0)
         /\ \A c : Adds(s, <<c>>) = Reader(W, v \o <<c>>, q, Yes, h)
         /\ q = No => Toggles(s) = Reader(W, v, Yes, Yes, h)
         /\ q = Yes => Toggles(s) = Reader(W, v, No, Yes, h)
         /\ b = Yes => EndWord(s) = Reader(Append(W, v), <<>>, q, No, h)
  BY ReaderIs, ReaderAdds, ReaderFlushed, ReaderHolds, ReaderOpens, ReaderEndsWord

LEMMA WindowsKeeps ==
  ASSUME NEW T, NEW W, NEW w \in Seq(T), NEW h \in Nat, NEW c, c \notin {Backslash, DoubleQuote}
  PROVE  WindowsStep(Reader(W, w, Yes, Yes, h), c) = Reader(W, PutOut(w, h, c), Yes, Yes, 0)
<1> DEFINE r == Reader(W, w, Yes, Yes, h)
           v == w \o Times(h, Backslash)
<1>1. r.held = h /\ r.quoted = Yes /\ Flushed(r, h) = Reader(W, v, Yes, Yes, 0)
  BY ReaderMoves
<1>2. Adds(Reader(W, v, Yes, Yes, 0), <<c>>) = Reader(W, v \o <<c>>, Yes, Yes, 0)
  BY ReaderMoves
<1> HIDE DEF r, v
<1>3. WindowsStep(r, c) = Adds(Flushed(r, r.held), <<c>>)
  BY <1>1, WindowsCases
<1>4. WindowsStep(r, c) = Reader(W, v \o <<c>>, Yes, Yes, 0)
  BY <1>1, <1>2, <1>3
<1>5. QED
  BY <1>4 DEF r, v, PutOut

LEMMA WindowsSteps ==
  ASSUME NEW T, NEW W, NEW w \in Seq(T)
  PROVE  /\ \A h \in Nat :
              WindowsStep(Reader(W, w, Yes, Yes, h), Backslash) = Reader(W, w, Yes, Yes, h + 1)
         /\ WindowsStep(Reader(W, w, Yes, Yes, 1), DoubleQuote)
              = Reader(W, w \o <<DoubleQuote>>, Yes, Yes, 0)
         /\ \A h \in Nat :
              WindowsStep(Reader(W, w, Yes, Yes, 2 * h), DoubleQuote)
                = Reader(W, w \o Times(h, Backslash), No, Yes, 0)
         /\ WindowsStep(Reader(W, w, No, Yes, 0), Space) = Between(Append(W, w))
         /\ WindowsStep(Between(W), DoubleQuote) = Reader(W, <<>>, Yes, Yes, 0)
<1>1. ASSUME NEW h \in Nat
      PROVE  WindowsStep(Reader(W, w, Yes, Yes, h), Backslash) = Reader(W, w, Yes, Yes, h + 1)
  <2> DEFINE r == Reader(W, w, Yes, Yes, h)
  <2>1. HoldsBack(r) = Reader(W, w, Yes, Yes, h + 1)
    BY ReaderMoves
  <2> HIDE DEF r
  <2>2. WindowsStep(r, Backslash) = HoldsBack(r)
    BY WindowsCases
  <2>3. WindowsStep(r, Backslash) = Reader(W, w, Yes, Yes, h + 1)
    BY ONLY <2>1, <2>2
  <2>4. QED
    BY <2>3 DEF r
<1>2. WindowsStep(Reader(W, w, Yes, Yes, 1), DoubleQuote)
        = Reader(W, w \o <<DoubleQuote>>, Yes, Yes, 0)
  <2> DEFINE r == Reader(W, w, Yes, Yes, 1)
             v == w \o Times(0, Backslash)
  <2>1. r.held = 1 /\ Flushed(r, 0) = Reader(W, v, Yes, Yes, 0)
    BY ReaderMoves
  <2>2. v = w /\ 1 % 2 = 1 /\ 1 \div 2 = 0
    BY NoneHeld
  <2>3. Adds(Reader(W, w, Yes, Yes, 0), <<DoubleQuote>>) = Reader(W, w \o <<DoubleQuote>>, Yes, Yes, 0)
    BY ReaderMoves
  <2> HIDE DEF r, v
  <2>4. WindowsStep(r, DoubleQuote) = Adds(Flushed(r, r.held \div 2), <<DoubleQuote>>)
    BY <2>1, <2>2, WindowsCases
  <2>5. WindowsStep(r, DoubleQuote) = Reader(W, w \o <<DoubleQuote>>, Yes, Yes, 0)
    BY <2>1, <2>2, <2>3, <2>4
  <2>6. QED
    BY <2>5 DEF r
<1>3. ASSUME NEW h \in Nat
      PROVE  WindowsStep(Reader(W, w, Yes, Yes, 2 * h), DoubleQuote)
               = Reader(W, w \o Times(h, Backslash), No, Yes, 0)
  <2> DEFINE r == Reader(W, w, Yes, Yes, 2 * h)
             v == w \o Times(h, Backslash)
  <2>1. r.held = 2 * h /\ Flushed(r, h) = Reader(W, v, Yes, Yes, 0)
    <3> DEFINE k == 2 * h
    <3> HIDE DEF k
    <3>1. Reader(W, w, Yes, Yes, k).held = k
      BY ReaderMoves
    <3>2. Flushed(Reader(W, w, Yes, Yes, k), h) = Reader(W, v, Yes, Yes, 0)
      BY ReaderMoves
    <3>3. QED
      BY <3>1, <3>2 DEF k
  <2>2. (2 * h) % 2 = 0 /\ (2 * h) \div 2 = h
    OBVIOUS
  <2>3. Toggles(Reader(W, v, Yes, Yes, 0)) = Reader(W, v, No, Yes, 0)
    BY ReaderMoves
  <2> HIDE DEF r, v
  <2>4. WindowsStep(r, DoubleQuote) = Toggles(Flushed(r, r.held \div 2))
    BY <2>1, <2>2, WindowsCases
  <2>5. WindowsStep(r, DoubleQuote) = Reader(W, v, No, Yes, 0)
    BY <2>1, <2>2, <2>3, <2>4
  <2>6. QED
    BY <2>5 DEF r, v
<1>4. WindowsStep(Reader(W, w, No, Yes, 0), Space) = Between(Append(W, w))
  <2> DEFINE r == Reader(W, w, No, Yes, 0)
             v == w \o Times(0, Backslash)
  <2>1. r.held = 0 /\ r.quoted = No /\ Flushed(r, 0) = Reader(W, v, No, Yes, 0)
    BY ReaderMoves
  <2>2. v = w
    BY NoneHeld
  <2>3. EndWord(Reader(W, w, No, Yes, 0)) = Between(Append(W, w))
    BY ReaderMoves DEF Between
  <2> HIDE DEF r, v
  <2>4. WindowsStep(r, Space) = EndWord(Flushed(r, r.held))
    BY <2>1, WindowsCases
  <2>5. WindowsStep(r, Space) = Between(Append(W, w))
    BY <2>1, <2>2, <2>3, <2>4
  <2>6. QED
    BY <2>5 DEF r
<1>5. WindowsStep(Between(W), DoubleQuote) = Reader(W, <<>>, Yes, Yes, 0)
  <2> DEFINE r == Between(W)
             x == <<>>
             v == x \o Times(0, Backslash)
  <2>1. r = Reader(W, x, No, No, 0)
    BY DEF Between
  <2> HIDE DEF x
  <2>2. r.held = 0 /\ Flushed(r, 0) = Reader(W, v, No, No, 0)
    <3>1. Reader(W, x, No, No, 0).held = 0 /\ Flushed(Reader(W, x, No, No, 0), 0) = Reader(W, v, No, No, 0)
      BY ReaderMoves
    <3> HIDE DEF r, v
    <3>2. QED
      BY ONLY <2>1, <3>1
  <2> HIDE DEF r
  <2>3. v = x /\ 0 % 2 = 0 /\ 0 \div 2 = 0
    <3>1. x \in Seq({})
      BY DEF x
    <3>2. QED
      BY <3>1, NoneHeld
  <2>4. Toggles(Reader(W, x, No, No, 0)) = Reader(W, x, Yes, Yes, 0)
    BY ReaderMoves
  <2> HIDE DEF v
  <2>5. WindowsStep(r, DoubleQuote) = Toggles(Flushed(r, r.held \div 2))
    BY <2>2, <2>3, WindowsCases
  <2>6. WindowsStep(r, DoubleQuote) = Reader(W, x, Yes, Yes, 0)
    BY <2>2, <2>3, <2>4, <2>5
  <2>7. QED
    BY <2>6 DEF r, x
<1>6. QED
  BY <1>1, <1>2, <1>3, <1>4, <1>5

HoldsRun(text, k, r) == \A j \in 1..r : text[k + j] = Backslash
LEMMA HeldRead ==
  ASSUME NEW T, NEW text, Len(text) \in Nat, NEW f, WindowsStates(f, text), NEW k \in Nat,
         NEW W, NEW w \in Seq(T), f[k] = Reader(W, w, Yes, Yes, 0),
         NEW r \in Nat, k + r <= Len(text), HoldsRun(text, k, r)
  PROVE  f[k + r] = Reader(W, w, Yes, Yes, r)
<1> DEFINE S == {m \in Nat : m <= r => f[k + m] = Reader(W, w, Yes, Yes, m)}
<1>1. 0 \in S
  OBVIOUS
<1>2. ASSUME NEW m \in S
      PROVE  m + 1 \in S
  <2>1. SUFFICES ASSUME m + 1 <= r
                 PROVE  f[k + (m + 1)] = Reader(W, w, Yes, Yes, m + 1)
    OBVIOUS
  <2>2. m \in Nat /\ f[k + m] = Reader(W, w, Yes, Yes, m)
    BY <2>1
  <2> HIDE DEF S
  <2>3. k + (m + 1) \in 1..Len(text) /\ (k + (m + 1)) - 1 = k + m /\ m + 1 \in 1..r
    BY <2>1, <2>2
  <2>4. f[k + (m + 1)] = WindowsStep(f[k + m], Backslash)
    BY <2>3 DEF WindowsStates, HoldsRun
  <2>5. WindowsStep(Reader(W, w, Yes, Yes, m), Backslash) = Reader(W, w, Yes, Yes, m + 1)
    BY <2>2, WindowsSteps
  <2>6. QED
    BY ONLY <2>2, <2>4, <2>5
<1>3. S = Nat
  <2> HIDE DEF S
  <2>1. S \in SUBSET Nat
    BY DEF S
  <2>2. QED
    BY <1>1, <1>2, <2>1, SetInduction
<1>4. r \in S
  BY <1>3
<1>5. QED
  BY <1>4

IsPutOut(b, a, r, c) ==
  /\ Len(b) = Len(a) + r + 1 /\ b[Len(a) + r + 1] = c
  /\ \A j \in 1..Len(a) : b[j] = a[j]
  /\ \A j \in 1..r : b[Len(a) + j] = Backslash
LEMMA HeldLaid ==
  ASSUME NEW T, NEW a \in Seq(T), NEW r \in Nat, NEW c \in T, Backslash \in T
  PROVE  IsPutOut(PutOut(a, r, c), a, r, c) /\ PutOut(a, r, c) \in Seq(T)
<1> DEFINE t == Times(r, Backslash)
           d == a \o t
           b == d \o <<c>>
<1>1. t \in Seq(T) /\ Len(t) = r /\ \A k \in 1..r : t[k] = Backslash
  BY TimesSeq
<1>2. <<c>> \in Seq(T) /\ Len(<<c>>) = 1 /\ <<c>>[1] = c
  OBVIOUS
<1> HIDE DEF t
<1>3. /\ d \in Seq(T) /\ Len(a) \in Nat /\ Len(d) = Len(a) + r
      /\ \A k \in 1..Len(a) : d[k] = a[k]
      /\ \A k \in 1..r : d[Len(a) + k] = t[k]
  <2>1. a \in Seq(T) /\ t \in Seq(T)
    BY <1>1
  <2>2. /\ a \o t \in Seq(T) /\ Len(a) \in Nat /\ Len(a \o t) = Len(a) + Len(t)
        /\ \A k \in 1..Len(a) : (a \o t)[k] = a[k]
        /\ \A k \in 1..Len(t) : (a \o t)[Len(a) + k] = t[k]
    BY ONLY <2>1, Concatenated
  <2>3. QED
    BY <1>1, <2>2
<1> HIDE DEF d
<1>4. /\ b \in Seq(T) /\ Len(b) = Len(d) + 1
      /\ \A k \in 1..Len(d) : b[k] = d[k]
      /\ b[Len(d) + 1] = c
  <2> DEFINE e == <<c>>
  <2>1. e \in Seq(T) /\ Len(e) = 1 /\ e[1] = c
    BY <1>2
  <2> HIDE DEF e
  <2>2. d \in Seq(T) /\ e \in Seq(T)
    BY <1>3, <2>1
  <2>3. /\ d \o e \in Seq(T) /\ Len(d \o e) = Len(d) + Len(e)
        /\ \A k \in 1..Len(d) : (d \o e)[k] = d[k]
        /\ \A k \in 1..Len(e) : (d \o e)[Len(d) + k] = e[k]
    BY ONLY <2>2, Concatenated
  <2>4. (d \o e)[Len(d) + 1] = c /\ Len(d \o e) = Len(d) + 1
    BY <2>1, <2>3
  <2>5. QED
    BY ONLY <2>3, <2>4 DEF e
<1> HIDE DEF b
<1>5. \A j \in 1..Len(a) : b[j] = a[j]
  BY <1>3, <1>4
<1>6. \A j \in 1..r : b[Len(a) + j] = Backslash
  <2>1. \A j \in 1..r : Len(a) + j \in 1..Len(d)
    BY <1>3
  <2>2. QED
    BY <1>1, <1>3, <1>4, <2>1
<1>7. b \in Seq(T) /\ Len(b) = Len(a) + r + 1 /\ b[Len(a) + r + 1] = c
  BY <1>3, <1>4
<1>8. QED
  BY <1>5, <1>6, <1>7 DEF b, d, t, PutOut, IsPutOut

LEMMA HeldPrefix ==
  ASSUME NEW T, Backslash \in T, NEW a \in Seq(T), NEW m \in 0..Len(a), NEW h \in 0..m,
         \A j \in (m - h + 1)..m : a[j] = Backslash
  PROVE  SubSeq(a, 1, m - h) \o Times(h, Backslash) = SubSeq(a, 1, m)
<1> DEFINE p == SubSeq(a, 1, m - h)
           t == Times(h, Backslash)
           q == SubSeq(a, 1, m)
<1>1. Len(a) \in Nat /\ m \in Nat /\ h \in Nat /\ m - h \in 0..Len(a)
  OBVIOUS
<1>2. p \in Seq(T) /\ Len(p) = m - h /\ \A k \in 1..(m - h) : p[k] = a[k]
  BY <1>1, PrefixGrows
<1>3. q \in Seq(T) /\ Len(q) = m /\ \A k \in 1..m : q[k] = a[k]
  BY PrefixGrows
<1>4. t \in Seq(T) /\ Len(t) = h /\ \A k \in 1..h : t[k] = Backslash
  BY <1>1, TimesSeq
<1> HIDE DEF p, t, q
<1>5. /\ p \o t \in Seq(T) /\ Len(p \o t) = (m - h) + h
      /\ \A k \in 1..(m - h) : (p \o t)[k] = p[k]
      /\ \A k \in 1..h : (p \o t)[(m - h) + k] = t[k]
  BY <1>2, <1>4, Concatenated
<1>6. ASSUME NEW k \in 1..m
      PROVE  (p \o t)[k] = q[k]
  <2>1. CASE k <= m - h
    <3>1. k \in 1..(m - h)
      BY <1>1, <2>1
    <3>2. QED
      BY <1>2, <1>3, <1>5, <3>1
  <2>2. CASE ~ (k <= m - h)
    <3>1. k - (m - h) \in 1..h /\ (m - h) + (k - (m - h)) = k /\ k \in (m - h + 1)..m
      BY <1>1, <2>2
    <3>2. (p \o t)[k] = Backslash
      BY <1>4, <1>5, <3>1
    <3>3. QED
      BY <1>3, <3>1, <3>2
  <2>3. QED
    BY <2>1, <2>2
<1>7. Len(p \o t) = m
  BY <1>1, <1>5
<1>8. p \o t = q
  BY <1>3, <1>5, <1>6, <1>7, Extensional
<1>9. QED
  BY <1>8 DEF p, t, q

IsOpening(a, b) == Len(a) <= Len(b) /\ \A j \in 1..Len(a) : b[j] = a[j]

\* What the writer of a word has put out, it keeps.
LEMMA OutputGrows ==
  ASSUME NEW T, Backslash \in T, NEW word \in Seq(T), NEW g, QuoteStates(g, word),
         \A i \in 0..Len(word) : g[i] \in WriterState(T),
         NEW m \in 0..Len(word)
  PROVE  IsOpening(g[m].out, g[Len(word)].out)
<1> DEFINE n == Len(word)
<1>1. n \in Nat /\ \A i \in 1..n : word[i] \in T
  OBVIOUS
<1>2. \A i \in 0..n : g[i].out \in Seq(T) /\ g[i].held \in Nat /\ Len(g[i].out) \in Nat
  BY DEF WriterState
<1>3. ASSUME NEW i \in 1..n
      PROVE  IsOpening(g[i - 1].out, g[i].out)
  <2> DEFINE s == g[i - 1]
             c == word[i]
             r == IF c = DoubleQuote THEN s.held + 1 ELSE s.held
  <2>1. i - 1 \in 0..n /\ c \in T
    BY <1>1
  <2>2. s.out \in Seq(T) /\ s.held \in Nat
    BY <1>2, <2>1
  <2>3. g[i] = QuoteStep(s, c)
    BY DEF QuoteStates
  <2>4. CASE c = Backslash
    <3>1. s \in WriterState(T)
      BY <2>1
    <3> HIDE DEF s
    <3>2. g[i].out = s.out
      BY <2>3, <2>4, <3>1 DEF QuoteStep, WriterState
    <3>3. Len(s.out) \in Nat /\ \A j \in 1..Len(s.out) : g[i].out[j] = s.out[j]
      BY <2>2, <3>2 DEF s
    <3>4. QED
      BY <3>2, <3>3 DEF IsOpening, s
  <2>5. CASE c # Backslash
    <3>1. r \in Nat
      BY <2>2
    <3>2. g[i].out = s.out \o Times(r, Backslash) \o <<c>>
      <4> DEFINE o == s.out \o Times(r, Backslash) \o <<c>>
      <4>1. g[i] = [out |-> o, held |-> 0]
        BY <2>3, <2>5 DEF QuoteStep
      <4> HIDE DEF o
      <4>2. g[i].out = o
        BY <4>1
      <4>3. QED
        BY <4>2 DEF o
    <3> HIDE DEF s, c, r
    <3>3. IsOpening(s.out, s.out \o Times(r, Backslash) \o <<c>>)
      <4> DEFINE b == s.out \o Times(r, Backslash) \o <<c>>
      <4>1. Len(b) = Len(s.out) + r + 1 /\ \A j \in 1..Len(s.out) : b[j] = s.out[j]
        <5> DEFINE a == s.out
        <5>1. a \in Seq(T) /\ c \in T /\ r \in Nat /\ Backslash \in T
          BY <2>1, <2>2, <3>1
        <5> HIDE DEF a
        <5>2. IsPutOut(PutOut(a, r, c), a, r, c)
          BY ONLY <5>1, HeldLaid
        <5>3. QED
          BY <5>2 DEF a, PutOut, IsPutOut
      <4> HIDE DEF b
      <4>2. Len(s.out) \in Nat
        BY <2>2
      <4>3. IsOpening(s.out, b)
        BY <3>1, <4>1, <4>2 DEF IsOpening
      <4>4. QED
        BY <4>3 DEF b
    <3>4. QED
      BY <3>2, <3>3 DEF s
  <2>6. QED
    BY <2>4, <2>5
<1> DEFINE S == {d \in Nat : m + d <= n => IsOpening(g[m].out, g[m + d].out)}
<1> HIDE DEF n
<1>4. 0 \in S
  BY <1>2 DEF IsOpening, n
<1>5. ASSUME NEW d \in S
      PROVE  d + 1 \in S
  <2>1. SUFFICES ASSUME m + (d + 1) <= n
                 PROVE  IsOpening(g[m].out, g[m + (d + 1)].out)
    OBVIOUS
  <2>2. d \in Nat /\ m \in 0..n
    BY DEF n
  <2>3. IsOpening(g[m].out, g[m + d].out)
    BY <1>1, <2>1, <2>2
  <2> HIDE DEF S
  <2>4. m + (d + 1) \in 1..n /\ (m + (d + 1)) - 1 = m + d /\ m + d \in 0..n /\ m + (d + 1) \in 0..n
    BY <1>1, <2>1, <2>2
  <2>5. IsOpening(g[m + d].out, g[m + (d + 1)].out)
    BY <1>3, <2>4
  <2>6. Len(g[m].out) \in Nat /\ Len(g[m + d].out) \in Nat /\ Len(g[m + (d + 1)].out) \in Nat
    BY <1>2, <2>2, <2>4
  <2>7. QED
    <3> DEFINE a == g[m].out
               b == g[m + d].out
               c == g[m + (d + 1)].out
    <3>1. IsOpening(a, b) /\ IsOpening(b, c) /\ Len(a) \in Nat /\ Len(b) \in Nat /\ Len(c) \in Nat
      BY <2>3, <2>5, <2>6
    <3> HIDE DEF a, b, c
    <3>2. IsOpening(a, c)
      BY <3>1 DEF IsOpening
    <3>3. QED
      BY <3>2 DEF a, c
<1>6. S = Nat
  <2> HIDE DEF S
  <2>1. S \in SUBSET Nat
    BY DEF S
  <2>2. QED
    BY <1>4, <1>5, <2>1, SetInduction
<1>7. n - m \in Nat /\ m + (n - m) = n /\ m + (n - m) <= n
  <2>1. m \in 0..n
    BY DEF n
  <2>2. QED
    BY <1>1, <2>1
<1>8. IsOpening(g[m].out, g[n].out)
  <2>1. n - m \in S
    BY <1>6, <1>7
  <2>2. QED
    BY <1>7, <2>1
<1>9. QED
  BY <1>8 DEF n

\* Reader and writer of a word agree: what is held back has not been read.
Agree(word, s, r, W, m) ==
  /\ s.held \in 0..m /\ \A j \in (m - s.held + 1)..m : word[j] = Backslash
  /\ r = Reader(W, SubSeq(word, 1, m - s.held), Yes, Yes, 0)

\* One character more.
LEMMA AgreeStep ==
  ASSUME NEW T, Backslash \in T, DoubleQuote \in T, NEW word \in Seq(T), Quotable(word),
         NEW text, Len(text) \in Nat, NEW f, WindowsStates(f, text), NEW k \in Nat, NEW W,
         NEW m \in Nat, m + 1 <= Len(word), NEW s \in WriterState(T),
         Agree(word, s, f[k + Len(s.out)], W, m),
         Spelled(text, k, QuoteStep(s, word[m + 1]).out)
  PROVE  Agree(word, QuoteStep(s, word[m + 1]), f[k + Len(QuoteStep(s, word[m + 1]).out)], W, m + 1)
<1> DEFINE a == s.out
           h == s.held
           c == word[m + 1]
           l == k + Len(a)
           w == SubSeq(word, 1, m - h)
           s1 == QuoteStep(s, c)
<1>1. /\ Len(word) \in Nat /\ m + 1 \in 1..Len(word) /\ m \in 0..Len(word) /\ c \in T
      /\ m \in 0..(Len(word) - 1) /\ m + 1 \in 0..Len(word)
  OBVIOUS
<1>2. a \in Seq(T) /\ Len(a) \in Nat /\ h \in Nat /\ l \in Nat
  BY DEF WriterState
<1>3. h \in 0..m /\ (\A j \in (m - h + 1)..m : word[j] = Backslash) /\ f[l] = Reader(W, w, Yes, Yes, 0)
  BY DEF Agree
<1>4. m - h \in 0..Len(word) /\ w \in Seq(T)
  <2>1. m - h \in 0..Len(word)
    BY <1>1, <1>2, <1>3
  <2>2. QED
    BY <2>1, PrefixGrows
<1>5. SubSeq(word, 1, m + 1) = SubSeq(word, 1, m) \o <<c>> /\ SubSeq(word, 1, m) \in Seq(T)
  BY <1>1, PrefixGrows
<1>6. w \o Times(h, Backslash) = SubSeq(word, 1, m)
  BY <1>1, <1>3, HeldPrefix
<1>7. CASE c = Backslash
  <2>1. s1.out = a /\ s1.held = h + 1
    <3>1. s1 = [s EXCEPT !.held = h + 1]
      BY <1>7 DEF QuoteStep
    <3> HIDE DEF h, s1
    <3>2. QED
      BY <3>1 DEF WriterState
  <2> HIDE DEF s1, a, h
  <2>2. (m + 1) - (h + 1) = m - h /\ h + 1 \in 0..(m + 1)
    BY <1>1, <1>2, <1>3
  <2>3. \A j \in ((m + 1) - (h + 1) + 1)..(m + 1) : word[j] = Backslash
    <3>1. \A j \in ((m + 1) - (h + 1) + 1)..(m + 1) : j = m + 1 \/ j \in (m - h + 1)..m
      BY <1>1, <1>2, <1>3
    <3>2. QED
      BY <1>3, <1>7, <3>1
  <2>4. Agree(word, s1, f[l], W, m + 1)
    BY <1>3, <2>1, <2>2, <2>3 DEF Agree
  <2>5. QED
    BY <2>1, <2>4 DEF s1, l
<1>8. CASE c # Backslash
  <2> DEFINE r == IF c = DoubleQuote THEN h + 1 ELSE h
             b == PutOut(a, r, c)
  <2>1. s1.out = b /\ s1.held = 0 /\ r \in Nat
    <3>1. s1 = [out |-> b, held |-> 0]
      BY <1>8 DEF QuoteStep, PutOut
    <3> HIDE DEF b, s1
    <3>2. r \in Nat
      BY <1>2
    <3>3. QED
      BY <3>1, <3>2
  <2> HIDE DEF s1
  <2>2. IsPutOut(b, a, r, c)
    <3>1. a \in Seq(T) /\ r \in Nat /\ c \in T /\ Backslash \in T
      BY <1>1, <1>2, <2>1
    <3> HIDE DEF a, r, c
    <3>2. QED
      BY ONLY <3>1, HeldLaid
  <2>3. Spelled(text, k, b)
    BY <2>1 DEF s1
  <2> HIDE DEF a, b, r, c, h
  <2>4. /\ Len(b) = Len(a) + r + 1 /\ k + Len(b) <= Len(text)
        /\ text[l + (r + 1)] = c /\ \A j \in 1..r : text[l + j] = Backslash
        /\ k + Len(b) = l + (r + 1) /\ l + (r + 1) \in 1..Len(text) /\ (l + (r + 1)) - 1 = l + r
    <3>1. Len(b) = Len(a) + r + 1 /\ b[Len(a) + r + 1] = c /\ \A j \in 1..r : b[Len(a) + j] = Backslash
      BY <2>2 DEF IsPutOut
    <3>2. k + Len(b) <= Len(text) /\ \A j \in 1..Len(b) : text[k + j] = b[j]
      BY <2>3 DEF Spelled
    <3>3. Len(a) + r + 1 \in 1..Len(b) /\ k + (Len(a) + r + 1) = l + (r + 1)
      BY <1>2, <2>1, <3>1
    <3>4. \A j \in 1..r : Len(a) + j \in 1..Len(b) /\ k + (Len(a) + j) = l + j
      BY <1>2, <2>1, <3>1
    <3>5. text[l + (r + 1)] = c
      BY <3>1, <3>2, <3>3
    <3>6. ASSUME NEW j \in 1..r
          PROVE  text[l + j] = Backslash
      BY <3>1, <3>2, <3>4
    <3> HIDE DEF l
    <3>7. k + Len(b) = l + (r + 1) /\ l + (r + 1) \in 1..Len(text) /\ (l + (r + 1)) - 1 = l + r
      BY <1>2, <2>1, <3>1, <3>2, <3>3
    <3>8. QED
      BY <3>1, <3>2, <3>5, <3>6, <3>7
  <2> HIDE DEF l, w
  <2>5. f[l + r] = Reader(W, w, Yes, Yes, r)
    <3>1. l + r <= Len(text)
      BY <1>2, <2>1, <2>4
    <3>2. /\ WindowsStates(f, text) /\ Len(text) \in Nat /\ l \in Nat /\ w \in Seq(T) /\ r \in Nat
          /\ f[l] = Reader(W, w, Yes, Yes, 0) /\ HoldsRun(text, l, r)
      BY <1>2, <1>3, <1>4, <2>1, <2>4 DEF HoldsRun
    <3>3. QED
      BY ONLY <3>1, <3>2, HeldRead
  <2>6. f[l + (r + 1)] = WindowsStep(Reader(W, w, Yes, Yes, r), c)
    BY <2>4, <2>5 DEF WindowsStates
  <2>7. WindowsStep(Reader(W, w, Yes, Yes, r), c) = Reader(W, SubSeq(word, 1, m + 1), Yes, Yes, 0)
    <3>1. CASE c = DoubleQuote
      <4>1. h = 0
        <5>1. SUFFICES ASSUME h # 0
                       PROVE  FALSE
          OBVIOUS
        <5>2. m \in (m - h + 1)..m /\ m \in 1..(Len(word) - 1)
          BY <1>1, <1>2, <1>3, <5>1
        <5>3. word[m] = Backslash
          BY <1>3, <5>2
        <5>4. word[m + 1] # DoubleQuote
          BY <5>2, <5>3 DEF Quotable
        <5>5. QED
          BY <3>1, <5>4 DEF c
      <4>2. r = 1
        BY <3>1, <4>1 DEF r
      <4>3. w = SubSeq(word, 1, m)
        BY <1>4, <1>6, <4>1, NoneHeld
      <4>4. WindowsStep(Reader(W, w, Yes, Yes, 1), DoubleQuote) = Reader(W, w \o <<DoubleQuote>>, Yes, Yes, 0)
        BY <1>4, WindowsSteps
      <4>5. QED
        BY ONLY <1>5, <3>1, <4>2, <4>3, <4>4
    <3>2. CASE c # DoubleQuote
      <4>1. r = h
        BY <3>2 DEF r
      <4>2. WindowsStep(Reader(W, w, Yes, Yes, h), c) = Reader(W, PutOut(w, h, c), Yes, Yes, 0)
        <5>1. w \in Seq(T) /\ h \in Nat /\ c \in T /\ c \notin {Backslash, DoubleQuote}
          BY <1>1, <1>2, <1>4, <1>8, <3>2 DEF c, h
        <5>2. QED
          BY ONLY <5>1, WindowsKeeps
      <4>3. PutOut(w, h, c) = SubSeq(word, 1, m + 1)
        BY <1>5, <1>6 DEF PutOut, c
      <4>4. QED
        BY ONLY <4>1, <4>2, <4>3
    <3>3. QED
      BY <3>1, <3>2
  <2>8. Agree(word, s1, f[l + (r + 1)], W, m + 1)
    <3>1. (m + 1) - 0 = m + 1 /\ 0 \in 0..(m + 1) /\ \A j \in ((m + 1) - 0 + 1)..(m + 1) : FALSE
      OBVIOUS
    <3>2. QED
      BY <2>1, <2>6, <2>7, <3>1 DEF Agree
  <2>9. QED
    BY <2>1, <2>4, <2>8 DEF s1, c
<1>9. QED
  BY <1>7, <1>8

LEMMA WrittenExists ==
  ASSUME NEW T, Backslash \in T, DoubleQuote \in T, NEW word \in Seq(T)
  PROVE  \E g : WrittenAs(g, word, T)
<1>1. T \cup {Backslash, DoubleQuote} = T
  OBVIOUS
<1>2. QED
  BY <1>1, WindowsQuoteStates

LEMMA SpelledBegins ==
  ASSUME NEW text, NEW k \in Nat, NEW a, NEW b, Len(text) \in Nat, Len(a) \in Nat, Len(b) \in Nat,
         IsOpening(a, b), Spelled(text, k, b)
  PROVE  Spelled(text, k, a)
<1>1. Len(a) <= Len(b) /\ \A j \in 1..Len(a) : b[j] = a[j] /\ j \in 1..Len(b)
  BY DEF IsOpening
<1>2. QED
  BY <1>1 DEF Spelled

\* What a word is written as.
LEMMA WrittenLaid ==
  ASSUME NEW T, Backslash \in T, DoubleQuote \in T, NEW word \in Seq(T), NEW g, WrittenAs(g, word, T)
  PROVE  LET e == g[Len(word)].out
             h == g[Len(word)].held
             Q == WindowsQuote(word)
         IN  /\ Q \in Seq(T) /\ Len(Q) \in Nat /\ e \in Seq(T) /\ Len(e) \in Nat /\ h \in Nat
             /\ IsPutOut(Q, e, 2 * h, DoubleQuote)
             /\ \A m \in 0..Len(word) : IsOpening(g[m].out, Q) /\ Len(g[m].out) \in Nat
<1> DEFINE n == Len(word)
           e == g[n].out
           h == g[n].held
           Q == WindowsQuote(word)
<1>1. n \in 0..n
  OBVIOUS
<1>2. QuoteStates(g, word) /\ (\A i \in 0..n : g[i] \in WriterState(T)) /\ Q = PutOut(e, 2 * h, DoubleQuote)
  BY DEF WrittenAs
<1>3. e \in Seq(T) /\ h \in Nat /\ \A i \in 0..n : g[i].out \in Seq(T) /\ Len(g[i].out) \in Nat
  BY <1>1, <1>2 DEF WriterState
<1>4. \A m \in 0..n : IsOpening(g[m].out, e)
  BY <1>2, OutputGrows
<1> HIDE DEF e, h, Q
<1>5. IsPutOut(Q, e, 2 * h, DoubleQuote) /\ Q \in Seq(T)
  <2> DEFINE r == 2 * h
  <2>1. e \in Seq(T) /\ r \in Nat /\ DoubleQuote \in T /\ Backslash \in T /\ Q = PutOut(e, r, DoubleQuote)
    BY <1>2, <1>3
  <2> HIDE DEF r
  <2>2. IsPutOut(PutOut(e, r, DoubleQuote), e, r, DoubleQuote) /\ PutOut(e, r, DoubleQuote) \in Seq(T)
    BY ONLY <2>1, HeldLaid
  <2>3. QED
    BY <2>1, <2>2 DEF r
<1>6. Len(e) \in Nat /\ Len(Q) \in Nat
  BY <1>3, <1>5
<1>7. IsOpening(e, Q)
  <2>1. Len(Q) = Len(e) + 2 * h + 1 /\ \A j \in 1..Len(e) : Q[j] = e[j]
    BY <1>5 DEF IsPutOut
  <2>2. QED
    BY <1>3, <1>6, <2>1 DEF IsOpening
<1>8. ASSUME NEW m \in 0..n
      PROVE  IsOpening(g[m].out, Q)
  <2> DEFINE a == g[m].out
  <2>1. IsOpening(a, e) /\ Len(a) \in Nat
    BY <1>3, <1>4
  <2> HIDE DEF a
  <2>2. IsOpening(a, Q)
    BY <1>6, <1>7, <2>1 DEF IsOpening
  <2>3. QED
    BY <2>2 DEF a
<1>9. QED
  BY <1>3, <1>5, <1>6, <1>8 DEF e, h, Q

\* What a written word begins with.
LEMMA WindowsQuoteTyped ==
  ASSUME NEW T, Backslash \in T, DoubleQuote \in T, NEW word \in Seq(T)
  PROVE  /\ WindowsQuote(word) \in Seq(T) /\ Len(WindowsQuote(word)) > 0
         /\ WindowsQuote(word)[1] = DoubleQuote
<1>1. PICK g : WrittenAs(g, word, T)
  BY WrittenExists
<1> DEFINE Q == WindowsQuote(word)
           a == g[0].out
<1>2. Q \in Seq(T) /\ Len(Q) \in Nat /\ IsOpening(a, Q)
  <2>1. 0 \in 0..Len(word)
    OBVIOUS
  <2>2. QED
    BY <1>1, <2>1, WrittenLaid
<1>3. a = <<DoubleQuote>>
  BY <1>1 DEF WrittenAs, QuoteStates, Unwritten
<1>4. Len(a) = 1 /\ a[1] = DoubleQuote
  BY <1>3
<1> HIDE DEF a, Q
<1>5. Len(Q) > 0 /\ Q[1] = DoubleQuote
  BY <1>2, <1>4 DEF IsOpening
<1>6. QED
  BY <1>2, <1>5 DEF Q

\* A word without a backslash before a double quote is read as it was written.
LEMMA WindowsWordRead ==
  ASSUME NEW T, Backslash \in T, DoubleQuote \in T, NEW word \in Seq(T), Quotable(word),
         NEW text, Len(text) \in Nat, NEW f, WindowsStates(f, text),
         NEW k \in Nat, NEW W, f[k] = Between(W), Spelled(text, k, WindowsQuote(word))
  PROVE  f[k + Len(WindowsQuote(word))] = Reader(W, word, No, Yes, 0)
<1> DEFINE n == Len(word)
           Q == WindowsQuote(word)
<1>1. PICK g : WrittenAs(g, word, T)
  BY WrittenExists
<1> DEFINE e == g[n].out
           h == g[n].held
           q == k + Len(e)
<1>2. /\ QuoteStates(g, word) /\ \A i \in 0..n : g[i] \in WriterState(T)
      /\ n \in Nat
  BY <1>1 DEF WrittenAs
<1>3. /\ Q \in Seq(T) /\ Len(Q) \in Nat /\ e \in Seq(T) /\ Len(e) \in Nat /\ h \in Nat
      /\ IsPutOut(Q, e, 2 * h, DoubleQuote)
      /\ \A m \in 0..n : IsOpening(g[m].out, Q) /\ Len(g[m].out) \in Nat
  BY <1>1, WrittenLaid
<1>4. Spelled(text, k, Q)
  OBVIOUS
<1> HIDE DEF n, Q, e, h
<1>5. ASSUME NEW m \in 0..n
      PROVE  Spelled(text, k, g[m].out)
  <2> DEFINE a == g[m].out
  <2>1. IsOpening(a, Q) /\ Len(a) \in Nat
    BY <1>3
  <2> HIDE DEF a
  <2>2. Spelled(text, k, a)
    BY <1>3, <1>4, <2>1, SpelledBegins
  <2>3. QED
    BY <2>2 DEF a
<1> DEFINE S == {m \in Nat : m <= n => Agree(word, g[m], f[k + Len(g[m].out)], W, m)}
<1>6. 0 \in S
  <2> DEFINE a == g[0].out
             x == <<>>
  <2>1. a = <<DoubleQuote>> /\ g[0].held = 0
    BY <1>2 DEF QuoteStates, Unwritten
  <2>2. Len(a) = 1 /\ a[1] = DoubleQuote
    BY <2>1
  <2>3. Spelled(text, k, a)
    BY <1>2, <1>5
  <2> HIDE DEF a
  <2>4. k + 1 \in 1..Len(text) /\ (k + 1) - 1 = k /\ text[k + 1] = DoubleQuote
    BY <2>2, <2>3 DEF Spelled
  <2>5. WindowsStep(Between(W), DoubleQuote) = Reader(W, x, Yes, Yes, 0)
    BY WindowsSteps
  <2>6. SubSeq(word, 1, 0 - 0) = x
    BY PrefixGrows
  <2> HIDE DEF x
  <2>7. f[k + 1] = WindowsStep(f[k], DoubleQuote)
    BY <2>4 DEF WindowsStates
  <2>8. f[k + Len(a)] = Reader(W, SubSeq(word, 1, 0 - 0), Yes, Yes, 0)
    BY <2>2, <2>5, <2>6, <2>7
  <2>9. 0 \in 0..0 /\ \A j \in (0 - 0 + 1)..0 : FALSE
    OBVIOUS
  <2>10. Agree(word, g[0], f[k + Len(a)], W, 0)
    BY <2>1, <2>8, <2>9 DEF Agree
  <2>11. QED
    BY <2>10 DEF a
<1>7. ASSUME NEW m \in S
      PROVE  m + 1 \in S
  <2>1. SUFFICES ASSUME m + 1 <= n
                 PROVE  Agree(word, g[m + 1], f[k + Len(g[m + 1].out)], W, m + 1)
    OBVIOUS
  <2>2. m \in Nat /\ m + 1 \in 1..n /\ (m + 1) - 1 = m /\ m \in 0..n /\ m + 1 \in 0..n /\ m <= n
    BY <1>2, <2>1
  <2>3. Agree(word, g[m], f[k + Len(g[m].out)], W, m)
    BY <2>2
  <2> HIDE DEF S
  <2> DEFINE s == g[m]
             t == QuoteStep(s, word[m + 1])
  <2>4. g[m + 1] = t
    BY <1>2, <2>2 DEF QuoteStates, n
  <2>5. s \in WriterState(T) /\ Agree(word, s, f[k + Len(s.out)], W, m) /\ Spelled(text, k, g[m + 1].out)
    BY <1>2, <1>5, <2>2, <2>3
  <2>6. m + 1 <= Len(word)
    BY <2>1 DEF n
  <2>7. Spelled(text, k, t.out)
    BY <2>4, <2>5
  <2> HIDE DEF s
  <2>8. Agree(word, t, f[k + Len(t.out)], W, m + 1)
    BY <2>2, <2>5, <2>6, <2>7, AgreeStep
  <2> HIDE DEF t
  <2>9. QED
    BY <2>4, <2>8
<1>8. S = Nat
  <2> HIDE DEF S
  <2>1. S \in SUBSET Nat
    BY DEF S
  <2>2. QED
    BY <1>6, <1>7, <2>1, SetInduction
<1>9. Agree(word, g[n], f[q], W, n)
  <2>1. Agree(word, g[n], f[k + Len(g[n].out)], W, n)
    BY <1>2, <1>8
  <2>2. QED
    BY <2>1 DEF e
<1> HIDE DEF S
<1> DEFINE w == SubSeq(word, 1, n - h)
<1>10. /\ h \in 0..n /\ f[q] = Reader(W, w, Yes, Yes, 0)
       /\ \A j \in (n - h + 1)..n : word[j] = Backslash
  BY <1>9 DEF Agree, h
<1>11. w \in Seq(T) /\ w \o Times(h, Backslash) = word
  <2>1. n - h \in 0..n
    BY <1>2, <1>10
  <2>2. w \in Seq(T)
    BY <2>1, PrefixGrows DEF n
  <2>3. w \o Times(h, Backslash) = SubSeq(word, 1, n)
    <3>1. n \in 0..Len(word) /\ h \in 0..n /\ \A j \in (n - h + 1)..n : word[j] = Backslash
      BY <1>2, <1>10 DEF n
    <3>2. QED
      BY <3>1, HeldPrefix
  <2>4. SubSeq(word, 1, n) = word
    BY PrefixGrows DEF n
  <2>5. QED
    BY ONLY <2>2, <2>3, <2>4
<1> HIDE DEF w
<1>12. /\ q \in Nat /\ q + 2 * h <= Len(text) /\ HoldsRun(text, q, 2 * h)
       /\ k + Len(Q) \in 1..Len(text) /\ (k + Len(Q)) - 1 = q + 2 * h
       /\ text[k + Len(Q)] = DoubleQuote
  <2>1. /\ Len(Q) = Len(e) + 2 * h + 1 /\ Q[Len(e) + 2 * h + 1] = DoubleQuote
        /\ \A j \in 1..(2 * h) : Q[Len(e) + j] = Backslash
    BY <1>3 DEF IsPutOut
  <2>2. k + Len(Q) <= Len(text) /\ \A j \in 1..Len(Q) : text[k + j] = Q[j]
    BY <1>4 DEF Spelled
  <2>3. Len(Q) \in 1..Len(Q)
    BY <1>3, <2>1
  <2>4. text[k + Len(Q)] = DoubleQuote
    BY <2>1, <2>2, <2>3
  <2>5. /\ q \in Nat /\ q + 2 * h <= Len(text)
        /\ k + Len(Q) \in 1..Len(text) /\ (k + Len(Q)) - 1 = q + 2 * h
    BY <1>3, <2>1, <2>2
  <2>6. ASSUME NEW j \in 1..(2 * h)
        PROVE  text[q + j] = Backslash
    <3>1. Len(e) + j \in 1..Len(Q) /\ k + (Len(e) + j) = q + j
      BY <1>3, <2>1
    <3>2. QED
      BY <2>1, <2>2, <3>1
  <2>7. QED
    BY <2>4, <2>5, <2>6 DEF HoldsRun
<1> HIDE DEF q
<1>13. f[q + 2 * h] = Reader(W, w, Yes, Yes, 2 * h)
  <2> DEFINE r == 2 * h
  <2>1. /\ WindowsStates(f, text) /\ Len(text) \in Nat /\ q \in Nat /\ w \in Seq(T) /\ r \in Nat
        /\ f[q] = Reader(W, w, Yes, Yes, 0) /\ q + r <= Len(text) /\ HoldsRun(text, q, r)
    BY <1>3, <1>10, <1>11, <1>12
  <2> HIDE DEF r
  <2>2. f[q + r] = Reader(W, w, Yes, Yes, r)
    BY ONLY <2>1, HeldRead
  <2>3. QED
    BY <2>2 DEF r
<1>14. f[k + Len(Q)] = WindowsStep(Reader(W, w, Yes, Yes, 2 * h), DoubleQuote)
  BY <1>12, <1>13 DEF WindowsStates
<1>15. WindowsStep(Reader(W, w, Yes, Yes, 2 * h), DoubleQuote) = Reader(W, w \o Times(h, Backslash), No, Yes, 0)
  <2>1. w \in Seq(T) /\ h \in Nat
    BY <1>3, <1>11
  <2>2. QED
    BY ONLY <2>1, WindowsSteps
<1>16. QED
  BY <1>11, <1>14, <1>15 DEF Q

WindowsQuoted(words) == [i \in 1..Len(words) |-> WindowsQuote(words[i])]

LEMMA WindowsRoundTrip ==
  ASSUME NEW T, DoubleQuote \in T, Backslash \in T, Space \in T, NEW words \in Seq(Seq(T)), Len(words) > 0,
         \A i \in 1..Len(words) : Quotable(words[i])
  PROVE  /\ WindowsWords(Joined(Parts(WindowsQuoted(words)))) = words
         /\ Joined(Parts(WindowsQuoted(words))) \in Seq(T)
         /\ Len(Joined(Parts(WindowsQuoted(words)))) > 0
         /\ Joined(Parts(WindowsQuoted(words)))[1] = DoubleQuote
<1> DEFINE quoted == WindowsQuoted(words)
           text == Joined(Parts(quoted))
           n == Len(words)
<1>1. n \in Nat /\ \A i \in 1..n : words[i] \in Seq(T) /\ WindowsQuote(words[i]) \in Seq(T)
  <2>1. \A i \in 1..n : words[i] \in Seq(T)
    OBVIOUS
  <2>2. \A word \in Seq(T) : WindowsQuote(word) \in Seq(T)
    BY WindowsQuoteTyped
  <2>3. QED
    BY <2>1, <2>2
<1>2. quoted \in Seq(Seq(T)) /\ Len(quoted) = n /\ \A i \in 1..n : quoted[i] = WindowsQuote(words[i])
  BY <1>1 DEF WindowsQuoted
<1> HIDE DEF quoted
<1>3. Len(quoted[1]) > 0 /\ quoted[1][1] = DoubleQuote
  <2>1. 1 \in 1..n
    BY <1>1
  <2>2. Len(WindowsQuote(words[1])) > 0 /\ WindowsQuote(words[1])[1] = DoubleQuote
    BY <1>1, <2>1, WindowsQuoteTyped
  <2>3. quoted[1] = WindowsQuote(words[1])
    BY <1>2, <2>1
  <2>4. QED
    BY ONLY <2>2, <2>3
<1>4. text \in Seq(T) /\ Len(text) > 0 /\ text[1] = quoted[1][1] /\ Len(text) \in Nat
  BY <1>1, <1>2, <1>3, FirstOfParts
<1>5. PICK f : WindowsStates(f, text) /\ WindowsRead(text) = f[Len(text)]
  BY <1>4, WindowsReadStates
<1> HIDE DEF text
<1>6. ReadsWords(f, text, words, quoted)
  <2>1. f[0] = Between(<<>>)
    BY <1>5, StartIsBetween DEF WindowsStates
  <2>2. ASSUME NEW k \in Nat, NEW i \in 1..n, NEW W, f[k] = Between(W), Spelled(text, k, quoted[i])
        PROVE  f[k + Len(quoted[i])] = Reader(W, words[i], No, Yes, 0)
    <3>1. quoted[i] = WindowsQuote(words[i]) /\ words[i] \in Seq(T) /\ Quotable(words[i])
      BY <1>1, <1>2
    <3>2. QED
      <4>1. /\ words[i] \in Seq(T) /\ Backslash \in T /\ DoubleQuote \in T /\ Quotable(words[i])
            /\ Len(text) \in Nat /\ WindowsStates(f, text) /\ k \in Nat
            /\ f[k] = Between(W) /\ Spelled(text, k, WindowsQuote(words[i]))
        BY <1>4, <1>5, <2>2, <3>1
      <4>2. f[k + Len(WindowsQuote(words[i]))] = Reader(W, words[i], No, Yes, 0)
        BY ONLY <4>1, WindowsWordRead
      <4>3. QED
        BY <3>1, <4>2
  <2>3. ASSUME NEW k \in Nat, NEW i \in 1..n, NEW W,
               k + 1 <= Len(text), text[k + 1] = Space, f[k] = Reader(W, words[i], No, Yes, 0)
        PROVE  f[k + 1] = Between(Append(W, words[i]))
    <3>1. k + 1 \in 1..Len(text) /\ (k + 1) - 1 = k
      <4>1. k \in Nat /\ Len(text) \in Nat /\ k + 1 <= Len(text)
        BY <1>4, <2>3
      <4>2. QED
        BY ONLY <4>1
    <3>2. f[k + 1] = WindowsStep(f[k], Space)
      BY <1>5, <2>3, <3>1 DEF WindowsStates
    <3>3. QED
      BY <2>3, <3>2, WindowsSteps
  <2>4. QED
    BY <2>1, <2>2, <2>3 DEF ReadsWords
<1>7. WindowsRead(text) = Reader(SubSeq(words, 1, n - 1), words[n], No, Yes, 0)
  BY <1>2, <1>5, <1>6, WordsRead DEF text
<1>8. WindowsWords(text) = Append(SubSeq(words, 1, n - 1), words[n])
  <2>1. words[n] \in Seq(T)
    BY <1>1
  <2>2. QED
    <3> DEFINE end == WindowsRead(text)
               V == SubSeq(words, 1, n - 1)
               w == words[n]
    <3>1. end = Reader(V, w, No, Yes, 0) /\ w \in Seq(T)
      BY <1>7, <2>1
    <3> HIDE DEF end, V, w
    <3>2. EndWord(Flushed(end, end.held)).words = Append(V, w)
      BY <3>1, LastWord
    <3>3. EndWord(Flushed(end, end.held)).words = Append(SubSeq(words, 1, n - 1), words[n])
      BY <3>2 DEF V, w
    <3>4. WindowsWords(text) = EndWord(Flushed(end, end.held)).words
      BY DEF WindowsWords, end
    <3>5. QED
      BY ONLY <3>3, <3>4
<1>9. WindowsWords(text) = words
  BY <1>8, AllWords
<1>10. QED
  BY <1>4, <1>9, <1>3 DEF text, quoted

(***************************************************************************)
(* The command of a hook                                                   *)
(***************************************************************************)
Tools(C) == [path : Seq(C), windows : BOOLEAN]

\* The words of the command of a hook.
HookWords(tool, event) == <<tool.path>> \o Flags(event)

FlagWords(event) == {"--owner", "cc-reminder", "--agent", Agent, "--event", event}

LEMMA FlagsTyped ==
  ASSUME NEW event
  PROVE  /\ Flags(event) \in Seq(Seq(FlagWords(event)))
         /\ Len(Flags(event)) = 6
         /\ \A i \in 1..6 : Len(Flags(event)[i]) = 1
         /\ Flags(event)[6] = <<event>>
  BY DEF Flags, FlagWords

LEMMA FlagsTell ==
  ASSUME NEW event, NEW other, Flags(event) = Flags(other)
  PROVE  event = other
<1>1. <<event>> = <<other>>
  BY FlagsTyped
<1>2. <<event>>[1] = event /\ <<other>>[1] = other
  OBVIOUS
<1>3. QED
  BY ONLY <1>1, <1>2

LEMMA Headed ==
  ASSUME NEW U, NEW p \in U, NEW F \in Seq(U)
  PROVE  /\ <<p>> \o F \in Seq(U) /\ Len(<<p>> \o F) = Len(F) + 1 /\ Tail(<<p>> \o F) = F
         /\ (<<p>> \o F)[1] = p /\ \A i \in 1..Len(F) : (<<p>> \o F)[1 + i] = F[i]
<1> DEFINE x == <<p>>
           y == x \o F
<1>1. x \in Seq(U) /\ Len(x) = 1 /\ x[1] = p
  OBVIOUS
<1> HIDE DEF x
<1>2. /\ y \in Seq(U) /\ Len(y) = Len(x) + Len(F)
      /\ \A k \in 1..Len(x) : y[k] = x[k]
      /\ \A k \in 1..Len(F) : y[Len(x) + k] = F[k]
  BY <1>1, Concatenated
<1>3. Len(F) \in Nat /\ Len(y) = Len(F) + 1 /\ y[1] = p /\ \A k \in 1..Len(F) : y[1 + k] = F[k]
  BY <1>1, <1>2
<1>4. y \in Seq(U)
  BY <1>2
<1> HIDE DEF y
<1>5. Tail(y) \in Seq(U) /\ Len(Tail(y)) = Len(F) /\ \A i \in 1..Len(F) : Tail(y)[i] = y[i + 1]
  BY <1>3, <1>4
<1>6. \A i \in 1..Len(Tail(y)) : Tail(y)[i] = F[i]
  BY <1>3, <1>5
<1>7. Tail(y) = F
  BY <1>5, <1>6, Extensional
<1>8. QED
  BY <1>3, <1>4, <1>7 DEF x, y

AreHookWords(words, tool, event, T) ==
  /\ words \in Seq(Seq(T)) /\ Len(words) = 7
  /\ words[1] = tool.path /\ Tail(words) = Flags(event)
  /\ \A i \in 2..7 : Len(words[i]) = 1

LEMMA HookWordsTyped ==
  ASSUME NEW C, NEW tool \in Tools(C), NEW event,
         NEW T, C \subseteq T, FlagWords(event) \subseteq T
  PROVE  AreHookWords(HookWords(tool, event), tool, event, T)
<1> DEFINE p == tool.path
           F == Flags(event)
<1>1. p \in Seq(T)
  <2>1. p \in Seq(C)
    BY DEF Tools
  <2>2. QED
    BY <2>1
<1>2. F \in Seq(Seq(T)) /\ Len(F) = 6 /\ \A i \in 1..6 : Len(F[i]) = 1
  <2>1. F \in Seq(Seq(FlagWords(event))) /\ Len(F) = 6 /\ \A i \in 1..6 : Len(F[i]) = 1
    BY FlagsTyped
  <2> HIDE DEF F
  <2>2. QED
    BY <2>1
<1> HIDE DEF p, F
<1> DEFINE U == Seq(T)
<1>3. /\ <<p>> \o F \in Seq(U) /\ Len(<<p>> \o F) = 7 /\ Tail(<<p>> \o F) = F
      /\ (<<p>> \o F)[1] = p /\ \A i \in 1..6 : (<<p>> \o F)[1 + i] = F[i]
  <2>1. p \in U /\ F \in Seq(U)
    BY <1>1, <1>2
  <2> HIDE DEF U
  <2>2. /\ <<p>> \o F \in Seq(U) /\ Len(<<p>> \o F) = Len(F) + 1 /\ Tail(<<p>> \o F) = F
        /\ (<<p>> \o F)[1] = p /\ \A i \in 1..Len(F) : (<<p>> \o F)[1 + i] = F[i]
    BY <2>1, Headed
  <2> DEFINE y == <<p>> \o F
  <2> HIDE DEF y
  <2>3. Len(F) + 1 = 7 /\ \A i \in 1..6 : i \in 1..Len(F)
    BY <1>2
  <2>4. QED
    BY <2>2, <2>3
<1>4. \A i \in 2..7 : Len((<<p>> \o F)[i]) = 1
  <2>1. \A i \in 2..7 : i - 1 \in 1..6 /\ 1 + (i - 1) = i
    OBVIOUS
  <2>2. QED
    BY <1>2, <1>3, <2>1
<1>5. QED
  BY <1>3, <1>4 DEF AreHookWords, HookWords, p, F

\* How the command is laid out.
LEMMA CommandLaid ==
  ASSUME NEW T, NEW tool, NEW event, HookWords(tool, event) \in Seq(Seq(T)), tool.windows \in BOOLEAN
  PROVE  CanonicalCommand(tool, event) =
           Joined(Parts(IF tool.windows THEN WindowsQuoted(HookWords(tool, event))
                                        ELSE PosixQuoted(HookWords(tool, event))))
<1> DEFINE words == HookWords(tool, event)
           n == Len(words)
           Quoted(word) == IF tool.windows THEN WindowsQuote(word) ELSE PosixQuote(word)
           quoted == [i \in 1..n |-> Quoted(words[i])]
<1>1. n \in Nat
  OBVIOUS
<1>2. CanonicalCommand(tool, event)
        = Joined([i \in 1..n |-> (IF i = 1 THEN <<>> ELSE <<Space>>) \o Quoted(words[i])])
  BY DEF CanonicalCommand, HookWords
<1>3. quoted = IF tool.windows THEN WindowsQuoted(words) ELSE PosixQuoted(words)
  BY DEF WindowsQuoted, PosixQuoted
<1> HIDE DEF words
<1>4. Len(quoted) = n /\ \A i \in 1..n : quoted[i] = Quoted(words[i])
  BY <1>1
<1> HIDE DEF quoted, Quoted, n
<1>5. Parts(quoted) = [i \in 1..n |-> (IF i = 1 THEN <<>> ELSE <<Space>>) \o Quoted(words[i])]
  BY <1>4 DEF Parts
<1>6. QED
  BY <1>2, <1>3, <1>5 DEF words

\* A command the program writes for an event it recognises as that event's own.
THEOREM OwnCommandRecognised ==
  ASSUME NEW C, NEW tool \in Tools(C), NEW event \in HookEvents,
         tool.windows => Quotable(tool.path)
  PROVE  Recognised(CanonicalCommand(tool, event)) = event
<1> DEFINE T == C \cup {Space, Quote, DoubleQuote, Backslash}
                  \cup FlagWords(event)
           words == HookWords(tool, event)
           command == CanonicalCommand(tool, event)
<1>1. /\ Space \in T /\ Quote \in T /\ DoubleQuote \in T /\ Backslash \in T
      /\ C \subseteq T /\ FlagWords(event) \subseteq T
  OBVIOUS
<1> HIDE DEF T
<1>2. /\ words \in Seq(Seq(T)) /\ Len(words) = 7 /\ Tail(words) = Flags(event)
      /\ words[1] = tool.path /\ \A i \in 2..7 : Len(words[i]) = 1
  <2>1. tool \in Tools(C) /\ C \subseteq T /\ FlagWords(event) \subseteq T
    BY <1>1
  <2>2. AreHookWords(words, tool, event, T)
    BY ONLY <2>1, HookWordsTyped
  <2>3. QED
    BY <2>2 DEF AreHookWords
<1>3. ShellWords(command) = words
  <2>1. command = Joined(Parts(IF tool.windows THEN WindowsQuoted(words) ELSE PosixQuoted(words)))
    <3>1. words \in Seq(Seq(T)) /\ tool.windows \in BOOLEAN
      BY <1>2 DEF Tools
    <3>2. QED
      BY ONLY <3>1, CommandLaid
  <2> HIDE DEF words, command
  <2>2. CASE tool.windows
    <3>1. ASSUME NEW i \in 1..Len(words)
          PROVE  Quotable(words[i])
      <4>1. CASE i = 1
        BY <1>2, <2>2, <4>1
      <4>2. CASE i # 1
        <5>1. Len(words[i]) = 1
          BY <1>2, <4>2
        <5>2. \A j \in 1..(Len(words[i]) - 1) : FALSE
          BY <5>1
        <5>3. QED
          BY <5>2 DEF Quotable
      <4>3. QED
        BY <4>1, <4>2
    <3> DEFINE text == Joined(Parts(WindowsQuoted(words)))
    <3>2. WindowsWords(text) = words /\ text \in Seq(T) /\ Len(text) > 0 /\ text[1] = DoubleQuote
      <4>1. /\ Space \in T /\ DoubleQuote \in T /\ Backslash \in T /\ words \in Seq(Seq(T))
            /\ Len(words) > 0 /\ \A i \in 1..Len(words) : Quotable(words[i])
        BY <1>1, <1>2, <3>1
      <4>2. QED
        BY ONLY <4>1, WindowsRoundTrip
    <3>3. command = text
      BY <2>1, <2>2
    <3> HIDE DEF text
    <3>4. text # <<>>
      BY <3>2
    <3>5. QED
      BY <3>2, <3>3, <3>4 DEF ShellWords
  <2>3. CASE ~ tool.windows
    <3> DEFINE text == Joined(Parts(PosixQuoted(words)))
    <3>1. PosixWords(text) = words /\ text \in Seq(T) /\ Len(text) > 0 /\ text[1] = Quote
      <4>1. Space \in T /\ Quote \in T /\ Backslash \in T /\ words \in Seq(Seq(T)) /\ Len(words) > 0
        BY <1>1, <1>2
      <4>2. QED
        BY ONLY <4>1, PosixRoundTrip
    <3>2. command = text
      BY <2>1, <2>3
    <3> HIDE DEF text
    <3>3. QED
      BY <3>1, <3>2, CharacterAssumption DEF ShellWords
  <2>4. QED
    BY <2>2, <2>3
<1> HIDE DEF words, command
<1> DEFINE mine == {e \in HookEvents : Tail(words) = Flags(e)}
<1>4. mine = {event}
  BY <1>2, FlagsTell
<1>5. Recognised(command) = IF Len(words) = 7 /\ mine # {} THEN CHOOSE e \in mine : TRUE ELSE NoOwner
  BY <1>3 DEF Recognised
<1> HIDE DEF mine
<1>6. (CHOOSE e \in mine : TRUE) \in mine
  BY <1>4
<1>7. QED
  BY <1>2, <1>4, <1>5, <1>6 DEF command

(***************************************************************************)
(* What a patched file holds                                               *)
(* The elements of a spliced text are those that no edit removes and those *)
(* put in, whatever their order; so what becomes of the program's handlers *)
(* is read off the edits.                                                  *)
(***************************************************************************)
\* The elements of a text, wherever they stand.
Contents(text) == {text[i] : i \in ElementAt(text)}
Staying(text, edits) == {text[i] : i \in {j \in ElementAt(text) : Kept(edits, j)}}

\* What a spliced text holds: the elements no edit removes, and those put in.
LEMMA SpliceContents ==
  ASSUME NEW text, text \in Seq(Range(text)), NEW edits, NEW p, NEW w, Puts(text, edits, p, w)
  PROVE  Contents(Spliced(text, edits)) = Staying(text, edits) \cup Contents(w)
<1> DEFINE R == Spliced(text, edits)
           n == Len(text)
<1>1. PICK at : R \in Seq(Range(text) \cup Range(w)) /\ Placed(text, edits, p, w, R, at)
  BY SplicePlaced
<1>2. n \in Nat /\ p \in 1..(n - 1) /\ w \in Seq(Range(w)) /\ Len(w) \in Nat /\ Len(R) \in Nat
  BY <1>1, RangeOfSeq DEF Puts
<1> HIDE DEF R, n
<1>3. /\ at \in [1..(n + 1) -> Nat] /\ Len(R) = at[n + 1]
      /\ \A i \in 1..n : at[i + 1] = at[i] + Width(edits, i) + (IF i = p THEN Len(w) ELSE 0)
      /\ \A i, j \in 1..(n + 1) : i <= j => at[i] <= at[j]
      /\ \A i \in 1..n : Kept(edits, i) => R[at[i] + 1] = text[i]
      /\ \A k \in 1..Len(w) : R[at[p] + Width(edits, p) + k] = w[k]
      /\ \A q \in 1..Len(R) :
           \/ \E i \in 1..n : Kept(edits, i) /\ q = at[i] + 1
           \/ \E k \in 1..Len(w) : q = at[p] + Width(edits, p) + k
  BY <1>1 DEF Placed, n
<1>4. ASSUME NEW i \in 1..n
      PROVE  at[i] \in Nat /\ at[i + 1] \in Nat /\ Width(edits, i) \in {0, 1} /\ at[i + 1] <= Len(R)
  <2>1. i \in 1..(n + 1) /\ i + 1 \in 1..(n + 1) /\ n + 1 \in 1..(n + 1) /\ i + 1 <= n + 1
    BY <1>2
  <2>2. QED
    BY <1>3, <2>1 DEF Width
<1>5. ASSUME NEW x \in Contents(R)
      PROVE  x \in Staying(text, edits) \cup Contents(w)
  <2>1. PICK q \in 1..Len(R) : x = R[q] /\ R[q] \notin Punctuation
    BY <1>5 DEF Contents, ElementAt
  <2>2. CASE \E i \in 1..n : Kept(edits, i) /\ q = at[i] + 1
    <3>1. PICK i \in 1..n : Kept(edits, i) /\ q = at[i] + 1
      BY <2>2
    <3>2. x = text[i] /\ i \in ElementAt(text)
      BY <1>3, <2>1, <3>1 DEF ElementAt, n
    <3>3. QED
      BY <3>1, <3>2 DEF Staying
  <2>3. CASE \E k \in 1..Len(w) : q = at[p] + Width(edits, p) + k
    <3>1. PICK k \in 1..Len(w) : q = at[p] + Width(edits, p) + k
      BY <2>3
    <3>2. x = w[k] /\ k \in ElementAt(w)
      BY <1>3, <2>1, <3>1 DEF ElementAt
    <3>3. QED
      BY <3>2 DEF Contents
  <2>4. QED
    BY <1>3, <2>2, <2>3
<1>6. ASSUME NEW i \in ElementAt(text), Kept(edits, i)
      PROVE  text[i] \in Contents(R)
  <2>1. i \in 1..n /\ text[i] \notin Punctuation
    BY DEF ElementAt, n
  <2>2. /\ at[i] \in Nat /\ at[i + 1] \in Nat /\ at[i + 1] <= Len(R)
        /\ at[i + 1] = at[i] + 1 + (IF i = p THEN Len(w) ELSE 0)
    BY <1>3, <1>4, <1>6, <2>1 DEF Width
  <2>3. at[i] + 1 \in 1..Len(R)
    BY <1>2, <2>2
  <2>4. R[at[i] + 1] = text[i]
    BY <1>3, <1>6, <2>1
  <2>5. QED
    BY <2>1, <2>3, <2>4 DEF Contents, ElementAt
<1>7. ASSUME NEW k \in ElementAt(w)
      PROVE  w[k] \in Contents(R)
  <2>1. k \in 1..Len(w) /\ w[k] \notin Punctuation
    BY DEF ElementAt
  <2>2. p \in 1..n
    BY <1>2
  <2>3. /\ at[p] \in Nat /\ at[p + 1] \in Nat /\ at[p + 1] <= Len(R) /\ Width(edits, p) \in {0, 1}
        /\ at[p + 1] = at[p] + Width(edits, p) + Len(w)
    BY <1>3, <1>4, <2>2
  <2>4. at[p] + Width(edits, p) + k \in 1..Len(R)
    BY <1>2, <2>1, <2>3
  <2>5. R[at[p] + Width(edits, p) + k] = w[k]
    BY <1>3, <2>1
  <2>6. QED
    BY <2>1, <2>4, <2>5 DEF Contents, ElementAt
<1>8. Staying(text, edits) \subseteq Contents(R)
  BY <1>6 DEF Staying
<1>9. Contents(w) \subseteq Contents(R)
  BY <1>7 DEF Contents
<1>10. QED
  BY <1>5, <1>8, <1>9 DEF R

\* Where nothing is put in, what stays is all there is.
LEMMA NonePut ==
  ASSUME NEW text, Framed(text), NEW edits, \A d \in edits : d.with = <<>>
  PROVE  Contents(Spliced(text, edits)) = Staying(text, edits)
<1>1. Puts(text, edits, 1, <<>>)
  BY PutsNothing
<1>2. Contents(<<>>) = {}
  BY DEF Contents, ElementAt
<1>3. text \in Seq(Range(text))
  BY DEF Framed
<1> DEFINE none == <<>>
<1>4. Puts(text, edits, 1, none)
  BY <1>1
<1> HIDE DEF none
<1>5. Contents(Spliced(text, edits)) = Staying(text, edits) \cup Contents(none)
  BY ONLY <1>3, <1>4, SpliceContents
<1>6. QED
  BY <1>2, <1>5 DEF none

(***************************************************************************)
(* What the texts the program writes hold.                                 *)
(***************************************************************************)
LEMMA OneContents ==
  ASSUME NEW x, x \notin Punctuation
  PROVE  Contents(Alone(x)) = {x} /\ Contents(Behind(x)) = {x}
<1>1. Len(Alone(x)) = 1 /\ Alone(x)[1] = x /\ Len(Behind(x)) = 3 /\ Behind(x)[3] = x
  BY DEF Alone, Behind
<1>2. /\ \A k \in ElementAt(Alone(x)) : Alone(x)[k] = x
      /\ \A k \in ElementAt(Behind(x)) : Behind(x)[k] = x
  BY OneElement
<1> HIDE DEF Alone, Behind
<1>3. 1 \in ElementAt(Alone(x)) /\ 3 \in ElementAt(Behind(x))
  BY <1>1 DEF ElementAt
<1>4. QED
  BY <1>1, <1>2, <1>3 DEF Contents

LEMMA ListedHolds ==
  ASSUME NEW xs, xs \in Seq(Range(xs)), \A i \in 1..Len(xs) : xs[i] \notin Punctuation, NEW i \in 1..Len(xs)
  PROVE  LET q == 2 * i - 1 IN q \in 1..Len(Listed(xs)) /\ Listed(xs)[q] = xs[i]
<1> DEFINE n == Len(xs)
           L == Listed(xs)
           m == IF n = 0 THEN 0 ELSE 2 * n - 1
           q == 2 * i - 1
<1>1. /\ Len(L) = m /\ m \in Nat
      /\ \A k \in 1..m : k % 2 = 1 => L[k] = xs[(k + 1) \div 2]
  BY ListedSound
<1>2. n \in Nat /\ i \in 1..n
  BY RangeOfSeq
<1> HIDE DEF n, L
<1>3. q \in 1..m /\ q % 2 = 1 /\ (q + 1) \div 2 = i
  BY <1>2
<1>4. QED
  BY <1>1, <1>3 DEF L

\* A text made of two, by a name of its own.
LEMMA Together ==
  ASSUME NEW T, NEW a \in Seq(T), NEW b \in Seq(T), NEW c, c = a \o b
  PROVE  /\ c \in Seq(T) /\ Len(c) = Len(a) + Len(b)
         /\ \A k \in 1..Len(a) : c[k] = a[k]
         /\ \A k \in 1..Len(b) : c[Len(a) + k] = b[k]
  BY Concatenated

LEMMA BareHolds ==
  ASSUME NEW xs, xs \in Seq(Range(xs)), \A i \in 1..Len(xs) : xs[i] \notin Punctuation
  PROVE  /\ Contents(Bare(xs)) = {xs[i] : i \in 1..Len(xs)}
         /\ Contents(Listed(xs)) = {xs[i] : i \in 1..Len(xs)}
         /\ Contents(<<Comma>> \o Listed(xs)) = {xs[i] : i \in 1..Len(xs)}
<1> DEFINE L == Listed(xs)
           B == Bare(xs)
           o == <<Open>>
           c == <<Comma>>
           w == <<Comma>> \o L
           T == Range(L) \cup {Open, Close, Comma}
           all == {xs[i] : i \in 1..Len(xs)}
<1>1. L \in Seq(Range(L)) /\ Len(L) \in Nat
  BY ListedSound
<1>2. /\ \A q \in ElementAt(B) : \E i \in 1..Len(xs) : B[q] = xs[i]
      /\ \A q \in ElementAt(L) : \E i \in 1..Len(xs) : L[q] = xs[i]
      /\ \A q \in ElementAt(w) : \E i \in 1..Len(xs) : w[q] = xs[i]
  <2>1. \A q \in ElementAt(B) : \E i \in 1..Len(xs) : B[q] = xs[i]
    BY BareSound
  <2>2. \A q \in ElementAt(L) : \E i \in 1..Len(xs) : L[q] = xs[i]
    BY ListedApart
  <2>3. \A q \in ElementAt(w) : \E i \in 1..Len(xs) : w[q] = xs[i]
    BY ListedBehind
  <2>4. QED
    BY <2>1, <2>2, <2>3
<1>3. \A i \in 1..Len(xs) : \E q \in 1..Len(L) : L[q] = xs[i] /\ L[q] \notin Punctuation
  BY ListedHolds
<1>4. B = o \o L \o <<Close>>
  BY DEF Bare
<1> HIDE DEF L, B
<1>5. /\ L \in Seq(T) /\ o \in Seq(T) /\ c \in Seq(T) /\ <<Close>> \in Seq(T)
      /\ Len(o) = 1 /\ Len(c) = 1 /\ Len(<<Close>>) = 1
  BY <1>1, RangeOfSeq
<1>6. w = c \o L
  OBVIOUS
<1> HIDE DEF o, c, T, w
<1> DEFINE H == o \o L
<1> HIDE DEF H
<1>7. /\ H \in Seq(T) /\ Len(H) = 1 + Len(L)
      /\ \A k \in 1..Len(L) : H[1 + k] = L[k]
  <2>1. o \in Seq(T) /\ L \in Seq(T) /\ H = o \o L
    BY <1>5 DEF H
  <2>2. /\ H \in Seq(T) /\ Len(H) = Len(o) + Len(L)
        /\ \A k \in 1..Len(L) : H[Len(o) + k] = L[k]
    BY ONLY <2>1, Together
  <2>3. QED
    BY <1>5, <2>2
<1>8. /\ Len(B) = Len(H) + 1
      /\ \A k \in 1..Len(H) : B[k] = H[k]
  <2> DEFINE z == <<Close>>
  <2>1. H \in Seq(T) /\ z \in Seq(T) /\ Len(z) = 1
    BY <1>5, <1>7
  <2>2. B = H \o z
    BY <1>4 DEF H
  <2> HIDE DEF z
  <2>3. H \in Seq(T) /\ z \in Seq(T)
    BY <2>1
  <2>4. /\ B \in Seq(T) /\ Len(B) = Len(H) + Len(z)
        /\ \A k \in 1..Len(H) : B[k] = H[k]
        /\ \A k \in 1..Len(z) : B[Len(H) + k] = z[k]
    BY ONLY <2>2, <2>3, Together
  <2>5. QED
    BY <2>1, <2>4
<1>9. /\ Len(w) = 1 + Len(L)
      /\ \A k \in 1..Len(L) : w[1 + k] = L[k]
  <2>1. c \in Seq(T) /\ L \in Seq(T)
    BY <1>5
  <2>2. Len(w) = Len(c) + Len(L) /\ \A k \in 1..Len(L) : w[Len(c) + k] = L[k]
    BY ONLY <1>6, <2>1, Together
  <2>3. QED
    BY <1>5, <2>2
<1>10. ASSUME NEW i \in 1..Len(xs)
       PROVE  xs[i] \in Contents(B) /\ xs[i] \in Contents(L) /\ xs[i] \in Contents(w)
  <2>1. PICK q \in 1..Len(L) : L[q] = xs[i] /\ L[q] \notin Punctuation
    BY <1>3
  <2>2. q \in 1..Len(L) /\ 1 + q \in 1..Len(H) /\ 1 + q \in 1..Len(B) /\ 1 + q \in 1..Len(w)
    BY <1>1, <1>7, <1>8, <1>9
  <2>3. B[1 + q] = xs[i] /\ w[1 + q] = xs[i]
    BY <1>7, <1>8, <1>9, <2>1, <2>2
  <2>4. q \in ElementAt(L) /\ 1 + q \in ElementAt(B) /\ 1 + q \in ElementAt(w)
    BY <2>1, <2>2, <2>3 DEF ElementAt
  <2>5. QED
    BY <2>1, <2>3, <2>4 DEF Contents
<1>11. all \subseteq Contents(B) /\ all \subseteq Contents(L) /\ all \subseteq Contents(w)
  BY <1>10
<1>12. Contents(B) \subseteq all /\ Contents(L) \subseteq all /\ Contents(w) \subseteq all
  BY <1>2 DEF Contents
<1>13. Contents(B) = all /\ Contents(L) = all /\ Contents(w) = all
  BY <1>11, <1>12
<1>14. QED
  BY <1>13 DEF B, L, w

LEMMA BareOne ==
  ASSUME NEW x, x \notin Punctuation
  PROVE  Contents(Bare(<<x>>)) = {x}
<1> DEFINE xs == <<x>>
<1>1. xs \in Seq({x}) /\ Len(xs) = 1 /\ xs[1] = x
  OBVIOUS
<1>2. xs \in Seq(Range(xs))
  BY <1>1, SeqOfOwnRange
<1> HIDE DEF xs
<1>3. \A i \in 1..Len(xs) : xs[i] = x
  BY <1>1
<1>4. \A i \in 1..Len(xs) : xs[i] \notin Punctuation
  BY <1>3
<1>5. Contents(Bare(xs)) = {xs[i] : i \in 1..Len(xs)}
  BY <1>2, <1>4, BareHolds
<1>6. QED
  BY <1>1, <1>3, <1>5 DEF xs

(***************************************************************************)
(* What is read of a text: all its elements that no comment takes.         *)
(***************************************************************************)
LEMMA LexedContents ==
  ASSUME NEW text, text \in Seq(Range(text))
  PROVE  /\ Lexed(text) \in Seq(Range(Lexed(text)))
         /\ Contents(Lexed(text)) \subseteq Contents(text)
         /\ \A i \in ElementAt(text) : i \notin CommentedOut(text) => text[i] \in Contents(Lexed(text))
<1> DEFINE R == Lexed(text)
           n == Len(text)
<1>1. PICK at : ReadAt(text, R, at)
  BY LexedLaid
<1> HIDE DEF R
<1>2. /\ R \in Seq(Range(R)) /\ Len(R) \in Nat
      /\ \A i \in 1..n :
           /\ at[i] \in Nat /\ at[i + 1] \in Nat /\ at[i + 1] <= Len(R)
           /\ IsRead(text, i) => at[i + 1] = at[i] + 1 /\ R[at[i] + 1] = Token(text, i)
      /\ \A q \in 1..Len(R) : \E i \in 1..n : IsRead(text, i) /\ q = at[i] + 1
  BY <1>1 DEF ReadAt
<1>3. \A i \in 1..n :
        /\ IsRead(text, i) <=> ~ (i \in CommentedOut(text) \/ (text[i] = Break /\ text[i - 1] \in LineEnds))
        /\ IsRead(text, i) => Token(text, i) = text[i] \/ (text[i] = Break /\ Token(text, i) = CommaBreak)
  BY TokenRead
<1>4. ASSUME NEW x \in Contents(R)
      PROVE  x \in Contents(text)
  <2>1. PICK q \in 1..Len(R) : x = R[q] /\ R[q] \notin Punctuation
    BY DEF Contents, ElementAt
  <2>2. PICK i \in 1..n : IsRead(text, i) /\ q = at[i] + 1
    BY <1>2
  <2>3. R[q] = Token(text, i)
    BY <1>2, <2>2
  <2>4. Token(text, i) = text[i]
    BY <1>3, <2>1, <2>2, <2>3, TokensApart
  <2>5. QED
    BY <2>1, <2>3, <2>4 DEF Contents, ElementAt
<1>5. ASSUME NEW i \in ElementAt(text), i \notin CommentedOut(text)
      PROVE  text[i] \in Contents(R)
  <2>1. i \in 1..n /\ text[i] \notin Punctuation /\ text[i] # Break
    BY TokensApart DEF ElementAt
  <2>2. IsRead(text, i)
    BY <1>3, <1>5, <2>1
  <2>3. Token(text, i) = text[i]
    BY <1>3, <2>1, <2>2
  <2>4. R[at[i] + 1] = text[i]
    BY <1>2, <2>1, <2>2, <2>3
  <2>5. at[i] \in Nat /\ at[i] + 1 <= Len(R) /\ Len(R) \in Nat
    BY <1>2, <2>1, <2>2
  <2> DEFINE q == at[i] + 1
  <2>6. q \in 1..Len(R)
    BY <2>5
  <2> HIDE DEF q
  <2>7. R[q] = text[i]
    BY <2>4 DEF q
  <2>8. QED
    BY <2>1, <2>6, <2>7 DEF Contents, ElementAt
<1>6. QED
  BY <1>2, <1>4, <1>5 DEF R

\* What is put in is read.
LEMMA PutIsRead ==
  ASSUME NEW text, Framed(text), Lined(text), NEW edits, NEW p, NEW w, Puts(text, edits, p, w),
         NEW x, x \notin Punctuation, Shown(text, edits, p, w, x)
  PROVE  x \in Contents(Lexed(Spliced(text, edits)))
<1> DEFINE S == Spliced(text, edits)
           n == Len(text)
<1>1. text \in Seq(Range(text)) /\ n \in Nat
  BY RangeOfSeq DEF Framed
<1>2. p \in 1..(n - 1) /\ w \in Seq(Range(w)) /\ Len(w) \in Nat /\ p \in 1..n
  BY <1>1 DEF Puts
<1>3. PICK at : S \in Seq(Range(text) \cup Range(w)) /\ Placed(text, edits, p, w, S, at)
  BY <1>1, SplicePlaced
<1>5. /\ \A i \in 1..n :
              /\ at[i] \in Nat /\ at[i + 1] \in Nat /\ Width(edits, i) \in {0, 1}
              /\ Kept(edits, i) <=> Width(edits, i) = 1
              /\ at[i] + Width(edits, i) <= at[i + 1] /\ at[i + 1] <= Len(S)
              /\ i = p => at[i + 1] = at[i] + Width(edits, i) + Len(w)
              /\ i # p => at[i + 1] = at[i] + Width(edits, i)
      /\ \A i, j \in 1..n : i < j => at[i + 1] <= at[j]
  BY <1>1, <1>2, <1>3, PlacedOrder
<1> HIDE DEF S
<1>4. S \in Seq(Range(S)) /\ Len(S) \in Nat
  BY <1>3, SeqOfOwnRange
<1>6. /\ \A i \in 1..n : Kept(edits, i) => S[at[i] + 1] = text[i]
      /\ \A k \in 1..Len(w) : S[at[p] + Width(edits, p) + k] = w[k]
      /\ \A q \in 1..Len(S) :
           \/ \E i \in 1..n : Kept(edits, i) /\ q = at[i] + 1
           \/ \E k \in 1..Len(w) : q = at[p] + Width(edits, p) + k
  BY <1>3 DEF Placed
<1>10. \A i \in 1..n : text[i] = Slashes => text[i + 1] \in LineEnds
  BY DEF Lined
<1> HIDE DEF n
<1> DEFINE b == at[p] + Width(edits, p)
<1>7. b \in Nat /\ b + Len(w) <= Len(S) /\ at[p + 1] = b + Len(w)
  <2>1. /\ at[p] \in Nat /\ at[p + 1] \in Nat /\ Width(edits, p) \in {0, 1} /\ at[p + 1] <= Len(S)
        /\ at[p + 1] = at[p] + Width(edits, p) + Len(w)
    BY <1>2, <1>5
  <2>2. QED
    BY <1>2, <2>1
<1>8. \E q \in ElementAt(S) : q \notin CommentedOut(S) /\ S[q] = x
  <2>1. CASE w = Behind(x)
    <3>1. Len(w) = 3 /\ w[2] = Break /\ w[3] = x
      BY <2>1, OneElement
    <3>2. S[b + 2] = Break /\ S[b + 3] = x /\ b + 3 \in 1..Len(S)
      BY <1>6, <1>7, <3>1
    <3> HIDE DEF b
    <3>3. ASSUME NEW c \in 1..((b + 3) - 1), S[c] = Slashes,
                 \A k \in (c + 1)..(b + 3) : S[k] \notin LineEnds
          PROVE  FALSE
      <4>1. c # b + 2
        BY <3>2, <3>3, TokensApart DEF LineEnds
      <4>2. b + 2 \in (c + 1)..(b + 3)
        BY <1>7, <4>1
      <4>3. QED
        BY <3>2, <3>3, <4>2 DEF LineEnds
    <3>4. b + 3 \notin CommentedOut(S)
      BY <3>3 DEF CommentedOut
    <3>5. QED
      BY <3>2, <3>4 DEF ElementAt
  <2>2. CASE /\ w = Alone(x)
             /\ \A c \in 1..p : Kept(edits, c) /\ text[c] = Slashes => c < p /\ Kept(edits, c + 1)
    <3>1. Len(w) = 1 /\ w[1] = x
      BY <2>2, OneElement
    <3>2. S[b + 1] = x /\ b + 1 \in 1..Len(S)
      BY <1>6, <1>7, <3>1
    <3>3. ASSUME NEW c \in 1..((b + 1) - 1), S[c] = Slashes,
                 \A k \in (c + 1)..(b + 1) : S[k] \notin LineEnds
          PROVE  FALSE
      <4>1. c \in 1..Len(S) /\ c <= b
        BY <1>7, <3>2
      <4>2. PICK i \in 1..n : Kept(edits, i) /\ c = at[i] + 1
        <5>1. \A k \in 1..Len(w) : c # at[p] + Width(edits, p) + k
          BY <1>7, <4>1
        <5>2. QED
          BY <1>6, <4>1, <5>1
      <4>3. text[i] = Slashes
        BY <1>6, <3>3, <4>2
      <4>4. i <= p
        <5>1. ~ (p < i)
          <6>1. p < i => at[p + 1] <= at[i]
            BY <1>2, <1>5
          <6> HIDE DEF b
          <6>2. at[p + 1] >= b /\ at[p + 1] \in Nat /\ at[i] \in Nat
            <7>1. at[i] \in Nat /\ at[p + 1] = b + Len(w)
              BY <1>5, <1>7
            <7>2. QED
              BY <1>2, <1>7, <7>1
          <6>3. QED
            BY <1>7, <4>1, <4>2, <6>1, <6>2
        <5>2. QED
          BY <1>2, <5>1
      <4> DEFINE z == i + 1
      <4>5. i < p /\ Kept(edits, z) /\ z \in 1..n /\ z <= p
        <5>1. i \in 1..p
          BY <1>2, <4>4
        <5>2. QED
          BY <1>1, <1>2, <2>2, <4>2, <4>3, <5>1
      <4>6. text[z] \in LineEnds
        BY <1>10, <4>3
      <4>10. i < z
        BY <1>1
      <4> HIDE DEF z
      <4>7. S[at[z] + 1] \in LineEnds
        BY <1>6, <4>5, <4>6
      <4> DEFINE r == at[z]
      <4>8. r + 1 \in (c + 1)..(b + 1)
        <5>1. r \in Nat /\ c <= r /\ c \in Nat
          <6>1. at[i + 1] <= r /\ at[i + 1] = at[i] + Width(edits, i) /\ Width(edits, i) = 1
            BY <1>5, <4>2, <4>5, <4>10
          <6>2. r \in Nat /\ at[i] \in Nat /\ c \in Nat
            BY <1>5, <4>1, <4>5
          <6>3. QED
            BY <4>2, <6>1, <6>2
        <5>2. r + 1 <= b
          <6>1. Width(edits, z) = 1 /\ r \in Nat
            BY <1>5, <4>5
          <6>2. CASE z = p
            BY <6>1, <6>2
          <6>3. CASE z # p
            <7>1. z < p
              BY <1>2, <4>5, <6>3
            <7>2. at[z + 1] <= at[p] /\ at[z + 1] = at[z] + Width(edits, z)
              BY <1>2, <1>5, <4>5, <6>3, <7>1
            <7>3. at[p] \in Nat /\ Width(edits, p) \in {0, 1}
              BY <1>2, <1>5
            <7>4. QED
              BY <6>1, <7>2, <7>3
          <6>4. QED
            BY <6>2, <6>3
        <5> HIDE DEF r, b
        <5>3. QED
          BY <1>7, <5>1, <5>2
      <4>9. QED
        BY <3>3, <4>7, <4>8
    <3>4. b + 1 \notin CommentedOut(S)
      BY <3>3 DEF CommentedOut
    <3>5. QED
      BY <3>2, <3>4 DEF ElementAt
  <2>3. QED
    BY <2>1, <2>2 DEF Shown
<1>9. QED
  BY <1>4, <1>8, LexedContents DEF S

\* What stays beside deleted runs is read, in a text M that differs from the one the
\* runs were found in by its elements alone: where no run takes the end of a comment
\* before it, while another element stands behind the run on its line.
LEMMA KeptIsRead ==
  ASSUME NEW text, Framed(text), Apart(text), Lined(text), NEW doomed \in SUBSET ElementAt(text),
         ~ RunsOver(text, doomed), NEW t \in ElementAt(text) \ doomed,
         NEW M, Framed(M), Len(M) = Len(text), ElementAt(M) = ElementAt(text),
         \A i \in 1..Len(text) : i \notin ElementAt(text) => M[i] = text[i]
  PROVE  M[t] \in Contents(Lexed(Spliced(M, DeleteRuns(text, doomed))))
<1> DEFINE n == Len(text)
           edits == DeleteRuns(text, doomed)
           S == Spliced(M, edits)
           none == <<>>
<1>1. M \in Seq(Range(M)) /\ n \in Nat /\ n > 1 /\ n = Len(M)
  BY RangeOfSeq DEF Framed
<1>2. \A d \in edits : d.with = <<>>
  BY RunsDeleted
<1>3. Kept(edits, t)
  BY RunsKeepOthers
<1>4. \A d \in edits : \E s, e \in doomed :
           /\ s \in RunStarts(text, doomed) /\ e = RunEnd(text, doomed, s) /\ s <= e
           /\ \A k \in ElementAt(text) : s <= k /\ k <= e => k \in doomed
           /\ d = Deletion(text, s, e)
  BY DeletesARun
<1> HIDE DEF edits
<1>5. Puts(M, edits, 1, none) /\ none \in Seq(Range(none)) /\ Len(none) = 0
  BY <1>2, PutsNothing
<1> HIDE DEF none
<1>6. PICK at : S \in Seq(Range(M) \cup Range(none)) /\ Placed(M, edits, 1, none, S, at)
  BY <1>1, <1>5, SplicePlaced
<1> HIDE DEF S
<1>7. S \in Seq(Range(S)) /\ Len(S) \in Nat
  BY <1>6, SeqOfOwnRange
<1>8. /\ \A i \in 1..Len(M) :
              /\ at[i] \in Nat /\ at[i + 1] \in Nat /\ Width(edits, i) \in {0, 1}
              /\ Kept(edits, i) <=> Width(edits, i) = 1
              /\ at[i] + Width(edits, i) <= at[i + 1] /\ at[i + 1] <= Len(S)
      /\ \A i, j \in 1..Len(M) : i < j => at[i + 1] <= at[j]
  <2> DEFINE p == 1
  <2>1. Len(M) \in Nat /\ p \in 1..(Len(M) - 1) /\ Len(none) \in Nat /\ Placed(M, edits, p, none, S, at)
    BY <1>1, <1>5, <1>6
  <2> HIDE DEF p
  <2>2. /\ \A i \in 1..Len(M) :
              /\ at[i] \in Nat /\ at[i + 1] \in Nat /\ Width(edits, i) \in {0, 1}
              /\ Kept(edits, i) <=> Width(edits, i) = 1
              /\ at[i] + Width(edits, i) <= at[i + 1] /\ at[i + 1] <= Len(S)
              /\ i = p => at[i + 1] = at[i] + Width(edits, i) + Len(none)
              /\ i # p => at[i + 1] = at[i] + Width(edits, i)
        /\ \A i, j \in 1..Len(M) : i < j => at[i + 1] <= at[j]
    BY ONLY <2>1, PlacedOrder
  <2>3. QED
    BY <2>2
<1>9. /\ \A i \in 1..n : Kept(edits, i) => S[at[i] + 1] = M[i]
      /\ \A q \in 1..Len(S) : \E i \in 1..n : Kept(edits, i) /\ q = at[i] + 1
  BY <1>1, <1>5, <1>6 DEF Placed
<1>10. \A i \in ElementAt(text) : i \in Nat /\ 2 <= i /\ i < n /\ i \in 1..n /\ text[i] \notin Punctuation
  BY ElementWithin DEF ElementAt
<1>11. \A i \in 1..n : /\ M[i] = Slashes => text[i] = Slashes
                       /\ text[i] \in LineEnds => M[i] \in LineEnds
                       /\ i \in ElementAt(text) => M[i] \notin Punctuation
  <2>1. \A i \in ElementAt(M) : M[i] \notin Punctuation
    BY DEF ElementAt
  <2>2. \A i \in ElementAt(text) : text[i] \notin LineEnds
    BY <1>10 DEF Punctuation, Trivia
  <2>3. QED
    BY <2>1, <2>2, TokensApart
<1>12. \A i \in 1..n : text[i] = Slashes => text[i + 1] \in LineEnds
  BY DEF Lined
<1> HIDE DEF n
<1>13. at[t] \in Nat /\ at[t] + 1 <= Len(S) /\ S[at[t] + 1] = M[t] /\ t \in 1..n /\ M[t] \notin Punctuation
  <2>1. t \in 1..n
    BY <1>10
  <2>2. Width(edits, t) = 1 /\ at[t] \in Nat /\ at[t + 1] \in Nat /\ at[t] + Width(edits, t) <= at[t + 1] /\ at[t + 1] <= Len(S)
    BY <1>1, <1>3, <1>8, <2>1
  <2>3. at[t] + 1 <= Len(S)
    BY <1>7, <2>2
  <2>4. QED
    BY <1>3, <1>9, <1>11, <2>1, <2>2, <2>3
<1>14. ASSUME NEW i \in 1..n, NEW j \in 1..n, i < j, Kept(edits, i)
       PROVE  at[i] \in Nat /\ at[j] \in Nat /\ at[i] + 1 <= at[j]
  <2>1. /\ at[i] \in Nat /\ at[j] \in Nat /\ at[i + 1] \in Nat /\ Width(edits, i) = 1
        /\ at[i] + Width(edits, i) <= at[i + 1] /\ at[i + 1] <= at[j]
    BY <1>1, <1>8, <1>14
  <2>2. QED
    BY <2>1
\* Between a comment that stays and the element a line end stays.
<1>15. ASSUME NEW u \in 1..n, u < t, Kept(edits, u), text[u] = Slashes
       PROVE  \E k \in 1..n : u < k /\ k < t /\ Kept(edits, k) /\ text[k] \in LineEnds
  <2> DEFINE v == u + 1
  <2>1. text[v] \in LineEnds /\ v \in Nat /\ u < v /\ v = u + 1
    BY <1>12, <1>15, <1>1
  <2>2. v # t /\ \A i \in ElementAt(text) : i # v
    BY <1>10, <2>1 DEF Punctuation, Trivia
  <2>3. v < t /\ v \in 1..n
    BY <1>1, <1>10, <1>15, <2>1, <2>2
  <2> HIDE DEF v
  <2>4. CASE Kept(edits, v)
    BY <2>1, <2>3, <2>4
  <2>5. CASE ~ Kept(edits, v)
    <3>1. PICK d \in edits : d.from < v /\ v <= d.to
      BY <2>5 DEF Kept
    <3>2. PICK s, e \in doomed :
             /\ s \in RunStarts(text, doomed) /\ e = RunEnd(text, doomed, s) /\ s <= e
             /\ \A k \in ElementAt(text) : s <= k /\ k <= e => k \in doomed
             /\ d = Deletion(text, s, e)
      BY <1>4
    <3>3. DeletionShape(text, s, e, d) /\ s \in ElementAt(text) /\ e \in ElementAt(text)
      BY <3>2, DeletionSpans
    <3>4. s \in Nat /\ e \in Nat /\ d.from \in Nat /\ d.to \in Nat /\ d.from < s /\ t \in Nat /\ u \in Nat
      BY <1>10, <3>3 DEF DeletionShape
    <3>5. d.from = u
      <4>1. ~ (d.from < u /\ u <= d.to)
        BY <1>15 DEF Kept
      <4>2. QED
        BY <2>1, <3>1, <3>4, <4>1
    <3>6. v < s
      <4>1. v # s
        BY <2>2, <3>3
      <4>2. QED
        BY <2>1, <3>4, <3>5, <4>1
    <3>7. s - 1 > d.from /\ d.from + 1 = v
      BY <2>1, <3>4, <3>5, <3>6
    <3>8. CommaAfter(text, e) = {} /\ d.to = e /\ v \in CommaBefore(text, s) /\ text[v] \in {Comma, CommaBreak}
      <4>1. d.from # s - 1
        BY <3>4, <3>7
      <4>2. QED
        BY <3>3, <3>7, <4>1 DEF DeletionShape
    <3>9. text[v] = CommaBreak
      BY <2>1, <3>8, TokensApart
    <3>10. e < t
      <4>1. ~ (s <= t /\ t <= e)
        BY <3>2
      <4>2. ~ (t < s)
        <5>1. ASSUME t < s PROVE FALSE
          <6>1. t \in (d.from + 2)..(s - 1)
            BY <2>1, <2>3, <3>4, <3>7, <5>1
          <6>2. text[t] = Break
            BY <3>3, <6>1 DEF DeletionShape
          <6>3. QED
            BY <1>10, <6>2, TokensApart
        <5>2. QED
          BY <5>1
      <4>3. QED
        BY <3>4, <4>1, <4>2
    <3> DEFINE behind == {i \in ElementAt(text) : i > e}
               j == Min(behind)
    <3>11. j \in behind /\ \A i \in behind : j <= i
      <4>1. behind \in SUBSET Nat /\ t \in behind
        BY <1>10, <3>4, <3>10
      <4> HIDE DEF behind
      <4>2. QED
        BY <4>1, LeastExists
    <3>12. j \in ElementAt(text) /\ j > e /\ j <= t /\ j \in Nat /\ \A i \in ElementAt(text) : i > e => j <= i
      BY <1>10, <3>4, <3>10, <3>11
    <3> HIDE DEF j, behind
    <3>13. j \notin doomed
      <4>1. ASSUME j \in doomed PROVE FALSE
        <5>1. \A k \in ElementAt(text) : s <= k /\ k <= j => k \in doomed
          <6>1. ASSUME NEW k \in ElementAt(text), s <= k, k <= j PROVE k \in doomed
            <7>1. CASE k <= e
              BY <3>2, <6>1, <7>1
            <7>2. CASE k > e
              <8>1. k = j
                BY <1>10, <3>12, <6>1, <7>2
              <8>2. QED
                BY <4>1, <8>1
            <7>3. QED
              BY <1>10, <3>4, <7>1, <7>2
          <6>2. QED
            BY <6>1
        <5>2. j >= s
          BY <3>2, <3>4, <3>12
        <5>3. j <= RunEnd(text, doomed, s)
          BY <3>2, <4>1, <5>1, <5>2, RunEnds
        <5>4. QED
          BY <3>2, <3>4, <3>12, <5>3
      <4>2. QED
        BY <4>1
    <3>14. PICK k \in e..j : text[k] \in LineEnds
      BY <3>2, <3>8, <3>9, <3>12 DEF RunsOver
    <3>15. k \in Nat /\ e < k /\ k < j /\ u < k /\ k < t /\ k \in 1..n
      <4>1. k # e /\ k # j
        BY <1>10, <3>3, <3>12, <3>14 DEF Punctuation, Trivia
      <4>2. k \in Nat /\ e < k /\ k < j
        BY <3>4, <3>12, <4>1
      <4>3. e > u
        BY <2>1, <3>2, <3>4, <3>6
      <4>4. QED
        BY <1>1, <1>10, <3>4, <3>12, <4>2, <4>3
    <3>16. ASSUME NEW f \in edits, f.from < k, k <= f.to
           PROVE  FALSE
      <4>1. PICK a, b \in doomed :
               /\ a <= b /\ f = Deletion(text, a, b)
               /\ \A x \in ElementAt(text) : a <= x /\ x <= b => x \in doomed
        BY <1>4
      <4>2. DeletionShape(text, a, b, f) /\ a \in ElementAt(text) /\ b \in ElementAt(text)
        BY <4>1, DeletionSpans
      <4>3. a \in Nat /\ b \in Nat /\ f.from \in Nat /\ f.to \in Nat /\ f.from < a /\ b <= f.to
        BY <1>10, <4>2 DEF DeletionShape
      <4>4. CASE a > e
        <5>1. a > j
          <6>1. a # j /\ j <= a
            BY <3>12, <3>13, <4>2, <4>4
          <6>2. QED
            BY <3>12, <4>3, <6>1
        <5>2. ~ (f.from < j /\ j <= f.to)
          BY <3>12, <4>1, <4>2, <5>1, DeletionSpares
        <5>3. QED
          BY <3>12, <3>15, <3>16, <4>1, <4>3, <5>1, <5>2
      <4>5. CASE b < e
        <5>1. ~ (f.from < e /\ e <= f.to)
          BY <3>3, <4>1, <4>2, <4>5, DeletionSpares
        <5>2. QED
          BY <3>4, <3>15, <3>16, <4>1, <4>3, <4>5, <5>1
      <4>6. CASE a <= e /\ b = e
        <5>1. f.to = e
          BY <3>8, <4>2, <4>6 DEF DeletionShape
        <5>2. QED
          BY <3>4, <3>15, <3>16, <5>1
      <4>7. CASE a <= e /\ b > e
        <5>1. j <= b
          BY <3>12, <4>2, <4>7
        <5>2. a <= j
          BY <3>4, <3>12, <4>3, <4>7
        <5>3. QED
          BY <3>12, <3>13, <4>1, <5>1, <5>2
      <4>8. QED
        BY <3>4, <4>3, <4>4, <4>5, <4>6, <4>7
    <3>17. Kept(edits, k)
      BY <3>16 DEF Kept
    <3>18. QED
      BY <3>14, <3>15, <3>17
  <2>6. QED
    BY <2>4, <2>5
<1> DEFINE r == at[t]
<1>16. ASSUME NEW c \in 1..((r + 1) - 1), S[c] = Slashes, \A k \in (c + 1)..(r + 1) : S[k] \notin LineEnds
       PROVE  FALSE
  <2>1. c \in Nat /\ c <= r /\ c \in 1..Len(S) /\ r \in Nat
    BY <1>7, <1>13
  <2>2. PICK u \in 1..n : Kept(edits, u) /\ c = at[u] + 1
    BY <1>9, <2>1
  <2>3. text[u] = Slashes
    BY <1>9, <1>11, <1>16, <2>2
  <2>4. u < t
    <3>1. u # t
      BY <1>13, <2>3, <1>10, TokensApart
    <3>2. ~ (t < u)
      <4>1. t < u => at[t] + 1 <= at[u] /\ at[u] \in Nat
        BY <1>3, <1>13, <1>14
      <4>2. QED
        BY <2>1, <2>2, <4>1
    <3>3. QED
      BY <1>1, <1>13, <3>1, <3>2
  <2>5. PICK k \in 1..n : u < k /\ k < t /\ Kept(edits, k) /\ text[k] \in LineEnds
    BY <1>15, <2>2, <2>3, <2>4
  <2> DEFINE z == at[k]
  <2>6. S[z + 1] \in LineEnds
    BY <1>9, <1>11, <2>5
  <2>7. z \in Nat /\ at[u] + 1 <= z /\ z + 1 <= r
    BY <1>13, <1>14, <2>2, <2>5
  <2> HIDE DEF z, r
  <2>8. z + 1 \in (c + 1)..(r + 1)
    BY <2>1, <2>2, <2>7
  <2>9. QED
    BY <1>16, <2>6, <2>8
<1>17. r + 1 \in ElementAt(S)
  <2>1. r + 1 \in 1..Len(S)
    BY <1>7, <1>13
  <2>2. QED
    BY <1>13, <2>1 DEF ElementAt
<1>18. r + 1 \notin CommentedOut(S)
  BY <1>16 DEF CommentedOut
<1>19. S[r + 1] \in Contents(Lexed(S))
  <2> HIDE DEF r
  <2>1. QED
    BY <1>7, <1>17, <1>18, LexedContents
<1>20. QED
  BY <1>13, <1>19 DEF S, edits

(***************************************************************************)
(* One group after the edits of its handlers.                              *)
(***************************************************************************)
LEMMA HandlersEdited ==
  ASSUME NEW event, NEW group, NEW isTarget \in BOOLEAN, HasHandlers(group),
         Framed(group.handlers), Apart(group.handlers), Lined(group.handlers)
  PROVE  LET R == Lexed(Spliced(group.handlers, HandlerEdits(event, group, isTarget))) IN
         /\ R \in Seq(Range(R))
         /\ \A x \in Contents(R) : Owner(x) # event \/ isTarget
         /\ isTarget => Canonical(event) \in Contents(R)
<1> DEFINE text == group.handlers
           own == OwnedIn(event, group)
           x == Canonical(event)
           edits == HandlerEdits(event, group, isTarget)
           S == Spliced(text, edits)
           R == Lexed(S)
<1>1. own = {i \in ElementAt(text) : Owner(text[i]) = event}
  BY DEF OwnedIn
<1>2. PICK p, w : /\ Plan(text, edits, p, w) /\ Tidy(text, edits, p, w)
                  /\ isTarget => Shown(text, edits, p, w, x)
                  /\ ~ isTarget => w = <<>>
  BY HandlerPlan
<1>3. x \notin Punctuation
  BY NewElements
<1>4. Framed(text) /\ Apart(text) /\ Lined(text) /\ text \in Seq(Range(text))
  BY DEF Framed
<1>5. ~ isTarget => edits = DeleteRuns(text, own)
  BY DEF HandlerEdits
<1> HIDE DEF text, edits, x, own
<1>6. Puts(text, edits, p, w) /\ Framed(S)
  BY <1>2, <1>4, SpliceSound DEF Plan
<1>7. S \in Seq(Range(S)) /\ Contents(S) = Staying(text, edits) \cup Contents(w)
  BY <1>4, <1>6, SpliceContents DEF Framed
<1> HIDE DEF S
<1>8. R \in Seq(Range(R)) /\ Contents(R) \subseteq Contents(S)
  BY <1>7, LexedContents
<1>9. ASSUME isTarget
      PROVE  x \in Contents(R)
  BY <1>2, <1>3, <1>4, <1>6, <1>9, PutIsRead DEF S
<1>10. ASSUME ~ isTarget, NEW y \in Contents(R)
       PROVE  Owner(y) # event
  <2>1. Contents(w) = {}
    BY <1>2, <1>10 DEF Contents, ElementAt
  <2>2. PICK i \in ElementAt(text) : Kept(edits, i) /\ y = text[i]
    BY <1>7, <1>8, <1>10, <2>1 DEF Staying
  <2>3. i \notin own
    <3>1. own \in SUBSET ElementAt(text)
      BY <1>1
    <3>2. \A k \in own : ~ Kept(edits, k)
      BY <1>4, <1>5, <1>10, <3>1, RunsDeleted
    <3>3. QED
      BY <2>2, <3>2
  <2>4. QED
    BY <1>1, <2>2, <2>3
<1> HIDE DEF R
<1>11. QED
  BY <1>8, <1>9, <1>10 DEF R, S, text, edits, x

(***************************************************************************)
(* The handlers of a deployed helper are the program's.                    *)
(***************************************************************************)
LEMMA HelperTyped ==
  ASSUME helper \in Helpers
  PROVE  \E C : helper \in Tools(C) /\ (helper.windows => Quotable(helper.path))
<1>1. helper \in [path : Seq(Range(helper.path)), windows : BOOLEAN]
  BY HookFileAssumption
<1>2. helper.windows => Quotable(helper.path)
  BY HookFileAssumption
<1>3. helper \in Tools(Range(helper.path))
  BY <1>1 DEF Tools
<1>4. QED
  BY <1>2, <1>3

LEMMA OwnerOfOwn ==
  ASSUME helper \in Helpers, NEW event \in HookEvents
  PROVE  Owner(Canonical(event)) = event
<1> DEFINE command == CanonicalCommand(helper, event)
           entry == [helper |-> helper, event |-> event, command |-> command]
           w == CHOOSE x \in Written : x.helper = helper /\ x.event = event
           owned == [command |-> command, owner |-> Recognised(command)]
           r == CHOOSE x \in Read : x.command = command
<1>1. Recognised(command) = event
  <2>1. PICK C : helper \in Tools(C) /\ (helper.windows => Quotable(helper.path))
    BY HelperTyped
  <2>2. QED
    BY <2>1, OwnCommandRecognised
<1> HIDE DEF command
<1>2. \A x \in Written : x.helper = helper /\ x.event = event => x.command = command
  BY DEF Written, command
<1>3. entry \in Written /\ entry.helper = helper /\ entry.event = event
  BY DEF Written, command
<1>4. w \in Written /\ w.helper = helper /\ w.event = event
  BY <1>3
<1>5. w.command = command
  BY <1>2, <1>4
<1>6. Canonical(event).command = command
  BY <1>5 DEF Canonical, Handler
<1>7. \A x \in Read : x.owner = Recognised(x.command)
  BY DEF Read
<1>8. owned \in Read /\ owned.command = command
  <2>1. command \in {x.command : x \in Written}
    BY <1>3
  <2>2. QED
    BY <2>1 DEF Read
<1>9. r \in Read /\ r.command = command
  BY <1>8
<1>10. r.owner = event
  BY <1>1, <1>7, <1>9
<1>11. QED
  BY <1>6, <1>10 DEF Owner

(***************************************************************************)
(* One event's array after the edits of its groups.                        *)
(***************************************************************************)
Owns(event, array) == \E g \in Contents(array) : OwnedIn(event, g) # {}

\* The values that stand for what is no text and no group are none.
MarkersApart ==
  /\ \A text : text \in Seq(Range(text)) => text \notin NoText
  /\ \A matcher, handlers : [matcher |-> matcher, handlers |-> handlers] # Junk

LEMMA OwnGroupOwned ==
  ASSUME MarkersApart, NEW event, Owner(Canonical(event)) = event
  PROVE  OwnedIn(event, OwnGroup(event)) # {}
<1> DEFINE B == Bare(<<Canonical(event)>>)
<1>1. Framed(B) /\ Contents(B) = {Canonical(event)}
  BY NewElements, OneInBrackets, BareOne
<1> HIDE DEF B
<1>2. OwnGroup(event) = [matcher |-> Blank, handlers |-> B]
  BY DEF OwnGroup, B
<1>3. B # Junk /\ [matcher |-> Blank, handlers |-> B] # Junk
  BY <1>1 DEF MarkersApart, Framed, NoText
<1>4. HasHandlers(OwnGroup(event)) /\ OwnGroup(event).handlers = B
  BY <1>2, <1>3 DEF HasHandlers
<1>5. PICK i \in ElementAt(B) : B[i] = Canonical(event)
  BY <1>1 DEF Contents
<1>6. QED
  BY <1>4, <1>5 DEF OwnedIn

LEMMA PlannedOwns ==
  ASSUME MarkersApart, NEW event, NEW array, array # Junk, ArraySound(array), NEW wanted \in BOOLEAN,
         wanted => Owner(Canonical(event)) = event,
         ~ RunsOver(array, Emptied(event, array, wanted))
  PROVE  LET R == Planned(event, array, wanted) IN
         R \in Seq(Range(R)) /\ (Owns(event, R) <=> wanted)
<1> DEFINE new == [i \in ElementAt(array) |-> EditedGroup(event, array, wanted, i)]
           M == Overlay(array, new)
           gone == Emptied(event, array, wanted)
           target == TargetGroup(array, wanted)
           put == NewGroup(event, array, wanted)
           cuts == DeleteRuns(array, gone)
           edits == GroupEdits(event, array, wanted)
           S == Spliced(M, edits)
           R == Lexed(S)
           x == OwnGroup(event)
<1>1. Framed(array) /\ Apart(array) /\ Lined(array) /\ \A i \in ElementAt(array) : GroupSound(array[i])
  BY DEF ArraySound
<1>2. \A i \in ElementAt(array) : new[i] \notin Punctuation /\ new[i] = EditedGroup(event, array, wanted, i)
  BY <1>1, EditedGroupSound
<1>3. Planned(event, array, wanted) = R
  BY DEF Planned, SplicedArray
<1>4. PICK p, w : /\ Plan(array, edits, p, w) /\ Tidy(array, edits, p, w)
                  /\ \A k \in ElementAt(w) : w[k] = x
                  /\ put # {} => Shown(array, edits, p, w, x)
                  /\ put = {} => w = <<>>
  BY <1>1, GroupPlan
<1> HIDE DEF new
<1>5. /\ Framed(M) /\ ElementAt(M) = ElementAt(array) /\ Len(M) = Len(array)
      /\ \A i \in 1..Len(array) : M[i] = IF i \in ElementAt(array) THEN new[i] ELSE array[i]
  BY <1>1, <1>2, Overlaid
<1>6. Plan(M, edits, p, w)
  BY <1>1, <1>2, <1>4, PlanCarriesOver
<1>7. Lined(M) /\ (put # {} => Shown(M, edits, p, w, x))
  <2>1. p \in 1..(Len(array) - 1)
    BY <1>4 DEF Plan, Puts
  <2>2. QED
    BY <1>1, <1>2, <1>4, <2>1, TidyCarriesOver
<1>8. \A i \in ElementAt(array) : i \in 1..Len(array) /\ i \in Nat /\ 2 <= i
  <2>1. \A i \in ElementAt(array) : i \in 2..(Len(array) - 1) /\ Len(array) \in Nat
    BY <1>1, ElementWithin
  <2>2. QED
    BY <2>1
<1>9. gone \in SUBSET ElementAt(array) /\ x \notin Punctuation
  BY NewElements DEF Emptied
<1>10. edits = cuts \cup put /\ ~ RunsOver(array, gone)
  BY DEF GroupEdits
<1>11. target # 0 => wanted /\ target \in ElementAt(array) /\ target \notin gone /\ HasHandlers(array[target])
  <2> DEFINE fit == {k \in ElementAt(array) : HasHandlers(array[k]) /\ array[k].matcher = Blank}
  <2>1. target = IF wanted /\ fit # {} THEN Min(fit) ELSE 0
    BY DEF TargetGroup
  <2>2. fit \in SUBSET Nat
    BY <1>8
  <2>3. fit # {} => Min(fit) \in fit
    <3> HIDE DEF fit
    <3>1. QED
      BY <2>2, LeastExists
  <2>4. target \notin gone
    BY DEF Emptied
  <2> HIDE DEF target, gone
  <2>5. QED
    BY <2>1, <2>3, <2>4
<1>12. put = {} => (wanted => target # 0)
  BY DEF NewGroup
<1>13. put # {} => wanted
  BY DEF NewGroup
\* A group that stays has one of the program's handlers if it is the target.
<1>14. ASSUME NEW i \in ElementAt(array), i \notin gone
       PROVE  OwnedIn(event, M[i]) # {} <=> i = target
  <2> DEFINE g == array[i]
             b == i = target
             T == Lexed(Spliced(g.handlers, HandlerEdits(event, g, b)))
  <2>1. M[i] = EditedGroup(event, array, wanted, i)
    BY <1>2, <1>5, <1>8
  <2>2. i # 0
    BY <1>8
  <2>3. CASE ~ HasHandlers(g)
    <3>1. M[i] = g
      BY <2>1, <2>3 DEF EditedGroup
    <3>2. OwnedIn(event, M[i]) = {}
      BY <2>3, <3>1 DEF OwnedIn
    <3>3. i # target
      BY <1>11, <2>2, <2>3
    <3>4. QED
      BY <3>2, <3>3
  <2>4. CASE HasHandlers(g)
    <3>1. M[i] = [g EXCEPT !.handlers = T]
      BY <1>14, <2>1, <2>4 DEF EditedGroup
    <3>2. /\ g = [matcher |-> g.matcher, handlers |-> g.handlers]
          /\ Framed(g.handlers) /\ Apart(g.handlers) /\ Lined(g.handlers)
      BY <1>1, <2>4 DEF GroupSound
    <3>3. /\ T \in Seq(Range(T))
          /\ \A y \in Contents(T) : Owner(y) # event \/ b
          /\ b => Canonical(event) \in Contents(T)
      <4>1. b \in BOOLEAN
        OBVIOUS
      <4> HIDE DEF b, g
      <4>2. QED
        BY <2>4, <3>2, <4>1, HandlersEdited
    <3> HIDE DEF T, g
    <3>4. M[i] = [matcher |-> g.matcher, handlers |-> T]
      BY <3>1, <3>2
    <3>5. HasHandlers(M[i]) /\ M[i].handlers = T
      BY <3>3, <3>4 DEF HasHandlers, MarkersApart, NoText
    <3>6. OwnedIn(event, M[i]) = {k \in ElementAt(T) : Owner(T[k]) = event}
      BY <3>5 DEF OwnedIn
    <3>7. OwnedIn(event, M[i]) # {} <=> \E y \in Contents(T) : Owner(y) = event
      BY <3>6 DEF Contents
    <3>8. i = target => wanted
      BY <1>11, <2>2
    <3>9. QED
      BY <3>3, <3>7, <3>8
  <2>5. QED
    BY <2>3, <2>4
<1> HIDE DEF gone, target, cuts, put, x, edits, M
<1>15. /\ Puts(M, edits, p, w) /\ Framed(S) /\ S \in Seq(Range(S))
       /\ Contents(S) = Staying(M, edits) \cup Contents(w)
  <2>1. Puts(M, edits, p, w) /\ Framed(S)
    BY <1>5, <1>6, SpliceSound DEF Plan
  <2>2. QED
    BY <1>5, <2>1, SpliceContents DEF Framed
<1> HIDE DEF S
<1>16. R \in Seq(Range(R)) /\ Contents(R) \subseteq Contents(S)
  BY <1>15, LexedContents
<1>17. ASSUME NEW g \in Contents(R), OwnedIn(event, g) # {}
       PROVE  wanted
  <2>1. CASE g \in Staying(M, edits)
    <3>1. PICK i \in ElementAt(M) : Kept(edits, i) /\ g = M[i]
      BY <2>1 DEF Staying
    <3>2. i \notin gone
      <4>1. \A k \in gone : ~ Kept(cuts, k)
        BY <1>1, <1>9, RunsDeleted DEF cuts
      <4>2. Kept(cuts, i)
        BY <1>10, <3>1 DEF Kept
      <4>3. QED
        BY <4>1, <4>2
    <3>3. i \in ElementAt(array)
      BY <1>5, <3>1
    <3>4. i # 0
      BY <1>8, <3>3
    <3>5. OwnedIn(event, M[i]) # {}
      BY <1>17, <3>1
    <3>6. i = target
      BY <1>14, <3>2, <3>3, <3>5
    <3>7. QED
      BY <1>11, <3>4, <3>6
  <2>2. CASE g \in Contents(w)
    <3>1. w # <<>>
      BY <2>2 DEF Contents, ElementAt
    <3>2. QED
      BY <1>4, <1>13, <3>1
  <2>3. QED
    BY <1>15, <1>16, <1>17, <2>1, <2>2
<1>18. ASSUME wanted
       PROVE  \E g \in Contents(R) : OwnedIn(event, g) # {}
  <2>1. CASE put # {}
    <3>1. x \in Contents(R)
      BY <1>5, <1>7, <1>9, <1>15, <2>1, PutIsRead DEF S
    <3>2. OwnedIn(event, x) # {}
      BY <1>18, OwnGroupOwned DEF x
    <3>3. QED
      BY <3>1, <3>2
  <2>2. CASE put = {}
    <3>1. target \in ElementAt(array) \ gone
      BY <1>11, <1>12, <1>18, <2>2
    <3>2. edits = DeleteRuns(array, gone)
      BY <1>10, <2>2 DEF cuts
    <3>3. \A i \in 1..Len(array) : i \notin ElementAt(array) => M[i] = array[i]
      BY <1>5
    <3>4. M[target] \in Contents(Lexed(Spliced(M, DeleteRuns(array, gone))))
      BY <1>1, <1>5, <1>9, <1>10, <3>1, <3>3, KeptIsRead
    <3>5. M[target] \in Contents(R)
      BY <3>2, <3>4 DEF S
    <3>6. OwnedIn(event, M[target]) # {}
      BY <1>14, <3>1
    <3>7. QED
      BY <3>5, <3>6
  <2>3. QED
    BY <2>1, <2>2
<1> HIDE DEF R
<1>19. QED
  BY <1>3, <1>16, <1>17, <1>18 DEF Owns

(***************************************************************************)
(* The properties of the file, and the file.                               *)
(***************************************************************************)
Handles(property) == property.value # Junk /\ Owns(property.event, property.value)

LEMMA ByProperties ==
  ASSUME NEW text, text \notin NoText, NEW wanted,
         \A p \in Contents(text) : Handles(p) => p.event \in wanted,
         \A e \in wanted : \E p \in Contents(text) : Handles(p) /\ p.event = e
  PROVE  HandlesExactly(text, wanted)
<1> DEFINE array(p) == text[p].value
           Handled(p, g) == {<<text[p].event, g, h>> : h \in OwnedIn(text[p].event, array(p)[g])}
           In(p) == IF array(p) = Junk THEN {} ELSE UNION {Handled(p, g) : g \in ElementAt(array(p))}
           All == UNION {In(p) : p \in ElementAt(text)}
<1>1. Inspected(text) = All
  BY DEF Inspected
<1>2. ASSUME NEW x \in All
      PROVE  x[1] \in wanted
  <2>1. PICK p \in ElementAt(text) : x \in In(p)
    OBVIOUS
  <2>2. array(p) # Junk
    BY <2>1
  <2>3. PICK g \in ElementAt(array(p)) : x \in Handled(p, g)
    BY <2>1
  <2>4. PICK h \in OwnedIn(text[p].event, array(p)[g]) : x = <<text[p].event, g, h>>
    BY <2>3
  <2>5. x[1] = text[p].event
    BY <2>4
  <2>6. Handles(text[p])
    BY <2>2, <2>4 DEF Handles, Owns, Contents
  <2>7. QED
    BY <2>5, <2>6 DEF Contents
<1>3. ASSUME NEW e \in wanted
      PROVE  \E x \in All : x[1] = e
  <2>1. PICK p \in ElementAt(text) : Handles(text[p]) /\ text[p].event = e
    BY <1>3 DEF Contents
  <2>2. PICK g \in ElementAt(array(p)) : OwnedIn(text[p].event, array(p)[g]) # {}
    BY <2>1 DEF Handles, Owns, Contents
  <2>3. PICK h : h \in OwnedIn(text[p].event, array(p)[g])
    BY <2>2
  <2>4. <<text[p].event, g, h>> \in Handled(p, g)
    BY <2>3
  <2>5. array(p) # Junk
    BY <2>1 DEF Handles
  <2>6. <<text[p].event, g, h>> \in In(p)
    BY <2>4, <2>5
  <2>7. <<text[p].event, g, h>> \in All
    BY <2>6
  <2>8. <<text[p].event, g, h>>[1] = e
    BY <2>1
  <2>9. QED
    BY <2>7, <2>8
<1>4. QED
  BY <1>1, <1>2, <1>3 DEF HandlesExactly

\* No group of the property's is commented out.
Spares(property, wanted) ==
  property.value # Junk =>
    ~ RunsOver(property.value, Emptied(property.event, property.value, property.event \in wanted))

LEMMA PatchedPropertyHandles ==
  ASSUME MarkersApart, helper \in Helpers, NEW wanted \in SUBSET HookEvents,
         NEW property, PropertySound(property), Spares(property, wanted),
         property.event \in wanted => property.value # Junk
  PROVE  /\ PatchedProperty(property, wanted).event = property.event
         /\ Handles(PatchedProperty(property, wanted)) <=> property.event \in wanted
<1> DEFINE e == property.event
           v == property.value
           b == e \in wanted
           R == Planned(e, v, b)
<1>1. property = Property(e, v) /\ ArraySound(v)
  BY DEF PropertySound
<1>2. CASE v = Junk
  BY <1>2 DEF PatchedProperty, Handles
<1>3. CASE v # Junk
  <2>1. b \in BOOLEAN /\ (b => Owner(Canonical(e)) = e)
    BY OwnerOfOwn
  <2>2. PatchedProperty(property, wanted) = [property EXCEPT !.value = R]
    BY <1>3 DEF PatchedProperty
  <2>8. ~ RunsOver(v, Emptied(e, v, b))
    BY <1>3 DEF Spares
  <2> HIDE DEF b
  <2>3. R \in Seq(Range(R)) /\ (Owns(e, R) <=> b)
    BY <1>1, <1>3, <2>1, <2>8, PlannedOwns
  <2> HIDE DEF R, e, v
  <2>4. PatchedProperty(property, wanted) = Property(e, R)
    BY <1>1, <2>2 DEF Property
  <2>5. R # Junk
    BY <2>3 DEF MarkersApart, NoText
  <2>6. Property(e, R).event = e /\ Property(e, R).value = R
    BY DEF Property
  <2>7. QED
    BY <2>3, <2>4, <2>5, <2>6 DEF Handles, b, e
<1>4. QED
  BY <1>2, <1>3

LEMMA FreshHandles ==
  ASSUME MarkersApart, helper \in Helpers, NEW e \in HookEvents
  PROVE  Fresh(e).event = e /\ Handles(Fresh(e))
<1> DEFINE B == Bare(<<OwnGroup(e)>>)
<1>1. Framed(B) /\ Contents(B) = {OwnGroup(e)}
  BY NewElements, OneInBrackets, BareOne
<1>2. OwnedIn(e, OwnGroup(e)) # {}
  BY OwnerOfOwn, OwnGroupOwned
<1> HIDE DEF B
<1>3. Fresh(e).event = e /\ Fresh(e).value = B
  BY DEF Fresh, Property, B
<1>4. B # Junk
  BY <1>1 DEF MarkersApart, Framed, NoText
<1>5. QED
  BY <1>1, <1>2, <1>3, <1>4 DEF Handles, Owns

LEMMA FreshContents ==
  ASSUME NEW wanted \in SUBSET HookEvents
  PROVE  LET fresh == FreshProperties(wanted) IN
         /\ fresh \in Seq(Range(fresh)) /\ \A i \in 1..Len(fresh) : fresh[i] \notin Punctuation
         /\ {fresh[i] : i \in 1..Len(fresh)} = {Fresh(e) : e \in wanted}
<1> DEFINE fresh == FreshProperties(wanted)
<1>1. /\ fresh \in Seq(Range(fresh))
      /\ \A i \in 1..Len(fresh) : fresh[i] \notin Punctuation
      /\ \A i \in 1..Len(fresh) : \E e \in wanted : fresh[i] = Fresh(e)
      /\ \A e \in wanted : \E i \in 1..Len(fresh) : fresh[i] = Fresh(e)
  BY FreshSound
<1> HIDE DEF fresh
<1>2. {fresh[i] : i \in 1..Len(fresh)} = {Fresh(e) : e \in wanted}
  BY <1>1
<1>3. QED
  BY <1>1, <1>2 DEF fresh

\* The properties of a patched file: those there were, patched, and the fresh ones.
LEMMA PatchedContents ==
  ASSUME NEW text, ObjectSound(text), text \notin NoText, NEW wanted \in SUBSET HookEvents
  PROVE  Contents(PatchedText(text, wanted))
           = {PatchedProperty(text[i], wanted) : i \in ElementAt(text)}
               \cup {Fresh(e) : e \in wanted \ Named(text)}
<1> DEFINE new == [i \in ElementAt(text) |-> PatchedProperty(text[i], wanted)]
           M == Overlay(text, new)
           fresh == FreshProperties(wanted \ Named(text))
           last == ElementAt(text)
           edits == NewProperties(text, wanted)
           R == Spliced(M, edits)
           old == {PatchedProperty(text[i], wanted) : i \in last}
           more == {Fresh(e) : e \in wanted \ Named(text)}
<1>1. Framed(text) /\ Apart(text) /\ \A i \in last : PropertySound(text[i])
  BY DEF ObjectSound
<1>2. \A i \in last : new[i] \notin Punctuation /\ new[i] = PatchedProperty(text[i], wanted)
  BY <1>1, PatchedPropertySound
<1>3. PatchedText(text, wanted) = R
  BY DEF PatchedText, NoText
<1> HIDE DEF new
<1>4. /\ Framed(M) /\ ElementAt(M) = last /\ Len(M) = Len(text)
      /\ \A i \in last : M[i] = PatchedProperty(text[i], wanted)
  <2>1. /\ Framed(M) /\ ElementAt(M) = ElementAt(text) /\ Len(M) = Len(text)
        /\ \A i \in 1..Len(text) : M[i] = IF i \in ElementAt(text) THEN new[i] ELSE text[i]
    BY <1>1, <1>2, Overlaid
  <2>2. \A i \in last : i \in 1..Len(text)
    BY DEF ElementAt
  <2>3. QED
    BY <1>2, <2>1, <2>2
<1> HIDE DEF M
<1>5. M \in Seq(Range(M)) /\ Len(text) \in Nat /\ Len(text) > 1
  BY <1>1, <1>4, RangeOfSeq DEF Framed
<1>6. \A i \in last : i \in Nat /\ 2 <= i /\ i < Len(text)
  BY <1>1, <1>5, ElementWithin
<1>7. /\ fresh \in Seq(Range(fresh)) /\ \A i \in 1..Len(fresh) : fresh[i] \notin Punctuation
      /\ {fresh[i] : i \in 1..Len(fresh)} = more
  <2>1. wanted \ Named(text) \in SUBSET HookEvents
    OBVIOUS
  <2>2. QED
    BY <2>1, FreshContents
<1>8. edits = IF fresh = <<>> THEN {}
              ELSE IF last = {} THEN {Edit(1, 1, Listed(fresh))}
              ELSE {Edit(Max(last), Max(last), <<Comma>> \o Listed(fresh))}
  BY DEF NewProperties
<1> HIDE DEF fresh, edits
<1>9. \A e \in edits : e.from = e.to /\ e.from \in Nat
  <2>1. last # {} => Max(last) \in Nat
    <3>1. last \in SUBSET Nat /\ \A k \in last : k <= Len(text)
      BY <1>5, <1>6
    <3> HIDE DEF last
    <3>2. QED
      BY <1>5, <3>1, GreatestExists
  <2>2. QED
    BY <1>8, <2>1 DEF Edit
<1>10. Staying(M, edits) = old
  <2>1. \A i \in last : Kept(edits, i)
    BY <1>6, <1>9 DEF Kept
  <2>2. Staying(M, edits) = {M[i] : i \in last}
    BY <1>4, <2>1 DEF Staying
  <2>3. QED
    BY <1>4, <2>2
<1> HIDE DEF old, more
<1>11. CASE fresh = <<>>
  <2>1. edits = {}
    BY <1>8, <1>11
  <2>2. \A d \in edits : d.with = <<>>
    BY <2>1
  <2>3. Contents(R) = Staying(M, edits)
    BY ONLY <1>4, <2>2, NonePut
  <2>4. more = {}
    BY <1>7, <1>11
  <2>5. QED
    BY <1>3, <1>10, <2>3, <2>4 DEF old, more
<1>12. CASE fresh # <<>>
  <2> DEFINE cuts == {}
  <2>1. \E p \in 1..(Len(text) - 1) : \E w :
          /\ edits = cuts \cup {Edit(p, p, w)}
          /\ w \in Seq(Range(w)) /\ Len(w) > 0 /\ Contents(w) = more
    <3>1. Len(fresh) > 0
      BY <1>7, <1>12
    <3>2. CASE last = {}
      <4> DEFINE w == Listed(fresh)
      <4>1. w \in Seq(Range(w)) /\ Len(w) > 0
        BY <1>7, <3>1, ListedSound
      <4>2. Contents(w) = more
        BY <1>7, BareHolds
      <4>3. edits = {Edit(1, 1, w)}
        BY <1>8, <1>12, <3>2
      <4>4. 1 \in 1..(Len(text) - 1)
        BY <1>5
      <4> HIDE DEF w
      <4>5. QED
        BY <4>1, <4>2, <4>3, <4>4
    <3>3. CASE last # {}
      <4> DEFINE w == <<Comma>> \o Listed(fresh)
                 m == Max(last)
      <4>1. w \in Seq(Range(w)) /\ Len(w) > 0
        BY <1>7, ListedBehind
      <4>2. Contents(w) = more
        BY <1>7, BareHolds
      <4>3. edits = {Edit(m, m, w)}
        BY <1>8, <1>12, <3>3
      <4>4. m \in last
        <5>1. last \in SUBSET Nat /\ \A k \in last : k <= Len(text)
          BY <1>5, <1>6
        <5> HIDE DEF last
        <5>2. QED
          BY <1>5, <3>3, <5>1, GreatestExists
      <4> HIDE DEF w, m
      <4>5. m \in 1..(Len(text) - 1)
        BY <1>5, <1>6, <4>4
      <4>6. QED
        BY <4>1, <4>2, <4>3, <4>5
    <3>4. QED
      BY <3>2, <3>3
  <2>2. PICK p \in 1..(Len(text) - 1) : \E w :
            /\ edits = cuts \cup {Edit(p, p, w)}
            /\ w \in Seq(Range(w)) /\ Len(w) > 0 /\ Contents(w) = more
    BY <2>1
  <2>3. PICK w : /\ edits = cuts \cup {Edit(p, p, w)}
                 /\ w \in Seq(Range(w)) /\ Len(w) > 0 /\ Contents(w) = more
    BY <2>2
  <2>4. \A d \in cuts : d.with = <<>>
    OBVIOUS
  <2> HIDE DEF cuts
  <2>5. /\ M \in Seq(Range(M)) /\ p \in 1..(Len(M) - 1)
        /\ w \in Seq(Range(w)) /\ Len(w) > 0
    BY <1>4, <1>5, <2>3
  <2>6. Puts(M, cuts \cup {Edit(p, p, w)}, p, w)
    BY ONLY <2>4, <2>5, PutsOne
  <2>7. Contents(Spliced(M, cuts \cup {Edit(p, p, w)}))
          = Staying(M, cuts \cup {Edit(p, p, w)}) \cup Contents(w)
    BY ONLY <2>5, <2>6, SpliceContents
  <2>8. Contents(R) = old \cup more
    BY <1>10, <2>3, <2>7
  <2>9. QED
    BY <1>3, <2>8 DEF old, more
<1>13. QED
  BY <1>11, <1>12

LEMMA PatchedHandles ==
  ASSUME MarkersApart, helper \in Helpers, NEW text, FileSound(text), text # Junk,
         NEW wanted \in SUBSET HookEvents,
         text \notin NoText => Reads(PatchedText(text, wanted)),
         text \notin NoText => \A i \in ElementAt(text) :
           Spares(text[i], wanted) /\ (text[i].event \in wanted => text[i].value # Junk)
  PROVE  HandlesExactly(PatchedText(text, wanted), wanted)
<1> DEFINE R == PatchedText(text, wanted)
<1>1. R # Absent \/ text \notin NoText => R \notin NoText
  <2>1. R # Absent \/ text \notin NoText => ObjectSound(R)
    BY PatchedSound
  <2>2. QED
    BY <2>1 DEF ObjectSound, MarkersApart, Framed
<1>2. \A e \in wanted : Fresh(e).event = e /\ Handles(Fresh(e))
  BY FreshHandles
<1>3. CASE text = Scalar /\ wanted = {}
  <2>1. R = Absent
    BY <1>3 DEF PatchedText
  <2>2. Inspected(R) = {}
    BY <2>1 DEF Inspected, NoText
  <2>3. QED
    BY <1>3, <2>2 DEF HandlesExactly
<1>4. CASE text \in {Absent, Scalar} /\ ~ (text = Scalar /\ wanted = {})
  <2>1. R = Bare(FreshProperties(wanted))
    BY <1>4 DEF PatchedText
  <2>2. Contents(R) = {Fresh(e) : e \in wanted}
    BY <2>1, FreshContents, BareHolds
  <2>3. R \notin NoText
    <3>1. Framed(R)
      BY <2>1, FreshSound, BareSound
    <3>2. QED
      BY <3>1 DEF MarkersApart, Framed
  <2> HIDE DEF R
  <2>4. \A p \in Contents(R) : p.event \in wanted
    BY <1>2, <2>2
  <2>5. \A e \in wanted : \E p \in Contents(R) : Handles(p) /\ p.event = e
    BY <1>2, <2>2
  <2>6. HandlesExactly(R, wanted)
    BY <2>3, <2>4, <2>5, ByProperties
  <2>7. QED
    BY <2>6 DEF R
<1>5. CASE text \notin NoText
  <2>1. ObjectSound(text)
    BY <1>5 DEF FileSound
  <2>2. Contents(R) = {PatchedProperty(text[i], wanted) : i \in ElementAt(text)}
                        \cup {Fresh(e) : e \in wanted \ Named(text)}
    BY <1>5, <2>1, PatchedContents
  <2>3. ASSUME NEW i \in ElementAt(text)
        PROVE  /\ PatchedProperty(text[i], wanted).event = text[i].event
               /\ Handles(PatchedProperty(text[i], wanted)) <=> text[i].event \in wanted
    <3>1. /\ PropertySound(text[i]) /\ Spares(text[i], wanted)
          /\ text[i].event \in wanted => text[i].value # Junk
      BY <1>5, <2>1 DEF ObjectSound
    <3>2. QED
      BY <3>1, PatchedPropertyHandles
  <2> HIDE DEF R
  <2>4. ASSUME NEW p \in Contents(R), Handles(p)
        PROVE  p.event \in wanted
    <3>1. CASE \E i \in ElementAt(text) : p = PatchedProperty(text[i], wanted)
      BY <2>3, <2>4, <3>1
    <3>2. CASE \E e \in wanted \ Named(text) : p = Fresh(e)
      BY <1>2, <3>2
    <3>3. QED
      BY <2>2, <3>1, <3>2
  <2>5. ASSUME NEW e \in wanted
        PROVE  \E p \in Contents(R) : Handles(p) /\ p.event = e
    <3>1. CASE e \in Named(text)
      <4>1. PICK i \in ElementAt(text) : text[i].event = e
        BY <3>1 DEF Named
      <4>2. PatchedProperty(text[i], wanted) \in Contents(R)
        BY <2>2
      <4>3. QED
        BY <2>3, <4>1, <4>2
    <3>2. CASE e \notin Named(text)
      <4>1. Fresh(e) \in Contents(R)
        BY <2>2, <3>2
      <4>2. QED
        BY <1>2, <4>1
    <3>3. QED
      BY <3>1, <3>2
  <2>6. HandlesExactly(R, wanted)
    BY <1>1, <1>5, <2>4, <2>5, ByProperties
  <2>7. QED
    BY <2>6 DEF R
<1>6. QED
  BY <1>3, <1>4, <1>5 DEF NoText

LEMMA Spared ==
  ASSUME NEW text, text \notin NoText, NEW wanted, ~ Somewhere(RunsOverGroups, text, wanted)
  PROVE  \A i \in ElementAt(text) : Spares(text[i], wanted)
<1>1. \A i \in ElementAt(text) : text[i].value # Junk =>
        ~ RunsOver(text[i].value, Emptied(text[i].event, text[i].value, text[i].event \in wanted))
  BY DEF Somewhere, RunsOverGroups
<1>2. QED
  BY <1>1 DEF Spares

\* After a patch the file has handlers of the program's for the wanted events, each
\* written as the program reads its own, and for no other: unless a group was
\* deleted together with the end of the comment before it, so that the comment now
\* covers what follows on the line.
PatchHandles ==
  \A wanted \in SUBSET HookEvents :
    Patch(wanted) /\ ~ Somewhere(RunsOverGroups, document, wanted) => HandlesExactly(document', wanted)

THEOREM PatchedAsWanted ==
  ASSUME MarkersApart
  PROVE  FileSpec => [][PatchHandles]_fileVars
<1> DEFINE Inv == HookFileInv /\ helper \in Helpers
<1>1. FileInit => Inv
  BY HookFileInductive, HookFileAssumption DEF FileInit
<1>2. Inv /\ [FileNext]_fileVars => Inv'
  <2>1. [FileNext]_fileVars => UNCHANGED helper
    BY DEF FileNext, Patch, RefusePatch, fileVars
  <2>2. QED
    BY <2>1, HookFileInductive
<1>3. Inv /\ [FileNext]_fileVars => [PatchHandles]_fileVars
  <2>1. SUFFICES ASSUME Inv, NEW wanted \in SUBSET HookEvents, Patch(wanted),
                        ~ Somewhere(RunsOverGroups, document, wanted)
                 PROVE  HandlesExactly(document', wanted)
    BY DEF PatchHandles
  <2>2. FileSound(document)
    BY <2>1, FileParts DEF HookFileInv, StaysSeparated
  <2>3. document # Junk
    BY <2>1 DEF Patch, RefusedPatch
  <2>4. document \notin NoText =>
          /\ ~ Invalid(PatchedText(document, wanted))
          /\ \A i \in ElementAt(document) : document[i].event \in wanted => document[i].value # Junk
    BY <2>1, <2>3 DEF Patch, RefusedPatch, NoText
  <2>5. document \notin NoText => Reads(PatchedText(document, wanted))
    BY <2>4 DEF Invalid, Reads, PropertyParses, GroupReads
  <2>6. document \notin NoText => \A i \in ElementAt(document) :
          Spares(document[i], wanted) /\ (document[i].event \in wanted => document[i].value # Junk)
    BY <2>1, <2>4, Spared
  <2>7. HandlesExactly(PatchedText(document, wanted), wanted)
    BY <2>1, <2>2, <2>3, <2>5, <2>6, PatchedHandles
  <2>8. QED
    BY <2>1, <2>7 DEF Patch
<1>4. QED
  BY <1>1, <1>2, <1>3, PTL DEF FileSpec
=============================================================================
