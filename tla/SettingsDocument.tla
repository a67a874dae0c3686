------------------------ MODULE SettingsDocument --------------------------
(***************************************************************************)
(* The settings: one JSON document in one row of app_settings. Every       *)
(* command reads the whole document, changes the fields it is about and    *)
(* writes the whole document back, in two transactions with nothing in     *)
(* between to keep others out. The switch for starting at login is also    *)
(* registered with the operating system, before the document is written.   *)
(***************************************************************************)
EXTENDS CommandThreads

CONSTANTS
  Forms,       \* contents of the settings page beside the login switch
  Offsets,     \* time zones the window may report
  Durations,   \* ends of pauses the user may ask for (never NoPause)
  NoPause,
  DefaultForm, DefaultOffset   \* the page and the zone of a first start

ASSUME SettingsAssumption == DefaultForm \in Forms /\ DefaultOffset \in Offsets

VARIABLES
  settings,    \* the document
  registered,  \* whether the operating system starts the application at login
  wanted,      \* history: the last value its own command stored, per field
  lost,        \* history: fields overwritten by a command that read before
  unsure       \* history: the login switch was overtaken or left unsaved

settingsVars == <<settings, registered, wanted, lost, unsure>>

Fields == {"form", "autostart", "pause", "offset"}
Settings ==
  [form: Forms, autostart: BOOLEAN, pause: Durations \cup {NoPause}, offset: Offsets]

\* The fields a command stores values of its own in.
Owned(kind) ==
  CASE kind = "save"   -> {"form", "autostart"}
    [] kind = "pause"  -> {"pause"}
    [] kind = "report" -> {"offset"}

SettingsInit ==
  /\ settings = [form |-> DefaultForm, autostart |-> FALSE, pause |-> NoPause,
                 offset |-> DefaultOffset]
  /\ registered = settings.autostart
  /\ wanted = settings
  /\ lost = {}
  /\ unsure = FALSE

Holding(t) == job[t].step \in {"read", "registering"}

\* A command reads the document and, in memory, makes it the one it will store.
ReadSettings(t, kind, next) ==
  /\ Begins(t, [step |-> IF next.autostart # settings.autostart THEN "registering" ELSE "read",
                kind |-> kind, doc |-> next, missed |-> {}])
  /\ UNCHANGED settingsVars

SaveSettings(t) ==
  \E f \in Forms, a \in BOOLEAN :
    ReadSettings(t, "save", [settings EXCEPT !.form = f, !.autostart = a])

PausedDocumentAfresh(d) ==   \* a mutant of PausedDocument
  [form |-> DefaultForm, autostart |-> FALSE, pause |-> d, offset |-> DefaultOffset]
PausedDocument(d) == [settings EXCEPT !.pause = d]

SetNotificationPause(t) ==
  \E d \in Durations : ReadSettings(t, "pause", PausedDocument(d))

ClearNotificationPause(t) ==
  ReadSettings(t, "pause", [settings EXCEPT !.pause = NoPause])

\* The window reports its time zone at every start of the page; a report that
\* changes nothing ends after the read.
ReportOffset(t) ==
  \E o \in Offsets \ {settings.offset} :
    ReadSettings(t, "report", [settings EXCEPT !.offset = o])

\* autostart_control, called before the document is written.
RegisterAutostart(t) ==
  /\ job[t].step = "registering"
  /\ registered' = job[t].doc.autostart
  /\ Continues(t, [job[t] EXCEPT !.step = "read"])
  /\ unsure' = (unsure \/ \E u \in Threads \ {t} : Holding(u) /\ job[u].kind = "save")
  /\ UNCHANGED <<settings, wanted, lost>>

RegistrationIgnored(t) ==   \* a mutant of RegistrationFails
  /\ job[t].step = "registering"
  /\ Faulty
  /\ job' = [job EXCEPT ![t].step = "read"]
  /\ UNCHANGED settingsVars

RegistrationFails(t) ==
  /\ job[t].step = "registering"
  /\ Aborts(t)
  /\ UNCHANGED settingsVars

\* save_settings of the repository. Whoever holds an older document from now on
\* will write over the fields stored here.
WriteSettings(t) ==
  LET mine == Owned(job[t].kind) IN
  /\ job[t].step = "read"
  /\ settings' = job[t].doc
  /\ wanted' = [f \in Fields |-> IF f \in mine THEN job[t].doc[f] ELSE wanted[f]]
  /\ lost' = (lost \ mine) \cup (job[t].missed \ mine)
  /\ unsure' = (unsure \/ "autostart" \in job[t].missed)
  /\ job' = [u \in Threads |->
               IF u = t THEN Free
               ELSE IF Holding(u) THEN [job[u] EXCEPT !.missed = @ \cup mine]
               ELSE job[u]]
  /\ UNCHANGED <<begun, faults, registered>>

\* A registration made before the write that fails is not undone.
WriteFails(t) ==
  /\ job[t].step = "read"
  /\ Aborts(t)
  /\ unsure' = (unsure \/ registered # settings.autostart)
  /\ UNCHANGED <<settings, registered, wanted, lost>>

SettingsStop ==
  /\ unsure' = (unsure \/ registered # settings.autostart)
  /\ UNCHANGED <<settings, registered, wanted, lost>>

SettingsStep(t) ==
  \/ SaveSettings(t)
  \/ SetNotificationPause(t)
  \/ ClearNotificationPause(t)
  \/ ReportOffset(t)
  \/ RegisterAutostart(t)
  \/ RegistrationFails(t)
  \/ WriteSettings(t)
  \/ WriteFails(t)

SettingsTypeOK ==
  /\ settings \in Settings
  /\ wanted \in Settings
  /\ registered \in BOOLEAN
  /\ lost \subseteq Fields
  /\ unsure \in BOOLEAN

\* What a command stored stays until a command about the same field stores
\* something else, except when it is overwritten by a command that read the
\* document before: a pause, the page, the login switch and the time zone
\* leave each other alone when they do not overlap.
LostOnlyToOverlap == \A f \in Fields \ lost : settings[f] = wanted[f]

\* The operating system starts the application at login exactly when the
\* settings say so, while no save is between the two, unless a save failed
\* or was overtaken after it had registered the switch.
AutostartFollows ==
  \/ registered = settings.autostart
  \/ unsure
  \/ \E t \in Threads : job[t].step = "read" /\ job[t].doc.autostart = registered

(***************************************************************************)
(* The inductive invariant.                                                *)
(***************************************************************************)
\* A command with a document in hand.
DocumentJobs ==
  [step: {"read", "registering"}, kind: {"save", "pause", "report"}, doc: Settings,
   missed: SUBSET Fields]

\* A document in hand differs from the stored one in what its command is about, in
\* what was stored since, and in what an older document has overwritten.
DocumentsAgree ==
  \A t \in Threads : Holding(t) =>
    \A f \in Fields \ (Owned(job[t].kind) \cup job[t].missed \cup lost) :
      job[t].doc[f] = settings[f]

\* While the login switch is as stored, a save past its registration has found or
\* made it as in its document, unless another save has come between.
SavesRegistered ==
  \/ unsure
  \/ /\ "autostart" \notin lost
     /\ registered = settings.autostart =>
          \A t \in Threads :
            job[t].step = "read" /\ job[t].kind = "save" /\ "autostart" \notin job[t].missed
              => job[t].doc.autostart = registered

SettingsInv ==
  /\ SettingsTypeOK
  /\ DocumentsAgree /\ LostOnlyToOverlap
  /\ SavesRegistered /\ AutostartFollows
=============================================================================
