---------------------------- MODULE EventRecord ----------------------------
(***************************************************************************)
(* What is kept of a hook's input (events/normalize.rs, pipeline.rs): the  *)
(* capture, the event the pipeline stores when the application runs, the   *)
(* safe event the helper leaves behind when it does not, and the event a   *)
(* later start makes of that.  A hook is as in Message, with its phase and *)
(* the name of the field its matcher is about.                             *)
(***************************************************************************)
EXTENDS Message

CONSTANTS
  Absent,
  Strings, Scalars,   \* values: texts; texts, numbers, Booleans and null
  Match(_, _),        \* directory, projects -> the project it belongs to, or Absent
  Leaf(_),            \* directory -> its last segment
  Reference(_, _, _), \* key, domain, value -> HMAC
  Digest(_),          \* capture -> event id
  Sealed(_)           \* sensitive fields -> ciphertext

(***************************************************************************)
(* capture_hook_json: the catalog decides what is taken over, and where.   *)
(***************************************************************************)
Headers == {"model", "permission_mode", "hook_event_name"}
Correlated == {"cwd", "session_id", "turn_id"}

IsSensitive(hook, n) ==
  \E i \in DOMAIN hook.inputs : hook.inputs[i].name = n /\ hook.inputs[i].sensitivity = "sensitive"

TextOf(raw, n) == IF n \in DOMAIN raw /\ raw[n] \in Strings THEN raw[n] ELSE Absent
Header(raw, hook, n) == IF IsPublic(hook, n) THEN TextOf(raw, n) ELSE Absent
Hidden(raw, hook, n) == IF IsSensitive(hook, n) THEN TextOf(raw, n) ELSE Absent

PublicFields(raw, hook) ==
  {n \in DOMAIN raw : IsPublic(hook, n) /\ n \notin Headers /\ raw[n] \in Scalars}

\* The matcher's field is the subtype of an event that names none.
HasSubtype(raw, hook) ==
  LET names == PublicFields(raw, hook)
  IN "event_subtype" \in names \/ (hook.matcher \in names /\ raw[hook.matcher] \in Strings)

Public(raw, hook) ==
  LET names == PublicFields(raw, hook)
      added == {"status"} \cup (IF HasSubtype(raw, hook) THEN {"event_subtype"} ELSE {})
  IN [n \in names \cup added |->
        IF n \in names THEN raw[n] ELSE IF n = "status" THEN hook.phase ELSE raw[hook.matcher]]

Captured(raw, hook) ==
  [model |-> Header(raw, hook, "model"), mode |-> Header(raw, hook, "permission_mode"),
   cwd |-> Hidden(raw, hook, "cwd"), session |-> Hidden(raw, hook, "session_id"),
   turn |-> Hidden(raw, hook, "turn_id"), public |-> Public(raw, hook),
   sensitive |-> [n \in {n \in DOMAIN raw : IsSensitive(hook, n) /\ n \notin Correlated} |-> raw[n]]]

(***************************************************************************)
(* Normalisation.  The helper may be without a key and looks the project   *)
(* up in the cached file; the application has both in memory.              *)
(***************************************************************************)
Referred(key, domain, value) ==
  IF key = Absent \/ value = Absent THEN Absent ELSE Reference(key, domain, value)

Belongs(cwd, projects) == cwd # Absent /\ Match(cwd, projects) # Absent

\* project_fields: a known project by its name, any other directory by its last segment.
Place(cwd, projects, key) ==
  IF Belongs(cwd, projects)
  THEN [project |-> Match(cwd, projects).id, name |-> Match(cwd, projects).name, directory |-> Absent]
  ELSE [project |-> Absent, name |-> IF cwd = Absent THEN Absent ELSE Leaf(cwd),
        directory |-> Referred(key, "cwd", cwd)]

RedactedValue(v) == IF v \in Strings THEN Redact(<<v>>)[1] ELSE v
RedactedFields(public) == [n \in DOMAIN public |-> RedactedValue(public[n])]

\* normalize_event, as process_live stores it.
Live(c, projects, key) ==
  [id |-> Digest(c), place |-> Place(c.cwd, projects, key),
   session |-> Referred(key, "session", c.session), turn |-> Referred(key, "turn", c.turn),
   model |-> c.model, mode |-> c.mode, public |-> RedactedFields(c.public),
   sealed |-> IF DOMAIN c.sensitive = {} THEN Absent ELSE Sealed(c.sensitive)]

\* normalize_safe_ingress, as the helper writes it into a row or a file.
Safe(c, projects, key) ==
  [id |-> Digest(c), place |-> Place(c.cwd, projects, key),
   session |-> Referred(key, "session", c.session), turn |-> Referred(key, "turn", c.turn),
   public |-> c.public]

\* process_safe_ingress_with; existing are the projects still there.
Recovered(safe, existing) ==
  [id |-> safe.id,
   place |-> IF safe.place.project \in existing THEN safe.place
             ELSE [safe.place EXCEPT !.project = Absent],
   session |-> safe.session, turn |-> safe.turn,
   model |-> Absent, mode |-> Absent, public |-> RedactedFields(safe.public), sealed |-> Absent]

\* Everything an event holds that is not encrypted; Absent is nothing.
Clear(event) ==
  ({event.place.name, event.place.directory, event.session, event.turn, event.model, event.mode}
     \cup {event.public[n] : n \in DOMAIN event.public}) \ {Absent}
=============================================================================
