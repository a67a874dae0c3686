------------------------------ MODULE Message ------------------------------
(***************************************************************************)
(* What a notification says: from an event and a rule to the document put  *)
(* into the queue, one for all targets of the rule, and from a document to *)
(* the text a platform receives.  Text is a sequence of characters, some   *)
(* of them Empty where a part has nothing to say; a value of a field is    *)
(* one character or Empty.  Escaping and layout are left out.              *)
(***************************************************************************)
EXTENDS Naturals, Sequences

CONSTANTS
  Char,            \* the characters of texts, Empty and Mark among them
  Empty,
  Mark,            \* what a redacted part is replaced by
  Space,           \* white characters
  MaxTemplate,     \* length of the longest template accepted
  Mandatory(_),    \* text -> positions the built-in patterns match
  Custom(_)        \* text -> positions the rule's own patterns match

Text == Seq(Char)
IsEmpty(text) == \A i \in DOMAIN text : text[i] = Empty

(***************************************************************************)
(* Redaction and truncation.                                               *)
(***************************************************************************)
Replaced(text, positions) == [i \in DOMAIN text |-> IF i \in positions THEN Mark ELSE text[i]]

\* The rule's patterns see what the built-in ones have left.
Redact(text) ==
  LET hidden == Replaced(text, Mandatory(text)) IN Replaced(hidden, Custom(hidden))

Cut(text, limit) == [i \in DOMAIN text |-> IF i <= limit THEN text[i] ELSE Empty]

(***************************************************************************)
(* The context of a template: which fields it may name, and their values.  *)
(* An event has values for the base fields and its public fields, decoded  *)
(* from the row just stored; a hook of the catalog has labels and a list   *)
(* of input fields with their sensitivity.                                 *)
(***************************************************************************)
BaseFields ==
  {"agent.name", "agent.version", "project.name", "event.name", "event.severity", "event.occurred_at"}
Labels == {"event.label", "event.status"}
Inputs == {"event.duration", "event.tool_name"}
InputName == [p \in Inputs |-> IF p = "event.duration" THEN "duration" ELSE "tool_name"]
Fields == BaseFields \cup Labels \cup Inputs \cup {"event.summary"}

SummaryInputs == {"summary", "last_assistant_message", "error"}

IsPublic(hook, name) ==
  \E i \in DOMAIN hook.inputs : hook.inputs[i].name = name /\ hook.inputs[i].sensitivity = "public"

SummarySources(hook, allowed) ==
  {i \in DOMAIN hook.inputs :
     /\ hook.inputs[i].name \in SummaryInputs
     /\ hook.inputs[i].sensitivity # "forbidden"
     /\ {hook.inputs[i].name, "summary", "event.summary"} \cap allowed # {}}

\* The first one the catalog lists.
IsSummarySource(i, hook, allowed) ==
  /\ i \in SummarySources(hook, allowed)
  /\ \A j \in SummarySources(hook, allowed) : i <= j
SummarySource(hook, allowed) ==
  hook.inputs[CHOOSE i \in DOMAIN hook.inputs : IsSummarySource(i, hook, allowed)]

Authorized(hook, allowed) ==
  BaseFields
    \cup (IF hook.known THEN Labels \cup {p \in Inputs : IsPublic(hook, InputName[p])} ELSE {})
    \cup (IF hook.known /\ SummarySources(hook, allowed) # {} THEN {"event.summary"} ELSE {})

InputOf(hook, allowed, path) ==
  IF path = "event.summary" THEN SummarySource(hook, allowed).name ELSE InputName[path]

Readable(hook, allowed, path) ==
  \/ path \in Inputs /\ IsPublic(hook, InputName[path])
  \/ /\ path = "event.summary"
     /\ \E i \in DOMAIN hook.inputs :
          IsSummarySource(i, hook, allowed) /\ hook.inputs[i].sensitivity = "public"

Value(event, hook, allowed, path) ==
  IF path \in BaseFields THEN event.base[path]
  ELSE IF hook.known /\ path \in Labels THEN hook.labels[path]
  ELSE IF hook.known /\ Readable(hook, allowed, path) THEN event.public[InputOf(hook, allowed, path)]
  ELSE Empty

(***************************************************************************)
(* Templates: literal characters, fields, and braces out of place.         *)
(***************************************************************************)
Valid(template, hook, allowed) ==
  /\ Len(template) <= MaxTemplate
  /\ \A i \in DOMAIN template :
       \/ template[i].kind = "literal"
       \/ template[i].kind = "field" /\ template[i].path \in Authorized(hook, allowed)

Rendered(template, event, hook, allowed) ==
  [i \in DOMAIN template |->
     IF template[i].kind = "literal" THEN template[i].char
     ELSE Value(event, hook, allowed, template[i].path)]

IsBlank(template) ==
  \A i \in DOMAIN template : template[i].kind = "literal" /\ template[i].char \in Space

\* The first target's own template, or else the one of the settings; <<>> stands
\* for none.
Chosen(targets, global) ==
  IF targets # <<>> /\ ~IsBlank(targets[1].template) THEN targets[1].template ELSE global

(***************************************************************************)
(* Documents.                                                              *)
(***************************************************************************)
FactNames == {"Agent", "Project", "Hook", "Status", "Time"}
NoFacts == [n \in FactNames |-> <<>>]

FactFields ==
  [Agent |-> <<"agent.name", "agent.version">>, Project |-> <<"project.name">>,
   Hook |-> <<"event.name">>, Status |-> <<"event.status">>, Time |-> <<"event.occurred_at">>]

Facts(event, hook, allowed) ==
  [n \in FactNames |->
     Redact([i \in DOMAIN FactFields[n] |-> Value(event, hook, allowed, FactFields[n][i])])]

Title(event, hook, allowed) ==
  LET label == Value(event, hook, allowed, "event.label") IN
  Redact(<<IF label = Empty THEN Value(event, hook, allowed, "event.name") ELSE label>>)

\* max is the rule's max_body_chars; 0 asks for the facts alone.
DocumentOf(text, event, hook, allowed, max) ==
  [title |-> Title(event, hook, allowed), facts |-> Facts(event, hook, allowed),
   body |-> Cut(Redact(text), max)]

Canonical(event, hook, allowed, max) ==
  DocumentOf(<<Value(event, hook, allowed, "event.summary")>>, event, hook, allowed, max)

\* A template that cannot be rendered does not keep the notification from being sent;
\* one that says something speaks for the facts.
Document(event, hook, allowed, max, targets, global) ==
  LET template == Chosen(targets, global)
      document == IF ~IsBlank(template) /\ Valid(template, hook, allowed)
                  THEN DocumentOf(Rendered(template, event, hook, allowed), event, hook, allowed, max)
                  ELSE Canonical(event, hook, allowed, max)
  IN IF IsBlank(template) \/ IsEmpty(document.body) THEN document
     ELSE [document EXCEPT !.facts = NoFacts]

\* An aggregate's bucket is one per channel.
Jobs(event, hook, allowed, max, targets, global, bucket) ==
  {[channel |-> targets[i].channel, bucket |-> <<bucket, targets[i].channel>>,
    document |-> Document(event, hook, allowed, max, targets, global)] : i \in DOMAIN targets}

(***************************************************************************)
(* What the platform receives.  DingTalk's keyword comes first, whatever   *)
(* is cut off at the end.                                                  *)
(***************************************************************************)
Written(document) ==
  document.title \o document.facts["Agent"] \o document.facts["Project"] \o document.facts["Hook"]
    \o document.facts["Status"] \o document.facts["Time"] \o document.body

Content(keyword, document, limit) == Cut(keyword \o Written(document), limit)
=============================================================================
