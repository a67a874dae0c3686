----------------------------- MODULE HookFile ------------------------------
(***************************************************************************)
(* The patch of an agent's configuration file. The file belongs to the     *)
(* user: the program may take out its own handlers and put in one for each *)
(* event it wants, and it does so by splicing the text at positions the    *)
(* syntax tree gives, never by printing the tree. A text is a sequence of  *)
(* tokens here: brackets, commas, comments and elements; an element of an  *)
(* event's array is a matcher group, which holds an array of handlers.     *)
(* Braces and brackets are one kind of token. Of the white space only the  *)
(* line ends are kept, and those of the comments that begin with //.       *)
(***************************************************************************)
EXTENDS CommandLine, SequencesExt, FiniteSets, FiniteSetsExt

CONSTANTS
  EventOrder,    \* the events in the order of their names
  Blank,         \* the empty matcher
  Helpers,       \* deployed helpers: a path, and the quoting of the build
  UserCommands,  \* commands of the user's
  Starts,        \* the files and helpers there are at the start
  Junk,          \* what stands where an array or an object is expected and is none
  Scalar,        \* a file whose value is no object
  Absent

VARIABLES
  helper,    \* the helper the program deploys
  document,  \* the value of `hooks`: a text of properties, Junk or Absent; or Scalar
  outcome    \* what the last patch made of the file: "none", "patched", "refused"

fileVars == <<helper, document, outcome>>

\* Of a handler only its command matters.
Handler(command) == [command |-> command]
Written == {[helper |-> p, event |-> e, command |-> CanonicalCommand(p, e)] : p \in Helpers, e \in HookEvents}
Read == {[command |-> c, owner |-> Recognised(c)] : c \in {w.command : w \in Written} \cup UserCommands}
Canonical(event) == Handler((CHOOSE w \in Written : w.helper = helper /\ w.event = event).command)
Owner(handler) == (CHOOSE r \in Read : r.command = handler.command).owner

(***************************************************************************)
(* Texts.                                                                  *)
(***************************************************************************)
Open  == [mark |-> "open"]
Close == [mark |-> "close"]
Comma == [mark |-> "comma"]
Note  == [mark |-> "comment"]        \* one that says where it ends
Slashes == [mark |-> "slashes"]      \* one that runs on to the next line end
Break == [mark |-> "line end"]
CommaBreak == [mark |-> "comma and line end"]   \* the comma is the last character of the comment
LineEnds == {Break, CommaBreak}
Trivia == {Note, Slashes} \cup LineEnds
Punctuation == {Open, Close, Comma} \cup Trivia

ElementAt(text) == {i \in 1..Len(text) : text[i] \notin Punctuation}
Elements(text) == SelectSeq(text, LAMBDA x : x \notin Punctuation)

Listed(elements) ==
  [i \in 1..(2 * Len(elements) - 1) |-> IF i % 2 = 1 THEN elements[(i + 1) \div 2] ELSE Comma]
Bare(elements) == <<Open>> \o Listed(elements) \o <<Close>>

\* What the parser takes: a bracket at the end, and a comma only after an element.
\* It does not insist on the commas between elements.
Parses(text) ==
  /\ text[Len(text)] = Close
  /\ \A c \in 1..Len(text) : text[c] = Comma =>
       \E i \in ElementAt(text) : i < c /\ \A k \in (i + 1)..(c - 1) : text[k] \in Trivia

\* What every other reader insists on.
Apart(text) ==
  \A i, j \in ElementAt(text) : i < j => \E c \in i..j : text[c] = Comma
Separated(text) == Parses(text) /\ Apart(text)

\* A text with other elements at the places of its own.
Overlay(text, new) == [i \in 1..Len(text) |-> IF i \in ElementAt(text) THEN new[i] ELSE text[i]]

\* An edit replaces the tokens after position `from` up to position `to`.
Edit(from, to, with) == [from |-> from, to |-> to, with |-> with]

\* apply_edits: in the order of the positions, refused when two overlap. No two
\* edits of a plan put text of their own at one position.
Precedes(x, y) == x.from < y.from \/ (x.from = y.from /\ x.to < y.to)
Overlapping(edits) == \E x, y \in edits : Precedes(x, y) /\ y.from < x.to

Kept(edits, i) == \A e \in edits : ~ (e.from < i /\ i <= e.to)
Inserted(edits, i) ==
  LET here == {e \in edits : e.from = i /\ e.with # <<>>}
  IN IF here = {} THEN <<>> ELSE (CHOOSE e \in here : TRUE).with
Spliced(text, edits) ==
  Joined([i \in DOMAIN text |->
            (IF Kept(edits, i) THEN <<text[i]>> ELSE <<>>) \o Inserted(edits, i)])

\* A comment without a line end of its own takes what follows it on its line.
CommentedOut(text) ==
  {i \in 1..Len(text) : \E c \in 1..(i - 1) :
     text[c] = Slashes /\ \A k \in (c + 1)..i : text[k] \notin LineEnds}

\* The text as it is read again; blank lines are left out.
AsRead(text, out, i) ==
  IF i \in out \/ (text[i] = Break /\ text[i - 1] \in LineEnds) THEN <<>>
  ELSE IF text[i] = Break /\ text[i - 1] = Comma /\ i - 1 \in out THEN <<CommaBreak>>
  ELSE <<text[i]>>
Lexed(text) ==
  LET out == CommentedOut(text) IN Joined([i \in DOMAIN text |-> AsRead(text, out, i)])

(***************************************************************************)
(* Deletion of elements with the commas they need no longer.               *)
(***************************************************************************)
\* The last of the run of doomed elements that begins at i.
RunEnd(text, doomed, i) ==
  Max({j \in doomed : j >= i /\ \A k \in ElementAt(text) : i <= k /\ k <= j => k \in doomed})

RunStarts(text, doomed) ==
  {i \in doomed : LET before == {k \in ElementAt(text) : k < i}
                  IN before = {} \/ Max(before) \notin doomed}

\* The bytes next to an element, but for white space: a comma of the text, or before
\* it the last one of a comment. No text has two of them there.
CommaAfter(text, i) ==
  {c \in (i + 1)..Len(text) : text[c] = Comma /\ \A k \in (i + 1)..(c - 1) : text[k] = Break}
CommaBefore(text, i) ==
  {c \in 1..(i - 1) : text[c] \in {Comma, CommaBreak} /\ \A k \in (c + 1)..(i - 1) : text[k] = Break}

\* The comma after the run, or else the one before it, with what is between.
Deletion(text, first, last) ==
  IF CommaAfter(text, last) # {} THEN Edit(first - 1, Max(CommaAfter(text, last)), <<>>)
  ELSE IF CommaBefore(text, first) # {} THEN Edit(Min(CommaBefore(text, first)) - 1, last, <<>>)
  ELSE Edit(first - 1, last, <<>>)

DeleteEach(text, doomed) ==   \* a mutant of DeleteRuns: one deletion for each element
  {Deletion(text, i, i) : i \in doomed}
DeleteRuns(text, doomed) ==
  {Deletion(text, i, RunEnd(text, doomed, i)) : i \in RunStarts(text, doomed)}

(***************************************************************************)
(* plan_event: the edits of one event's array.                             *)
(***************************************************************************)
HasHandlers(group) == group # Junk /\ group.handlers # Junk
OwnedIn(event, group) ==
  IF HasHandlers(group)
  THEN {i \in ElementAt(group.handlers) : Owner(group.handlers[i]) = event} ELSE {}
AllOwned(event, group) ==
  OwnedIn(event, group) # {} /\ OwnedIn(event, group) = ElementAt(group.handlers)

OwnGroup(event) == [matcher |-> Blank, handlers |-> Bare(<<Canonical(event)>>)]

\* The first group with the matcher the program uses: its handler goes there.
TargetGroup(array, wanted) ==
  LET fit == {i \in ElementAt(array) : HasHandlers(array[i]) /\ array[i].matcher = Blank}
  IN IF wanted /\ fit # {} THEN Min(fit) ELSE 0

\* place_handler_in_group: on a line of its own behind the last handler that stays.
Placement(event, group) ==
  LET stay == ElementAt(group.handlers) \ OwnedIn(event, group)
  IN IF stay = {} THEN Edit(1, 1, <<Canonical(event)>>)
     ELSE Edit(Max(stay), Max(stay), <<Comma, Break, Canonical(event)>>)

HandlerEditsOverOthers(event, group, isTarget) ==   \* a mutant of HandlerEdits: the target's are one run
  LET own == OwnedIn(event, group) IN
  IF isTarget /\ own # {}
  THEN {Edit(Min(own) - 1, Max(own), <<Canonical(event)>>)}
  ELSE DeleteRuns(group.handlers, own) \cup (IF isTarget THEN {Placement(event, group)} ELSE {})
HandlerEdits(event, group, isTarget) ==
  LET own == OwnedIn(event, group) IN
  IF isTarget /\ AllOwned(event, group)
  THEN {Edit(Min(own) - 1, Max(own), <<Canonical(event)>>)}
  ELSE DeleteRuns(group.handlers, own) \cup (IF isTarget THEN {Placement(event, group)} ELSE {})

\* Groups that only held handlers of the program's go, but for the target.
Emptied(event, array, wanted) ==
  {i \in ElementAt(array) : AllOwned(event, array[i]) /\ i # TargetGroup(array, wanted)}

\* A group of its own for a handler that found none.
NewGroup(event, array, wanted) ==
  IF ~wanted \/ TargetGroup(array, wanted) # 0 THEN {}
  ELSE IF Emptied(event, array, wanted) = ElementAt(array)
       THEN {Edit(1, 1, <<OwnGroup(event)>>)}
       ELSE LET last == Max(ElementAt(array)) IN {Edit(last, last, <<Comma, Break, OwnGroup(event)>>)}

GroupEdits(event, array, wanted) ==
  DeleteRuns(array, Emptied(event, array, wanted)) \cup NewGroup(event, array, wanted)

EditedGroup(event, array, wanted, i) ==
  IF ~HasHandlers(array[i]) \/ i \in Emptied(event, array, wanted)
  THEN array[i]
  ELSE [array[i] EXCEPT !.handlers =
          Lexed(Spliced(@, HandlerEdits(event, array[i], i = TargetGroup(array, wanted))))]

SplicedArray(event, array, wanted) ==
  Spliced(Overlay(array, [i \in ElementAt(array) |-> EditedGroup(event, array, wanted, i)]),
          GroupEdits(event, array, wanted))
Planned(event, array, wanted) == Lexed(SplicedArray(event, array, wanted))

\* A comment takes the first line of a group that has more: the rest does not parse.
CutsGroup(array) ==
  \E i \in ElementAt(array) \cap CommentedOut(array) :
    HasHandlers(array[i]) /\ Range(array[i].handlers) \cap LineEnds # {}

Clashes(event, array, wanted) ==
  \/ Overlapping(GroupEdits(event, array, wanted))
  \/ \E i \in ElementAt(array) \ Emptied(event, array, wanted) :
       HasHandlers(array[i]) /\
         Overlapping(HandlerEdits(event, array[i], i = TargetGroup(array, wanted)))

(***************************************************************************)
(* build: all the events of the file.                                      *)
(***************************************************************************)
Property(event, value) == [event |-> event, value |-> value]
FreshProperties(wanted) ==
  Joined([i \in DOMAIN EventOrder |->
            LET e == EventOrder[i] IN
            IF e \in wanted THEN <<Property(e, Bare(<<OwnGroup(e)>>))>> ELSE <<>>])

Named(text) == {text[i].event : i \in ElementAt(text)}

NewPropertiesAfterComma(text, wanted) ==   \* a mutant of NewProperties: a trailing comma serves
  LET fresh == FreshProperties(wanted \ Named(text))
      last  == ElementAt(text)
  IN IF fresh = <<>> THEN {}
     ELSE IF last = {} THEN {Edit(1, 1, Listed(fresh))}
     ELSE {Edit(Max(last), Max(last),
                IF text[Max(last) + 1] = Comma THEN Listed(fresh) ELSE <<Comma>> \o Listed(fresh))}
\* Events without a property get theirs behind the last one.
NewProperties(text, wanted) ==
  LET fresh == FreshProperties(wanted \ Named(text))
      last  == ElementAt(text)
  IN IF fresh = <<>> THEN {}
     ELSE IF last = {} THEN {Edit(1, 1, Listed(fresh))}
     ELSE {Edit(Max(last), Max(last), <<Comma>> \o Listed(fresh))}

PatchedProperty(property, wanted) ==
  IF property.value = Junk THEN property
  ELSE [property EXCEPT !.value = Planned(property.event, @, property.event \in wanted)]

\* A file that is no object is written anew, and its text is gone.
PatchedText(text, wanted) ==
  IF text = Scalar /\ wanted = {} THEN Absent
  ELSE IF text \in {Absent, Scalar} THEN Bare(FreshProperties(wanted))
  ELSE Spliced(Overlay(text, [i \in ElementAt(text) |-> PatchedProperty(text[i], wanted)]),
               NewProperties(text, wanted))

Invalid(text) ==
  \/ ~Parses(text)
  \/ \E i \in ElementAt(text) : text[i].value # Junk /\
       \/ ~Parses(text[i].value)
       \/ \E g \in ElementAt(text[i].value) :
            HasHandlers(text[i].value[g]) /\ ~Parses(text[i].value[g].handlers)

\* What is refused: `hooks` or a wanted event that is not what it should be,
\* edits that overlap, and a result that does not parse.
RefusedPatch(wanted) ==
  IF document = Junk THEN TRUE
  ELSE IF document \in {Absent, Scalar} THEN FALSE
  ELSE \/ \E i \in ElementAt(document) : document[i].event \in wanted /\ document[i].value = Junk
       \/ \E i \in ElementAt(document) : document[i].value # Junk /\
            LET event == document[i].event IN
            \/ Clashes(event, document[i].value, event \in wanted)
            \/ CutsGroup(SplicedArray(event, document[i].value, event \in wanted))
       \/ Invalid(PatchedText(document, wanted))

FileInit == \E s \in Starts : helper = s.helper /\ document = s.document /\ outcome = "none"

Patch(wanted) ==
  /\ ~RefusedPatch(wanted)
  /\ document' = PatchedText(document, wanted)
  /\ outcome' = "patched"
  /\ UNCHANGED helper

RefusePatch(wanted) ==
  /\ RefusedPatch(wanted)
  /\ outcome' = "refused"
  /\ UNCHANGED <<helper, document>>

FileNext == \E wanted \in SUBSET HookEvents : Patch(wanted) \/ RefusePatch(wanted)

FileSpec == FileInit /\ [][FileNext]_fileVars

(***************************************************************************)
(* The shape of a file: where a text stands, and what its elements are.    *)
(***************************************************************************)
Framed(text) ==
  /\ text \in Seq(Range(text)) /\ Len(text) > 1
  /\ text[1] = Open /\ text[Len(text)] = Close
  /\ \A i \in 2..(Len(text) - 1) : text[i] \notin {Open, Close}

\* A comment that begins with // ends with its line.
Lined(text) ==
  \A i \in 1..Len(text) : /\ text[i] = Slashes => text[i + 1] \in LineEnds
                          /\ text[i] = CommaBreak => text[i - 1] = Slashes

GroupShape(group) ==
  HasHandlers(group) =>
    /\ group = [matcher |-> group.matcher, handlers |-> group.handlers]
    /\ Framed(group.handlers) /\ Lined(group.handlers)
ArrayShape(array) ==
  array # Junk => Framed(array) /\ Lined(array) /\ \A i \in ElementAt(array) : GroupShape(array[i])
NoText == {Junk, Scalar, Absent}
FileShape(text) ==
  text \notin NoText =>
    Framed(text) /\ \A i \in ElementAt(text) :
      text[i] = Property(text[i].event, text[i].value) /\ ArrayShape(text[i].value)

(***************************************************************************)
(* Properties.                                                             *)
(***************************************************************************)
\* inspect_owned_entries: the program's handlers, where they stand.
Inspected(text) ==
  IF text \in NoText THEN {}
  ELSE UNION {LET array == text[p].value IN
              IF array = Junk THEN {}
              ELSE UNION {{<<text[p].event, g, h>> : h \in OwnedIn(text[p].event, array[g])} :
                          g \in ElementAt(array)} : p \in ElementAt(text)}

\* The user's part of an array: what is left without the program's handlers, and
\* without the groups that hold nothing else or nothing at all.
Foreign(event, array) ==
  LET Stays(group) ==
        HasHandlers(group) => OwnedIn(event, group) # ElementAt(group.handlers)
      Others(group) ==
        IF ~HasHandlers(group) THEN group
        ELSE [group EXCEPT !.handlers = SelectSeq(Elements(@), LAMBDA h : Owner(h) # event)]
      left == SelectSeq(Elements(array), Stays)
  IN [i \in 1..Len(left) |-> Others(left[i])]

ForeignOf(text) ==
  IF text = Scalar THEN <<Scalar>>
  ELSE IF text \in NoText THEN <<>>
  ELSE LET mine(p) == p.value # Junk /\ Foreign(p.event, p.value) = <<>>
           left == SelectSeq(Elements(text), LAMBDA p : ~mine(p))
       IN [i \in 1..Len(left) |->
             Property(left[i].event,
                      IF left[i].value = Junk THEN Junk ELSE Foreign(left[i].event, left[i].value))]

\* A run of doomed elements whose deletion takes the end of the comment before it,
\* while another element stands behind the run on its line.
RunsOver(text, doomed) ==
  \E first \in RunStarts(text, doomed) :
    LET last == RunEnd(text, doomed, first) IN
    /\ CommaAfter(text, last) = {} /\ \E c \in CommaBefore(text, first) : text[c] = CommaBreak
    /\ \E j \in ElementAt(text) : j > last /\ \A k \in last..j : text[k] \notin LineEnds

\* Where a patch comments out a group of the event's, or a handler.
RunsOverGroups(event, array, wanted) == RunsOver(array, Emptied(event, array, wanted))
RunsOverHandlers(event, array, wanted) ==
  \E g \in ElementAt(array) \ Emptied(event, array, wanted) :
    HasHandlers(array[g]) /\ RunsOver(array[g].handlers, OwnedIn(event, array[g]))
Somewhere(Happens(_, _, _), text, wanted) ==
  text \notin NoText /\ \E i \in ElementAt(text) :
    text[i].value # Junk /\ Happens(text[i].event, text[i].value, text[i].event \in wanted)

\* A patch leaves every handler, group and event of the user's where it was and in
\* its order, whatever stands between them, over any sequence of patches: but for a
\* file that is no object, and for what follows on its line a handler or group that
\* is deleted together with the end of the comment before it.
ForeignUntouched ==
  [][\/ ForeignOf(document') = ForeignOf(document)
     \/ document = Scalar
     \/ \E wanted \in SUBSET HookEvents :
          /\ Somewhere(RunsOverGroups, document, wanted) \/ Somewhere(RunsOverHandlers, document, wanted)
          /\ Patch(wanted)]_fileVars

\* As the manual and plan_event's comment have it, with neither exception: the code
\* breaks it (checked apart from the run of this module).
ForeignAlwaysUntouched == [][ForeignOf(document') = ForeignOf(document)]_fileVars

\* A text, and a file, without its line ends.
Unbroken(text) == SelectSeq(text, LAMBDA x : x # Break)
UnbrokenFile(text) ==
  LET Group(group) == IF HasHandlers(group) THEN [group EXCEPT !.handlers = Unbroken(@)] ELSE group
      Array(array) == Unbroken(Overlay(array, [i \in ElementAt(array) |-> Group(array[i])]))
  IN IF text \in NoText THEN text
     ELSE Overlay(text, [i \in ElementAt(text) |->
            [text[i] EXCEPT !.value = IF @ = Junk THEN Junk ELSE Array(@)]])

\* A patched file has one handler of the program's for each wanted event and no
\* other, as written today, whatever older ones there were; and patching it
\* again for the same events changes line ends at most: unless it is a group that a
\* patch comments out, or for the second patch a handler; or the file had no
\* `hooks` and was given none.
HandlesExactly(text, wanted) == {x[1] : x \in Inspected(text)} = wanted
ChangesLineEndsOnly(text, wanted) ==
  \A again \in {PatchedText(text, wanted)} : UnbrokenFile(again) = UnbrokenFile(text)
ExactlyWanted ==
  [][\A wanted \in SUBSET HookEvents : Patch(wanted) /\ ~Somewhere(RunsOverGroups, document, wanted) =>
       /\ HandlesExactly(document', wanted)
       /\ Cardinality(Inspected(document')) = Cardinality(wanted)
       /\ \/ document' = Absent \/ Somewhere(RunsOverHandlers, document, wanted)
          \/ \A patched \in {document'} : ChangesLineEndsOnly(patched, wanted)]_fileVars

AllTexts(text) ==
  IF text \in NoText THEN {}
  ELSE {text} \cup UNION {LET array == text[p].value IN
         IF array = Junk THEN {}
         ELSE {array} \cup {array[g].handlers : g \in {k \in ElementAt(array) : HasHandlers(array[k])}} :
           p \in ElementAt(text)}

\* A file in which every two elements are separated stays one: the validation
\* after a patch would not notice a missing comma.
SeparatedFile(text) == \A t \in AllTexts(text) : Separated(t)
StaysSeparated == SeparatedFile(document)

ASSUME HookFileAssumption ==
  /\ EventOrder \in Seq(HookEvents) /\ HookEvents \subseteq Range(EventOrder)
  /\ \A p \in Helpers : /\ p \in [path : Seq(Range(p.path)), windows : BOOLEAN]
                        /\ p.windows => Quotable(p.path)
  /\ Junk \notin Punctuation
  /\ \A s \in Starts : s.helper \in Helpers /\ FileShape(s.document) /\ SeparatedFile(s.document)

Plain(text) ==
  \A t \in AllTexts(text) : \A i \in DOMAIN Unbroken(t) :
    /\ Unbroken(t)[i] \notin Trivia
    /\ Unbroken(t)[i] = Comma => Unbroken(t)[i + 1] \notin Punctuation

\* Strict JSON can always be patched, and stays strict JSON.
StrictStaysStrict ==
  [][Plain(document) /\ document # Junk => Plain(document') /\ (outcome' = "refused" =>
       \E i \in ElementAt(document) : document[i].value = Junk)]_fileVars
=============================================================================
