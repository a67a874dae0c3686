---------------------------- MODULE MCHookFile -----------------------------
(* Two events. Texts of up to three elements, with a trailing comma, or a     *)
(* comment at any place, in one of a file's texts; and some in which a        *)
(* comment ends in a comma, with the places of another one and of a line end. *)
EXTENDS HookFile, TLC

CONSTANTS NoMatcher

MCEventOrder == <<"PreToolUse", "Stop">>

\* Today's helper, the one an earlier version deployed, and others: paths with
\* a space, a quote, backslashes, quoted for either kind of shell.
Helper(path, windows) == [path |-> path, windows |-> windows]
Today == Helper(<<"/helper">>, FALSE)
Before == Helper(<<"/old helper">>, TRUE)
PosixPaths == {<<"/my", Space, "helper">>, <<"/it", Quote, "s">>, <<"/a", Backslash, DoubleQuote>>,
               <<Quote, Quote, Backslash>>, <<DoubleQuote, "/b">>}
WindowsPaths == {<<"C:", Backslash, "my", Space, "helper">>, <<Backslash, Backslash, "host", Quote>>,
                 <<"C:", Backslash>>}
MCHelpers == {Today, Before} \cup {Helper(p, FALSE) : p \in PosixPaths}
                            \cup {Helper(p, TRUE) : p \in WindowsPaths}

Stop == "Stop"
MCUserCommands ==
  {<<Backslash, "npm", Space, Quote, "run", Space, Backslash>>,
   SubSeq(CanonicalCommand(Today, Stop), 1, Len(CanonicalCommand(Today, Stop)) - 4)}

old == Handler(CanonicalCommand(Before, Stop))
now == Handler(CanonicalCommand(Today, Stop))
stray == Handler(CanonicalCommand(Today, "PreToolUse"))
foreign == Handler(CHOOSE c \in MCUserCommands : Len(c) < 9)
almost == Handler(CHOOSE c \in MCUserCommands : Len(c) > 9)

Upto(n, S) == UNION {[1..k -> S] : k \in 0..n}
InsertedAfter(text, i, token) == SubSeq(text, 1, i) \o <<token>> \o SubSeq(text, i + 1, Len(text))
Commented(text) == {InsertedAfter(text, i, Note) : i \in 1..(Len(text) - 1)}
Trailing(text) == IF ElementAt(text) = {} THEN {} ELSE {InsertedAfter(text, Len(text) - 1, Comma)}
Irregular(text) == Commented(text) \cup Trailing(text)

\* With a comment that ends in a comma at some place, and a line end or another
\* comment, or both, at others.
Remark == <<Slashes, CommaBreak>>
Remarked(text) ==
  LET Put(t, i, tokens) == SubSeq(t, 1, i) \o tokens \o SubSeq(t, i + 1, Len(t))
      also == {text} \cup Commented(text)
      lines == also \cup UNION {{InsertedAfter(t, i, Break) : i \in 1..(Len(t) - 1)} : t \in also}
  IN  UNION {{Put(t, i, Remark) : i \in 1..(Len(t) - 1)} : t \in lines}

Group(matcher, handlers) == [matcher |-> matcher, handlers |-> handlers]
Matchers == {"", "Bash"}

HandlerLists == Upto(2, {old, foreign}) \cup {<<old, foreign, now>>, <<foreign, old, now>>,
  <<old, now, foreign>>, <<stray, old>>, <<foreign, old, foreign>>}
PlainHandlers == {Bare(l) : l \in HandlerLists}
OddHandlers == UNION {Irregular(t) : t \in PlainHandlers}
RemarkedHandlers ==
  UNION {Remarked(Bare(l)) : l \in {<<old>>, <<old, foreign>>, <<foreign, old>>, <<foreign, old, foreign>>}}

PlainGroups == {Group(m, Bare(l)) : m \in Matchers, l \in Upto(2, {old, foreign})}
               \cup {Group("", Junk), Group(NoMatcher, Bare(<<foreign>>))}
FewGroups == {Group("", Bare(<<old>>)), Group("Bash", Bare(<<now>>)), Group("Bash", Bare(<<foreign>>))}

PlainArrays == {Bare(l) : l \in Upto(2, PlainGroups) \cup Upto(3, FewGroups)}
OddArrays ==
  UNION {Irregular(Bare(l)) : l \in Upto(3, FewGroups)}
  \cup {Bare(<<Group(m, h)>>) : m \in Matchers, h \in PlainHandlers \cup OddHandlers}
  \cup {Bare(<<Group(m, h), g>>) : m \in Matchers, h \in OddHandlers, g \in FewGroups}

RemarkedArrays ==
  {Bare(<<Group(m, h)>>) : m \in Matchers, h \in RemarkedHandlers}
  \cup UNION {Remarked(Bare(l)) : l \in
          {<<Group("Bash", Bare(<<now>>)), g>> : g \in {Group("", Bare(<<old>>)), Group("Bash", Bare(<<foreign>>))}}
          \cup {<<Group("Bash", Bare(<<foreign>>)), Group("Bash", Bare(<<now>>))>>}}

Theirs == Property("PreToolUse", Bare(<<Group("Bash", Bare(<<foreign>>))>>))
ObjectsWith(array) == {Bare(<<Property("Stop", array)>>), Bare(<<Property("Stop", array), Theirs>>)}

Documents ==
  {Absent, Junk, Scalar, Bare(<<>>), Bare(<<Theirs>>), Bare(<<Property("Stop", Junk), Theirs>>)}
  \cup UNION {ObjectsWith(a) : a \in PlainArrays \cup OddArrays}
  \cup {Bare(<<Property("Stop", a)>>) : a \in RemarkedArrays}
  \cup UNION {Irregular(o) : o \in UNION {ObjectsWith(Bare(l)) : l \in Upto(2, FewGroups)} \cup {Bare(<<>>), Bare(<<Theirs>>)}}

\* Every file with today's helper, a few with each other one.
FewArrays == {Bare(l) : l \in Upto(2, FewGroups)} \cup {Bare(<<Group("", Bare(<<almost, old>>))>>)}
MCStarts ==
  [helper : {Today}, document : Documents]
  \cup [helper : MCHelpers \ {Today}, document : {Absent} \cup UNION {ObjectsWith(a) : a \in FewArrays}]
=============================================================================
