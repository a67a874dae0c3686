---------------------------- MODULE CommandLine ----------------------------
(***************************************************************************)
(* The command a hook runs: how the program writes it into the agent's     *)
(* file, and how it reads one back to see whether the handler is its own.  *)
(* A command is a sequence of characters; of those the quoting does not    *)
(* tell apart, a run is one character.                                     *)
(***************************************************************************)
EXTENDS Naturals, Sequences

CONSTANTS
  Agent,
  HookEvents,        \* catalogued events of the agent
  NoOwner,
  Space, Quote, DoubleQuote, Backslash

ASSUME CharacterAssumption ==
  /\ Quote \notin {Space, DoubleQuote, Backslash}
  /\ DoubleQuote \notin {Space, Backslash} /\ Space # Backslash

Times(n, c) == [i \in 1..n |-> c]

Joined(texts) ==
  LET n == Len(texts)
      upto[i \in 0..n] == IF i = 0 THEN <<>> ELSE upto[i - 1] \o texts[i]
  IN  upto[n]

(***************************************************************************)
(* Writing.                                                                *)
(***************************************************************************)
PosixQuote(word) ==
  <<Quote>> \o Joined([i \in 1..Len(word) |->
                IF word[i] = Quote THEN <<Quote, Backslash, Quote, Quote>> ELSE <<word[i]>>])
            \o <<Quote>>

\* Backslashes are held back until it is known what follows them.
QuoteStep(s, c) ==
  IF c = Backslash THEN [s EXCEPT !.held = @ + 1]
  ELSE [out |-> s.out \o Times(IF c = DoubleQuote THEN s.held + 1 ELSE s.held, Backslash) \o <<c>>,
        held |-> 0]
WindowsQuote(word) ==
  LET after[i \in 0..Len(word)] ==
        IF i = 0 THEN [out |-> <<DoubleQuote>>, held |-> 0] ELSE QuoteStep(after[i - 1], word[i])
      end == after[Len(word)]
  IN  end.out \o Times(2 * end.held, Backslash) \o <<DoubleQuote>>

\* No backslash stands directly before a double quote: a path on Windows has none of those.
Quotable(word) == \A i \in 1..(Len(word) - 1) : word[i] = Backslash => word[i + 1] # DoubleQuote

Flags(event) ==
  <<<<"--owner">>, <<"cc-reminder">>, <<"--agent">>, <<Agent>>, <<"--event">>, <<event>>>>

\* canonical_hook_command: every word is quoted, in the way of the build.
CanonicalCommand(tool, event) ==
  LET Quoted(word) == IF tool.windows THEN WindowsQuote(word) ELSE PosixQuote(word)
      words == <<tool.path>> \o Flags(event)
  IN  Joined([i \in 1..Len(words) |->
                    (IF i = 1 THEN <<>> ELSE <<Space>>) \o Quoted(words[i])])

(***************************************************************************)
(* Reading.  `begun` tells an empty word from none.                        *)
(***************************************************************************)
Start == [words |-> <<>>, word |-> <<>>, quoted |-> FALSE, begun |-> FALSE, held |-> 0]
Adds(s, text) == [s EXCEPT !.word = @ \o text, !.begun = TRUE]
Flushed(s, n) == [s EXCEPT !.word = @ \o Times(n, Backslash), !.held = 0]
Toggles(s) == [s EXCEPT !.quoted = ~@, !.begun = TRUE]
HoldsBack(s) == [s EXCEPT !.held = @ + 1, !.begun = TRUE]
EndWord(s) ==
  IF s.begun THEN [s EXCEPT !.words = Append(@, s.word), !.word = <<>>, !.begun = FALSE] ELSE s

\* A mutant of PosixWords: a backslash is a character like any other.
PosixWordsUnescaped(command) ==
  LET Step(s, c) ==
        IF c = Quote THEN Toggles(s)
        ELSE IF c = Space /\ ~s.quoted THEN EndWord(s)
        ELSE Adds(s, <<c>>)
      after[i \in 0..Len(command)] == IF i = 0 THEN Start ELSE Step(after[i - 1], command[i])
  IN  EndWord(after[Len(command)]).words

\* Outside of quotes a backslash takes the next character as it is, if there is one.
PosixStep(s, c) ==
  IF s.held = 1 THEN Adds([s EXCEPT !.held = 0], <<c>>)
  ELSE IF c = Quote THEN Toggles(s)
  ELSE IF c = Backslash /\ ~s.quoted THEN HoldsBack(s)
  ELSE IF c = Space /\ ~s.quoted THEN EndWord(s)
  ELSE Adds(s, <<c>>)
PosixRead(text) ==
  LET after[i \in 0..Len(text)] == IF i = 0 THEN Start ELSE PosixStep(after[i - 1], text[i])
  IN  after[Len(text)]
PosixWords(command) ==
  LET end == PosixRead(command) IN EndWord(Flushed(end, end.held)).words

\* Before a double quote two backslashes are one, and an odd one escapes it.
WindowsStep(s, c) ==
  IF c = Backslash THEN HoldsBack(s)
  ELSE IF c = DoubleQuote
       THEN LET t == Flushed(s, s.held \div 2)
            IN  IF s.held % 2 = 1 THEN Adds(t, <<c>>) ELSE Toggles(t)
  ELSE IF c = Space /\ ~s.quoted THEN EndWord(Flushed(s, s.held))
  ELSE Adds(Flushed(s, s.held), <<c>>)
WindowsRead(text) ==
  LET after[i \in 0..Len(text)] == IF i = 0 THEN Start ELSE WindowsStep(after[i - 1], text[i])
  IN  after[Len(text)]
WindowsWords(command) ==
  LET end == WindowsRead(command) IN EndWord(Flushed(end, end.held)).words

ShellWords(command) ==
  IF command # <<>> /\ command[1] = DoubleQuote THEN WindowsWords(command) ELSE PosixWords(command)

\* recognize_owned: seven words, of which the first may be anything.
Recognised(command) ==
  LET words == ShellWords(command)
      mine  == {e \in HookEvents : Tail(words) = Flags(e)}
  IN  IF Len(words) = 7 /\ mine # {} THEN CHOOSE e \in mine : TRUE ELSE NoOwner
=============================================================================
