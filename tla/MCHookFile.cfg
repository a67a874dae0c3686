SPECIFICATION FileSpec
CONSTANTS
  HookEvents = {"Stop", "PreToolUse"}
  EventOrder <- MCEventOrder
  Blank = ""
  Agent = "codex"
  Helpers <- MCHelpers
  UserCommands <- MCUserCommands
  NoOwner = NoOwner
  NoMatcher = NoMatcher
  Starts <- MCStarts
  Space = Space
  Quote = Quote
  DoubleQuote = DoubleQuote
  Backslash = Backslash
  Junk = Junk
  Scalar = Scalar
  Absent = Absent
INVARIANTS
  StaysSeparated
PROPERTIES
  ForeignUntouched
  ExactlyWanted
  StrictStaysStrict
CHECK_DEADLOCK FALSE
