SPECIFICATION DetectionSpec
CONSTANTS
  timed_out = timed_out
  none = none
  Threads = {"loop", "window"}
  Loop = "loop"
  MaxCommands = 1
  MaxFaults = 1
  MaxChanges = 1
  AgentOrder <- MCAgentOrder
  Places = 2
  FirstAnswers <- MCFirstAnswers
  Versions = {2, 3, 5}
  Line <- MCLine
  Catalogued <- MCCatalogued
  Events = {"Stop", "PreToolUse"}
  SafeEvents = {"Stop"}
  HooksOf <- MCHooksOf
  Required <- MCRequired
  Broken = {timed_out}
  Missing = missing
  None = none
PROPERTIES
  KnownStaysKnown
  UpgradeNoticed
CHECK_DEADLOCK FALSE
