SPECIFICATION Spec
CONSTANTS
  e1 = e1
  e2 = e2
  c1 = c1
  Events = {e1, e2}
  Unmatched = {}
  Detailed = {e2}
  Channels = {c1}
  Immediate = Immediate
  Never = Never
  Rules <- MCRules
  Offsets = {0, 1}
  PauseLengths = {1}
  DayLength = 3
  FirstWeekday = 7
  ChannelLookup = 2
  TotalLookup = 2
  MaxTime = 4
  MaxFaults = 1
  MaxEdits = 1
PROPERTY DeferredWaits
CHECK_DEADLOCK FALSE
