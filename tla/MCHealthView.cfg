SPECIFICATION Spec
CONSTANTS
  Views = {"shell", "history"}
  Listens <- MCListens
  Found = {"ok", "error"}
  LatestOnly = {"history"}
  Capacity = 1
  MaxChanges = 2
  MaxFaults = 1
  MaxOfPage = 2
  MaxInFlight = 3
INVARIANT AnnouncedIsRead
PROPERTIES
  NeverOlder
  ViewsCatchUp
CHECK_DEADLOCK FALSE
