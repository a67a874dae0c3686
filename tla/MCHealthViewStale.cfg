SPECIFICATION Spec
CONSTANTS
  Views = {"shell", "history"}
  Listens <- MCListens
  Found = {"ok", "error"}
  LatestOnly = {"history"}
  Capacity = 1
  MaxChanges = 2
  MaxFaults = 1
  MaxOfPage = 2
  MaxInFlight = 3
\* Each is refuted on its own; TLC reports the first it meets.
PROPERTIES
  TrayIsTold
  NoPageOlder
CHECK_DEADLOCK FALSE
