SPECIFICATION Spec
CONSTANTS
  e1 = e1
  e2 = e2
  e3 = e3
  e4 = e4
  Events = {e1, e2, e3, e4}
  NoEvent = NoEvent
  Uncatalogued = {e3, e4}
  LeftInFiles = {e4}
  TTLs = {1}
  RetentionAge = 1
  InboxCapacity = 1
  SpoolCapacity = 1
  DrainLimit = 1
  RecoveryBatch = 2
  MaxTime = 2
  MaxFaults = 1
  MaxClears = 1
INVARIANTS
  Custody
  NotifiedOnce
  JobKeepsEvent
PROPERTY BacklogDrains
CONSTRAINTS
  FirstComesE1
  OneTrouble
CHECK_DEADLOCK FALSE
