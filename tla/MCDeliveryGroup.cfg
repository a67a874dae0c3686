SPECIFICATION FairSpec
CONSTANTS
  j1 = j1
  j2 = j2
  j3 = j3
  c1 = c1
  c2 = c2
  b1 = b1
  none = none
  Jobs = {j1, j2, j3}
  Channels = {c1, c2}
  Buckets = {b1}
  NoBucket = none
  ChannelOf <- MCChannelOf
  BucketOf <- MCBucketOf
  ReleaseOf <- MCReleaseOf
  TTLs = {1}
  LeaseDuration = 1
  MaxBatch = 3
  AuthPauseThreshold = 2
  Cooldown = 1
  MaxAttempts = 1
  BackoffBase = 1
  BackoffCap = 2
  MaxRetryAfter = 2
  SenderOf <- MCSenderOf
  Answers <- MCAnswers
  CutsCharacter <- MCCutsCharacter
  MaxConcurrent = 1
  RetentionAge = 1
  MaxTime = 2
  MaxFaults = 1
  MaxEdits = 0
  MaxManual = 1
INVARIANTS
  TaskOwnsItsRow
  PausedAtThreshold
PROPERTIES
  OutcomeIsFinal
  PassEnds
  EveryJobSettles
CHECK_DEADLOCK FALSE
