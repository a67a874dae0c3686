SPECIFICATION Spec
CONSTANTS
  j1 = j1
  j2 = j2
  c1 = c1
  none = none
  Jobs = {j1, j2}
  Channels = {c1}
  Buckets = {}
  NoBucket = none
  ChannelOf <- MCChannelOf
  BucketOf <- MCBucketOf
  ReleaseOf <- MCReleaseOf
  TTLs = {2}
  LeaseDuration = 1
  MaxBatch = 2
  AuthPauseThreshold = 2
  Cooldown = 1
  MaxAttempts = 1
  BackoffBase = 2
  BackoffCap = 2
  MaxRetryAfter = 2
  SenderOf <- MCSenderOf
  Answers <- MCAnswers
  CutsCharacter = {}
  MaxConcurrent = 2
  RetentionAge = 2
  MaxTime = 2
  MaxFaults = 1
  MaxEdits = 1
  MaxManual = 1
SYMMETRY JobSymmetry
INVARIANTS
  LeaseIffSending
  NoDuplicateWithoutLoss
  RetryWithinDeadline
  AttemptsBounded
  OneStaleStrike
PROPERTIES
  NoLateClaim
  KeepsPromise
CHECK_DEADLOCK FALSE
