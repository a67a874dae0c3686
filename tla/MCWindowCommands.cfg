SPECIFICATION Spec
CONSTANTS
  t1 = t1
  t2 = t2
  a = a
  b = b
  top = top
  tree = tree
  side = side
  none = none
  Threads = {t1, t2}
  MaxCommands = 3
  MaxFaults = 1
  Forms = {1, 2}
  Offsets = {0, 8}
  Durations = {1}
  NoPause = none
  DefaultForm = 1
  DefaultOffset = 0
  Projects = {a, b}
  Paths = {top, tree, side}
  Parent <- MCParent
  Depth <- MCDepth
  GitRoot <- MCGitRoot
  NoPath = none
  MaxPaths = 2
SYMMETRY Symmetry
INVARIANTS
  LostOnlyToOverlap
  AutostartFollows
  NearestProjectKnown
CHECK_DEADLOCK FALSE
