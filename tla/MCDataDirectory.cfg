SPECIFICATION Spec
CONSTANTS
  h1 = h1
  h2 = h2
  k1 = k1
  k2 = k2
  k3 = k3
  Helpers = {h1, h2}
  App = app
  Cli = cli
  Keys = {k1, k2, k3}
  NoKey = none
  EmptyFile = empty
  MaxFaults = 1
SYMMETRY Symmetry
INVARIANTS
  OneCorrelationKey
  SealedStaysReadable
CHECK_DEADLOCK FALSE
