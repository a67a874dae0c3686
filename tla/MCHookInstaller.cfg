SPECIFICATION FairSpec
CONSTANTS
  h1 = h1
  h2 = h2
  Hooks = {h1, h2}
  Selections <- MCSelections
  MaxActions = 2
  MaxEdits = 1
  MaxErrors = 1
INVARIANTS
  TrustIsEarned
PROPERTIES
  NoBlindOverwrite
  HealsDamage
CHECK_DEADLOCK FALSE
