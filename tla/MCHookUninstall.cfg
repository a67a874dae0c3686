SPECIFICATION Spec
CONSTANTS
  h1 = h1
  h2 = h2
  Hooks = {h1, h2}
  Selections <- MCSelections
  MaxActions = 2
  MaxEdits = 0
  MaxErrors = 0
INVARIANT UninstallStays
CHECK_DEADLOCK FALSE
