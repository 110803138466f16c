SPECIFICATION Spec
CONSTANTS
  None = None
  EnvKey = EnvKey
  Requests = {r1, r2, r3, r4}
  MaxInFlight = 1
SYMMETRY Symmetry
INVARIANT KeyClearedOnLogout
CHECK_DEADLOCK FALSE
