SPECIFICATION Spec
CONSTANTS
  None = None
  EnvKey = EnvKey
  Requests = {r1, r2, r3, r4}
  MaxInFlight = 2
SYMMETRY Symmetry
INVARIANTS TypeOK CloudKeyStaysInCloud StatusIsWhatAnswers
CHECK_DEADLOCK FALSE
