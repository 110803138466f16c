SPECIFICATION Spec
CONSTANTS
  None = None
  alice1 = alice1
  alice2 = alice2
  bob1 = bob1
  Requests = {r1, r2, r3, r4}
  Names = {f, g}
  Sessions = {alice1, bob1}
  UserOf <- MCUserOf
  ClearOnLogout = TRUE
  MayRaise = TRUE
  MaxInFlight = 2
SYMMETRY Symmetry
INVARIANTS TypeOK DeletedNeverAnswers AnswersOwnFiles RecordsAgree
PROPERTY DeletesOnlyOwn
CHECK_DEADLOCK FALSE
