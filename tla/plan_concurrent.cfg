SPECIFICATION Spec
CONSTANTS
  None = None
  carol = carol
  dave = dave
  olga = olga
  move = move
  trash = trash
  Requests = {r1, r2, r3}
  Plans = {move, trash}
  Actors = {carol, dave, olga}
  Keys = {k1, k2}
  Creator <- MCCreator
  NeedsApproval = {trash}
  Approvers = {carol, dave, olga}
  WorkspaceOf <- MCWorkspaceOf
  Verdicts = {"VERIFIED", "MISMATCH"}
  DriftKinds = {"expired"}
  HasVerifier = TRUE
  MayRaise = TRUE
  MaxInFlight = 2
SYMMETRY Symmetry
INVARIANTS TypeOK EvidenceComplete SelfConfirmedOnce ExpiredNeverRuns StatesWitnessed UnverifiedOpensTask StoredJobHasRunner LimboIsACrash
CHECK_DEADLOCK FALSE
