SPECIFICATION Spec
CONSTANTS
  None = None
  carol = carol
  dave = dave
  olga = olga
  move = move
  trash = trash
  Requests = {r1, r2, r3}
  Plans = {move, trash}
  Actors = {carol, dave}
  Keys = {k1}
  Creator <- MCCreator
  NeedsApproval = {trash}
  Approvers = {carol, dave}
  WorkspaceOf <- MCWorkspaceOf
  Verdicts = {"VERIFIED", "MISMATCH"}
  DriftKinds = {}
  HasVerifier = TRUE
  MayRaise = FALSE
  MaxInFlight = 2
SYMMETRY Symmetry
INVARIANT KeyRunsOnce
CHECK_DEADLOCK FALSE
