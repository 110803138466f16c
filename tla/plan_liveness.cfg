SPECIFICATION FairSpec
CONSTANTS
  None = None
  carol = carol
  dave = dave
  olga = olga
  move = move
  trash = trash
  Requests = {r1, r2, r3}
  Plans = {trash}
  Actors = {carol, dave}
  Keys = {k1}
  Creator <- MCCreator
  NeedsApproval = {trash}
  Approvers = {carol, dave}
  WorkspaceOf <- MCWorkspaceOf
  Verdicts = {"VERIFIED", "MISMATCH"}
  DriftKinds = {"expired"}
  HasVerifier = TRUE
  MayRaise = FALSE
  MaxInFlight = 2
PROPERTY ExecutingSettles
CHECK_DEADLOCK FALSE
