SPECIFICATION Spec
CONSTANTS
  None = None
  carol = carol
  dave = dave
  olga = olga
  move = move
  trash = trash
  Requests = {r1, r2, r3, r4}
  Plans = {move, trash}
  Actors = {carol, dave}
  Keys = {k1, k2}
  Creator <- MCCreator
  NeedsApproval = {trash}
  Approvers = {carol, dave}
  WorkspaceOf <- MCWorkspaceOf
  Verdicts = {"VERIFIED", "ESCALATED"}
  DriftKinds = {"acl_denied"}
  HasVerifier = TRUE
  MayRaise = TRUE
  MaxInFlight = 1
INVARIANTS RunsOnce PlanAgreesWithJob RecoveryOwed RefusalsStand
PROPERTY ImplementsLifecycle
CHECK_DEADLOCK FALSE
SYMMETRY Symmetry
