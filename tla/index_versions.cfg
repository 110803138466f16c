SPECIFICATION FairSpec
CONSTANTS
  None = None
  Uploads = {u1, u2}
  Paths = {a}
  MaxDeliveries = 2
INVARIANTS TypeOK AcceptedOnce ActiveIsFound RefusedHandOverFails
PROPERTIES ImplementsLifecycle HandedOverSettles
CHECK_DEADLOCK FALSE
