SPECIFICATION Spec
CONSTANTS
  None = None
  a = a
  b = b
  c = c
  x = x
  y = y
  p1 = p1
  p2 = p2
  Paths = {a, b, c}
  Bytes = {x, y}
  MaxUploads = 2
  Plans = {p1, p2}
  MaxOps = 2
  MaxInFlight = 3
SYMMETRY Symmetry
INVARIANTS TypeOK RecordsAgreeWithDisk RaceHasOneWinner TrashRemovesItsFile
CHECK_DEADLOCK FALSE
