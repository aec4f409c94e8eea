\* Three blocks on one session after another, two writes in each.
CONSTANTS
  Writes = {x, y}
  MaxUnits = 3
  x = x
  y = y
SPECIFICATION Spec
SYMMETRY Symmetry
INVARIANTS
  AllOrNothing
  FlagMeansTransaction
  CanBeginAgain
PROPERTIES
  NothingCommittedLater
  KeepsUnitsWhole
CHECK_DEADLOCK FALSE
