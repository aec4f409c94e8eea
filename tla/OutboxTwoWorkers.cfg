\* Two workers on the same rows.
CONSTANTS
  Events = {1, 2}
  Workers = {w1, w2}
  MaxAttempts = 2
  BatchSize = 2
  MaxDeaths = 1
  FreshBroker = FALSE
  w1 = w1
  w2 = w2
SPECIFICATION Spec
SYMMETRY Symmetry
INVARIANTS
  PublishedWasAccepted
  GivenUpWasTried
CHECK_DEADLOCK FALSE
