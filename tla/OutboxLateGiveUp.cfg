\* Two workers fail on the same event with the same claim.
CONSTANTS
  Events = {1}
  Workers = {w1, w2}
  MaxAttempts = 3
  BatchSize = 1
  MaxDeaths = 0
  FreshBroker = FALSE
  w1 = w1
  w2 = w2
SPECIFICATION Spec
INVARIANT GivesUpInTime
CHECK_DEADLOCK FALSE
