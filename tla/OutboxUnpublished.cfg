\* The consumer declares exchange and queue only after the worker has started.
CONSTANTS
  Events = {1}
  Workers = {w1}
  MaxAttempts = 3
  BatchSize = 1
  MaxDeaths = 0
  FreshBroker = TRUE
  w1 = w1
SPECIFICATION Spec
INVARIANT DoneMeansPublished
CHECK_DEADLOCK FALSE
