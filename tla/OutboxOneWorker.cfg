\* One worker, as docker-compose runs it, from the very first start, with batches
\* smaller than what is due.
CONSTANTS
  Events = {1, 2, 3}
  Workers = {w1}
  MaxAttempts = 2
  BatchSize = 2
  MaxDeaths = 1
  FreshBroker = TRUE
  w1 = w1
SPECIFICATION FairSpec
INVARIANTS
  TypeOK
  GivesUpInTime
  DuplicatesExplained
PROPERTIES
  OutcomeIsFinal
  BackoffRespected
  EveryEventSettles
  RelaysEvents
CHECK_DEADLOCK FALSE
