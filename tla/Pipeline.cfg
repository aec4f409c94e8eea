\* Two requests with one key, one worker, one handler, the event published twice.
CONSTANTS
  Requests = {1, 2}
  Keys = {k1}
  Bodies = {b1}
  Hashes = {h1}
  HashOf <- MCHashOf
  Legacy = Legacy
  None = None
  Workers = {w1}
  MaxAttempts = 2
  BatchSize = 1
  MaxDeaths = 0
  Handlers = {c1}
  MsgIds = {1, 2}
  TotalAttempts = 1
  WebhookAttempts = 1
  MaxCopies = 2
  b1 = b1
  h1 = h1
  k1 = k1
  w1 = w1
  c1 = c1
SPECIFICATION FairSpec
INVARIANTS
  NoPaymentForgotten
  OnlyCommittedIsProcessed
  OneOutcomePerKey
PROPERTIES
  ReadsNeverGoBack
  EveryAcceptedPaymentEnds
  ImplementsService
CHECK_DEADLOCK FALSE
