\* One handler at a time, from the first start, the event published twice.
CONSTANTS
  p1 = p1
  NoPayment = NoPayment
  h1 = h1
  i1 = i1
  i2 = i2
  Payments = {p1}
  Handlers = {h1}
  MsgIds = {i1, i2}
  TotalAttempts = 2
  WebhookAttempts = 2
  MaxCopies = 2
  FreshBroker = TRUE
SPECIFICATION FairSpec
INVARIANTS
  DlqBoundInTime
  DeadOnlyAfterAllAttempts
  RunsBounded
PROPERTIES
  KeptOnceDeclared
  EveryPaymentSettles
CHECK_DEADLOCK FALSE
