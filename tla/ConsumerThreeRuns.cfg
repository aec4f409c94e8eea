\* The delivery limit starts again for every republished copy.
CONSTANTS
  p1 = p1
  NoPayment = NoPayment
  h1 = h1
  i1 = i1
  i2 = i2
  Payments = {p1}
  Handlers = {h1}
  MsgIds = {i1, i2}
  TotalAttempts = 3
  WebhookAttempts = 1
  MaxCopies = 1
  FreshBroker = FALSE
SPECIFICATION Spec
INVARIANT AtMostTotalAttempts
CHECK_DEADLOCK FALSE
