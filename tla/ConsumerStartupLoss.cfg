\* The first start: a retry published before its queue exists.
CONSTANTS
  p1 = p1
  NoPayment = NoPayment
  h1 = h1
  i1 = i1
  i2 = i2
  Payments = {p1}
  Handlers = {h1}
  MsgIds = {i1, i2}
  TotalAttempts = 2
  WebhookAttempts = 1
  MaxCopies = 2
  FreshBroker = TRUE
SPECIFICATION Spec
SYMMETRY Symmetry
INVARIANT NoPaymentLost
CHECK_DEADLOCK FALSE
