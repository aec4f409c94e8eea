\* Two handlers, one payment whose copies multiply by redelivery and by lost confirmations.
CONSTANTS
  p1 = p1
  NoPayment = NoPayment
  h1 = h1
  h2 = h2
  i1 = i1
  i2 = i2
  Payments = {p1}
  Handlers = {h1, h2}
  MsgIds = {i1, i2}
  TotalAttempts = 2
  WebhookAttempts = 2
  MaxCopies = 1
  FreshBroker = FALSE
SPECIFICATION Spec
SYMMETRY Symmetry
INVARIANTS
  TypeOK
  NoPaymentLost
  ToldOnlyCommitted
  ToldWhatIsStored
PROPERTIES
  FinalStatusStableUnlessOverlap
  NoChargeAfterFinal
CHECK_DEADLOCK FALSE
