\* Three requests, with any of four bodies, race for a new key and for the key of a
\* legacy payment.
CONSTANTS
  Requests = {r1, r2, r3}
  Keys = {k1, k2}
  Bodies = {1, 2, 3, 4}
  Content <- MCContent
  Hashes = {1, 2, 3, 4}
  HashOf <- MCHashOf
  LegacyKeys = {k2}
  Legacy = Legacy
  None = None
  Precision = 4
  Values <- MCValues
  Depth <- MCDepth
SPECIFICATION BodyFairSpec
INVARIANTS
  TypeOK
  OneAnswerPerKey
  OneEventPerPayment
  AnswerMatchesBody
  ConflictIsResolvable
  NoFalseConflict
  NoFalseReplay
PROPERTIES
  EveryRequestAnswered
  KeepsItsPromise
CHECK_DEADLOCK FALSE
