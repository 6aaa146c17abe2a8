SPECIFICATION Spec
CHECK_DEADLOCK FALSE
CONSTANTS
  w1 = w1
  w2 = w2
  c1 = c1
  c2 = c2
  Workers = {w1, w2}
  ClientIds = {c1}
  BrokerIds = {b1, b2}
  Fingerprints = {f1}
  NoBroker = NoBroker
  NoFingerprint = NoFingerprint
  NoClient = NoClient
  Callers <- SharedCallers
  Quantity <- LargerQuantities
  CurrentExposure = 1
  MaxTotalExposure = 4
  MaxAttempts = 2
INVARIANTS
  OrdersFollowIntents
