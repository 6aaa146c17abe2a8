SPECIFICATION Spec
CHECK_DEADLOCK FALSE
CONSTANTS
  w1 = w1
  w2 = w2
  c1 = c1
  c2 = c2
  Workers = {w1, w2}
  ClientIds = {c1, c2}
  BrokerIds = {b1, b2}
  Fingerprints = {f1, f2}
  NoBroker = NoBroker
  NoFingerprint = NoFingerprint
  NoClient = NoClient
  Callers <- DisjointCallers
  Quantity <- Quantities
  CurrentExposure = 1
  MaxTotalExposure = 3
  MaxAttempts = 4
INVARIANTS
  AtMostOneOrder
  ResolvedIntentsHideNoOrder
PROPERTIES
  ImplementsLedger
  LiveOrdersAreReserved
