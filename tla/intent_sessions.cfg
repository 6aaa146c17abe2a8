SPECIFICATION StoresSpec
CHECK_DEADLOCK FALSE
CONSTANTS
  IntentIds = {c1}
  IntentOrders = {b1, b2}
  NoIntentOrder = NoIntentOrder
  Hashes = {"f"}
  NoHash = "none"
  StoreCallers = {w1, w2}
  MaxStoreCalls = 4
  MaxStoreCrashes = 0
PROPERTY ResolvedIntentsAreImmutable
