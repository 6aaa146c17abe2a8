SPECIFICATION StartupsSpec
SYMMETRY Symmetric
CHECK_DEADLOCK FALSE
CONSTANTS
  p1 = p1
  p2 = p2
  a1 = a1
  a2 = a2
  b1 = b1
  b2 = b2
  b3 = b3
  c1 = c1
  c2 = c2
  Processes = {p1, p2}
  Accounts = {a1, a2}
  ActiveSets <- AnyAccounts
  ChecksRecorded = TRUE
  Faults <- AllFaults
  MaxTime = 3
  MaxStops = 1
  MaxHalts = 1
  LocalIds = {c1, c2}
  RemoteIds = {b1, b2, b3}
  ClientOf <- ClientOrders
  SideOf <- BuyAndSell
  SizeOf <- TwoAndOne
  AccountOf <- AnAccountEach
  Tagged = {b2}
  MaxPrice = 1
  MaxRows = 1
  NoRemote = NoRemote
  NoAccount = NoAccount
INVARIANTS
  AcceptsOnReconciledAccounts
  PositionIsTheBookedFills
PROPERTY
  HaltNeedsNewerReconciliation
