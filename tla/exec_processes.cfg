SPECIFICATION PartsSpec
CHECK_DEADLOCK FALSE
CONSTANTS
  Parts = {"execution", "submissions", "recovery", "checks", "identities", "plans",
           "desk", "health"}
  w1 = w1
  w2 = w2
  p1 = p1
  p2 = p2
  c1 = c1
  c2 = c2
  Workers = {w1,w2}
  Processes = {p1,p2}
  ClientIds = {c1,c2}
  BrokerIds = {b1,b2}
  NoBroker = NoBroker
  NoClient = NoClient
  ProcessOf <- OwnProcess
  Durable = TRUE
  Quantity <- Quantities
  CurrentExposure = 1
  MaxTotalExposure = 3
  MaxRequests <- Once
  MaxRestarts = 0
  a1 = a1
  a2 = a2
  k1 = k1
  k2 = k2
  t1 = t1
  t2 = t2
  x = x
  y = y
  other = other
  Keys = {k1, k2}
  BrokerOrderIds = {b1, b2, b3}
  Submitters = {w1, w2}
  Recoverers = {p1}
  KeyScope <- OneAccount
  Approvals <- SomeApprovals
  NoBrokerOrder = NoBrokerOrder
  NoKey = NoKey
  MaxSends = 2
  OwnOrders = {t1, t2}
  OtherOrders = {y}
  OrderSide <- RecoverySides
  OrderSize = 1
  MaxAttempts = 2
  MaxHalts = 1
  CheckedOrders = {x, y}
  CheckedSide <- OppositeSides
  CheckedSize <- OneShare
  OwnChecked = {x}
  MaxChecks = 2
  Sought = {c1, c2}
  SoughtTerms <- AllBuy
  SoughtIn <- InOwnAccount
  Books = {a1, a2}
  Accountless = {c2}
  SoughtIds = {b1, b2}
  PossibleRows <- FoundRows
  NoId = NoBrokerOrder
  PlanSymbols = {x, y}
  Proposals <- Setups
  PlanIds = {1, 2, 3}
  RiskAmount = 2
  MaxPlanNotional = 8
  MinRewardRisk = 2
  MaxSymbolQuantity = 3
  MaxTotalNotional = 40
  MaxDailyLoss = 4
  MaxDrawdown = 6
  MaxRiskBudget = 3
  BreakerLoss = 3
  MaxTradeRisk = 2
  MaxTradeExposure = 8
  MaxOpenPositions = 2
  MaxDayLoss = 4
  Desks = {"execution", "manager", "portfolio", "lifecycle"}
  DeskIds = {1, 2, 3}
  DeskTickets <- PaperTickets
  DeskPrices = {3, 6}
  DeskThreads = {w1, w2}
  DeskSlip = 1
  DeskFee = 1
  DeskRisk = 2
  DeskExposure = 8
  DeskLoss = 4
  DeskLimit = 1
  MaxDeskExits = 3
  HookThreads = {t1, t2}
  Measured <- SomeMeasured
  AlertCooldown = 2
  MaxMeasured = 3
  MaxAlertTime = 2
INVARIANTS
  ExposureWithinLimit
  CallersAreToldOneOrder
  TradesOnWhatItKnows
  OrdersFoundAreTheirs
  OpenRiskWithinBudget
  PaperBooksBalance
  PositionsNearTheLimit
  UnhealthIsAlerted
PROPERTY
  ReadyMatchesBroker
