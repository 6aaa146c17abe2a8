SPECIFICATION ComponentsSpec
CHECK_DEADLOCK FALSE
CONSTANTS
  a1 = a1
  a2 = a2
  b1 = b1
  b2 = b2
  c1 = c1
  c2 = c2
  g1 = g1
  g2 = g2
  k1 = k1
  k2 = k2
  s1 = s1
  s2 = s2
  t1 = t1
  t2 = t2
  w1 = w1
  w2 = w2
  x = x
  y = y
  Instruments = {x, y}
  Subscribers = {s1, s2}
  Watches <- WatchOneOrBoth
  Messages <- OneOrTwoTicks
  Recovers = TRUE
  AppLoads = {x}
  MaxQueue = 2
  MaxConnects = 2
  MaxMessages = 2
  MaxLinkFaults = 1
  Times = {0, 1, 2, 3, 4}
  TickPrices = {1, 2}
  BaseFrame = 2
  WideFrame = 4
  MaxTicks = 4
  Symbols = {x, y}
  Prices = {4, 8, 12, 16}
  Quantity = 4
  Fee = 1
  Slip = 2
  Capital = 100
  MaxBars = 6
  Tickets = {t1, t2}
  TicketSize <- TwoShares
  FillEvents <- Callbacks
  Callers = {c1, c2}
  NoEvent = NoEvent
  MaxCalls = 4
  Nonces = {g1}
  OauthStates = {g2}
  GrantUsers = {w1, w2}
  Bindings = {b1, b2}
  BindingOf <- FirstBinding
  Ttl = 1
  MaxGrantTime = 2
  IntentIds = {c1, c2}
  IntentOrders = {b1, b2}
  NoIntentOrder = NoIntentOrder
  Hashes = {"f", "g"}
  NoHash = "none"
  StoreCallers = {w1, w2}
  MaxStoreCalls = 3
  MaxStoreCrashes = 1
  AccountRows = {a1, a2}
  Requesters = {w1, w2}
  Comparisons = {"written", "text"}
  MaxVersions = 2
  MaxCommitFailures = 1
  ChartBars <- FourBars
  Pivot = 1
  Left = 1
  Right = 2
  Window = 2
  MaxChart = 6
  Brokers = {"dhan", "upstox", "sdk", "paper"}
  OrderQuantity = 2
  RouterReads = TRUE
  MaxLiveCalls = 2
  Engines <- EveryEngine
  EngineReadings <- ReadingsOfEach
  Forecasts <- SomeForecasts
  Strategies <- SomeStrategies
  ConfluenceQuarters = 1
  RequireMtf = FALSE
  RiskMoney = 20
  LotSize = 2
  MaxLots = 2
  FileStores = {"safety", "execution"}
  MaxSaves = 3
  MaxFileCrashes = 2
  OnceGates = {"paper", "retries", "identities"}
  OnceCallers = {w1, w2}
  OnceKeys = {k1, k2}
  OncePayloads = {"f", "g"}
  OnceBrokerIds = {b1, b2}
  NoValue = NoValue
  MaxOnceAttempts = 2
  MaxOnceCalls = 3
  MaxOnceFaults = 1
  MaxLinkFailures = 2
  OnceBackoff = 1
  MaxOnceTime = 1
  FeedOrder <- TwoFeeds
  HistoryJobs = {w1, w2}
  LastBar = 3
  FirstShown <- FirstShownByEach
  HistoryRanges <- WholeRange
  Archives = {"store", "repository"}
  FeedAttempts = 2
  FeedThreshold = 2
  FeedCooldown = 1
  ChunkBars = 2
  PageBars = 2
  MaxPages = 2
  MaxFeedTime = 1
  ClosingPrices = {9, 10, 11}
  MaxHistory = 7
  WarmupBars = 2
  Horizon = 2
  LabelThreshold = 5
  FoldCounts = {1, 2}
  Minimums = {0, 2}
  ModelGate <- AGate
  WindowSizes <- SomeSizes
  ParameterGrid <- LongOrShort
  DrawdownLimit = 0
INVARIANTS
  ComponentsTypeOK
  SubscribersSeeOneFeed
  CandlesAreTheirTicks
  EquityIsTheMoney
  FillsAreBookedOnce
  GrantsAreWonOnce
  ImportsOnlyUnresolved
  RoutesAreCommitted
  FinalViewsAreTrue
  DecisionsFollowEvidence
  RequestsKeepTheRules
  LoadsTheLastSave
  OnceMeansOnce
  HistoryIsWhole
  ResearchSeesOnlyThePast
PROPERTIES
  StoresAreAtomic
  NothingRepaints
