SPECIFICATION DeliveriesSpec
CHECK_DEADLOCK FALSE
CONSTANTS
  o1 = o1
  o2 = o2
  foreign = foreign
  b1 = b1
  e1 = e1
  e2 = e2
  s1 = s1
  p1 = p1
  p2 = p2
  t1 = t1
  Orders = {o1, o2}
  BrokerOrders = {b1}
  Scopes = {s1}
  EventIds = {e1, e2}
  NoBroker = NoBroker
  NoHolder = NoHolder
  NoMessage = NoMessage
  ScopeOf <- OneScope
  Total <- Totals
  IsBuy <- Sides
  Threads = {t1}
  Publishers = {p1, p2}
  Feed <- BrokerFeed
  MaxFaults = 1
  w1 = w1
  w2 = w2
  AlertEvents = {1, 2}
  AlertWorkers = {w1, w2}
  NoWorker = NoWorker
  MaxAlertAttempts = 2
  MaxAlertFaults = 1
INVARIANTS
  PositionsAreTheFills
  ConsumerSeesEachEventOnce
PROPERTIES
  EventsArePublished
  AlertsReachAnEnd
