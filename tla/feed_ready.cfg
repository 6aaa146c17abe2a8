SPECIFICATION FeedSpec
CHECK_DEADLOCK FALSE
CONSTANTS
  x = x
  y = y
  s1 = s1
  s2 = s2
  Instruments = {x, y}
  Subscribers = {s1}
  Watches <- WatchOneOrBoth
  Messages <- OneOrTwoTicks
  Recovers = TRUE
  AppLoads = {}
  MaxQueue = 2
  MaxConnects = 2
  MaxMessages = 0
  MaxLinkFaults = 2
INVARIANT ReadyMeansRecovered
