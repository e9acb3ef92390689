\* Two charts share a stream, a fourth shows one that no provider serves.
CONSTANTS
  c1 = c1
  c2 = c2
  c3 = c3
  c4 = c4
  doge = doge
  btc = btc
  eth = eth
  Charts = {c1, c2, c3, c4}
  Key <- FourCharts
  Unsupported = {doge}
  MaxSockets = 2
  MaxChanges = 4
SPECIFICATION FairSpec
INVARIANT SubscribersServeCharts
PROPERTY SocketsSettle
CHECK_DEADLOCK FALSE
