\* Two charts that share a stream; two faults exhaust the one attempt.
CONSTANTS
  c1 = c1
  c2 = c2
  btc = btc
  eth = eth
  Callers = {c1, c2}
  Wants <- TwoCharts
  MaxAttempts = 1
  MaxSockets = 6
  MaxFaults = 2
SPECIFICATION FairSpec
INVARIANT ConnectedIsTrue
INVARIANT OnlyHeldSocketIsLive
INVARIANT DesiredIsUnion
PROPERTY CallersAnswered
PROPERTY RecoversUnlessHistoryFails
CHECK_DEADLOCK FALSE
