\* News: two calls of two users, two versions, one redirect.  Library: two
\* owners, one family, two contents, two requests at once, at most three, and
\* three new rows.  Simulation: up to six candles.  Leaderboard: two places,
\* one rollback, one deletion of an Experiment.
CONSTANTS
  Readers = {u1, u2}
  a1 = a1
  a2 = a2
  Articles = {a1, a2}
  Listed <- MCListed
  Invented = {x}
  MaxVersion = 1
  MaxRedirects = 1
  Few = 1
  MaxCalls = 2
  Users = {u1, u2}
  Families = {f1}
  Contents = {a, b}
  Reqs = {r1, r2}
  MaxIds = 3
  MaxRequests = 3
  Candles <- MCCandles
  MaxCandles = 6
  Warmup = 1
  Capital = 1000
  FeePercent = 1
  SlippagePercent = 2
  StopPercent = 10
  TakePercent = 10
  Experiments <- MCExperiments
  Score <- MCScore
  Ineligible <- MCIneligible
  Txs = {r1, r2}
  K = 2
  MaxRollbacks = 1
  MaxDeletions = 1
SPECIFICATION Spec
INVARIANT CollectionIsSound
INVARIANT LibraryIsSound
INVARIANT TradesAreSound
INVARIANT BoardIsTheBest
PROPERTY OwnerAndVerdictStand
PROPERTY DeletionIsExact
PROPERTY LeavesForBetter
SYMMETRY MCSymmetry
CHECK_DEADLOCK FALSE
