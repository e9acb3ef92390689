\* Two backend processes, one crash during a fill, and one user, with a
\* budget of three Candidates of which two may be in flight; two articles
\* and two concurrent requests for sentiment; two workers and three attempts
\* of a replay verification; two generated Candidates over three definitions.
\* The parts never meet, so that they share one symmetric set of processes.
CONSTANTS
  MaxCandidates = 3
  SoftStop = TRUE
  MaxInFlight = 2
  MaxIterations = 4
  MaxCrashes = 1
  Fillers = {f1, f2}
  Users = {u1}
  Faults = {"fillError", "submitError", "cancelError", "finalizeError"}
  NoOne = NoOne
  Bounds <- MCBounds
  Related = {"ma"}
  Category <- MCCategory
  Space <- MCSpace
  Warmup <- MCWarmup
  Required <- MCRequired
  Forbidden = {"MOMENTUM"}
  MaxComponents = 2
  WarmupCapacity = 1
  Reach = 1
  MaxTries = 2
  MaxDeletes = 1
  NewsItems = {n1, n2}
  Primary = primary
  Fallback = fallback
  Scores = {1, 2}
  Horizon = 3
  Frame = 2
  Ranges <- MCRanges
  Spans = {1, 4}
  Requests = {f1, f2}
  Keys = {1}
  MaxResults = 2
  MaxAsked = 2
  Workers = {f1, f2}
  Attempts = 3
  MaxStalled = 1
  MaxClaims = 3
  MaxRecoveries = 2
SPECIFICATION PartsSpec
INVARIANT BudgetKept
INVARIANT CountedInFlightWithinLimit
INVARIANT CompletedRunIsDrained
INVARIANT CandidatesAreFaithful
INVARIANT SentimentIsPast
PROPERTY ReservedOnlyWhileRunning
PROPERTY OnlyUnlockedCopyRevives
PROPERTY ReplayIsSettled
SYMMETRY BackendSymmetry
CHECK_DEADLOCK FALSE
