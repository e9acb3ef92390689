CONSTANTS
  Defs <- MCDefs
  Parts <- MCParts
  MaxStored = 1
  MaxDrafts = 2
  MaxOpens = 2
  MaxDeletes = 1
  Params = {p, q}
  MaxScopes = 2
  MaxRuns = 1
  MaxMounts = 2
  MaxEdits = 1
  Categories = {"trend", "momentum"}
  Definitions = {1, 2}
  Category <- MCCategory
  Sentimental = {2}
  Sizes <- MCSizes
  Rows <- MCRows
  Tab <- MCTab
  Queries <- MCQueries
  PageSizes = {1, 2}
  Members <- MCMembers
  Groups <- MCGroups
  Whole = 6
  WeightEdits <- MCWeightEdits
  ValueEdits = {3, 9}
  Limits <- MCLimits
  Modes = {"WEBSITE", "HTML"}
  SourceMode <- MCSourceMode
  Defaults = {1}
  PageOf = 1
  MaxNews = 2
  MaxCrawls = 2
  MaxTimers = 1
  Trades <- MCTrades
  Batch = 2
  MaxBatches = 3
  TableSizes = {1, 3}
  DetailSize = 3
  Streams = {s1, s2}
  Window = 3
  Kept = 3
  MaxCloses = 2
  MaxAsked = 2
  MaxOnWire = 2
  MaxUpsets = 1
  Pairs = {"btc", "eth"}
  DefaultPair = "btc"
  Frames = 2
  MaxPanels = 2
  Emails = {e1, e2}
  AppScreens = {"market", "news"}
  MaxTokens = 2
  MaxFlights = 2
SPECIFICATION Spec
 
INVARIANT ScreensAreTrue
PROPERTY DraftsChangeForACause
PROPERTY BindsResult
CHECK_DEADLOCK FALSE
