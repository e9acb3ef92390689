\* One backend process that crashes once during a fill, and one user; the
\* screen of two runs.
CONSTANTS
  MaxCandidates = 3
  SoftStop = TRUE
  MaxInFlight = 2
  MaxIterations = 4
  MaxCrashes = 1
  Fillers = {f1}
  Users = {u1}
  Faults = {"fillError", "submitError", "cancelError", "finalizeError", "strand"}
  NoOne = NoOne
  Runs = {r1, r2}
  MaxControls = 2
  MaxSwitches = 2
SPECIFICATION LiveSpec
PROPERTY LoopEnds
PROPERTY StatusIsFollowed
CHECK_DEADLOCK FALSE
