\* Two live handlers, a reader and a reconciliation on two closed slots.
CONSTANTS
  Live = {l1, l2}
  Reader = reader
  Syncer = syncer
  MaxClock = 3
  MaxDrops = 1
  MaxBusy = 2
  Correctable = {1}
  Window = 2
SPECIFICATION Spec
INVARIANT CopiesRestOnRows
INVARIANT ReconciledUnlessOvertaken
PROPERTY ClosedIsFinal
SYMMETRY LiveSymmetry
CHECK_DEADLOCK FALSE
