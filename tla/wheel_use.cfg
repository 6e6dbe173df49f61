SPECIFICATION Spec
CONSTANTS
  e1 = e1
  e2 = e2
  N = 3
  Entries = {e1, e2}
  Durations = {0, 1, 3, 4}
  MaxTick = 6
  CancelImmediate = FALSE
SYMMETRY Symmetry
INVARIANTS ReportedOnTime NothingMissed
