SPECIFICATION Spec
CONSTANTS
  NoTimer = NoTimer
  t1 = t1
  t2 = t2
  t3 = t3
  Entries = {t1, t2, t3}
  Seconds = {0, 1, 3}
  N = 2
  Scale = 1
  tick_HZ = 100
  MaxTick = 6
  CancelZero = FALSE
INVARIANTS EntriesPlaced NeverOverdue OnTime
PROPERTY ServiceSpec
