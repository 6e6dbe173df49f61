SPECIFICATION Spec
CONSTANTS
  NoTimer = NoTimer
  t1 = t1
  Entries = {t1}
  Seconds = {1}
  N = 10
  Scale = 1000
  tick_HZ = 100
  MaxTick = 1001
  CancelZero = FALSE
INVARIANT LastsSeconds
