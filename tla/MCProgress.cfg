SPECIFICATION ProgressSpec
CONSTANTS
  c1 = c1
  c2 = c2
  w1 = w1
  w2 = w2
  Callers <- MCCallers
  Waiters <- MCWaiters
  Target <- MCTarget
INVARIANT NoLostWakeup
PROPERTIES
  KeepsPromise SignalEndsProcess ConnectionEnds QuietDrains WindowsClose
CHECK_DEADLOCK FALSE
