SPECIFICATION Spec
CONSTANTS
  Shards = {1, 2}
  Heads = {1, 2}
  Conns = {k1, k2}
  Max = 1
  Graceful = 1
  Grace = 2
  Poll = 1
  Jitter = 4
  Dial = 3
  Idle = 3
  MaxSignals = 2
  Prompt = TRUE
INVARIANT ExitZeroCutsNothing
