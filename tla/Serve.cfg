SPECIFICATION Spec
CONSTANTS
  Shards = {1, 2}
  Heads = {1, 2}
  Conns = {k1, k2}
  Max = 2
  Graceful = 1
  Grace = 1
  Poll = 1
  Jitter = 2
  Dial = 1
  Idle = 1
  MaxSignals = 2
  Prompt = FALSE
INVARIANT DrainSound
PROPERTY GracefulWindow
SYMMETRY ConnSymmetry
