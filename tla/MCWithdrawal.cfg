SPECIFICATION HandshakeSpec
CONSTANTS
  Tasks <- FourTasks
  Max = 2
INVARIANT RevokedWithdrawn
CHECK_DEADLOCK FALSE
