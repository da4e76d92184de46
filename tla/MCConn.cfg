SPECIFICATION Spec
INVARIANTS
   PoolSound
PROPERTIES
  GaugeSound BodySound 
CHECK_DEADLOCK FALSE
