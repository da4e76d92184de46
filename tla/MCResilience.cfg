SPECIFICATION Spec
INVARIANTS
  PermitsSound
PROPERTIES
  GradientSound WheelSound 
CHECK_DEADLOCK FALSE
