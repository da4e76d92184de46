SPECIFICATION Spec
PROPERTIES
  RegistrySound ReleaseSound EstimateSound PickSound
CHECK_DEADLOCK FALSE
