SPECIFICATION Spec
INVARIANTS
  RetrySound ProxySound  TargetSound

  
CHECK_DEADLOCK FALSE
