SPECIFICATION Spec
INVARIANTS
  PolicyAdmission PolicyEvaluation RouteSound MatchSound
CHECK_DEADLOCK FALSE
