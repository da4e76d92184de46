SPECIFICATION HandshakeSpec
CONSTANTS
  Tasks <- FourTasks
  Max = 2
INVARIANTS
  NeverOverAdmits ResumptionSound  
  ClientAuthSound 
PROPERTY AdmitsAtomically
CHECK_DEADLOCK FALSE
