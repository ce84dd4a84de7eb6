SPECIFICATION Spec
CONSTANTS
  Calls = {"a", "b", "c"}
  Identities = {"main", "spare"}
  PlanOf <- MCPlanOf
  Abortable = {"b"}
  MaxConcurrency = 2
  FailureThreshold = 1
  MaxAttempts = 2
INVARIANTS
  ResilienceTypeOK
  SlotsAccounted
  ProbeHasOwner
PROPERTIES
  HalfOpenEndsByProbe
  NoCallAfterAbort
  BlockedMoves
  
CHECK_DEADLOCK FALSE
