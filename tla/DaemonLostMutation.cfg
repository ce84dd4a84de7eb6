SPECIFICATION Spec
CHECK_DEADLOCK FALSE
CONSTANTS
  NoTime = NoTime
  MaxTime = 2
  MaxInFlightRpc = 2
PROPERTIES
  EveryMutationHeard
