SPECIFICATION LiveSpec
CONSTANTS
  Principals = {"ops"}
  Secrets = {"s1","s2"}
  Scopes <- MCScopes
  Limits = {"none","some"}
  Unlimited = "none"
  MaxOrdinal = 2
  Viewers = {"w1","w2"}
  Ops = "ops"
  FirstRow <- MCFirstRow
  MaxClients = 2
  MaxPending = 1
  MaxReconnects = 1
  MaxFacts = 2
  MaxDisturbances = 1
INVARIANTS
  LiveTypeOK
  CaughtUpIsCurrent
  EpochNamesOneAuthority
PROPERTIES
  NothingToRevoked
  EveryViewSettles
CHECK_DEADLOCK FALSE
