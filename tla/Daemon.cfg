SPECIFICATION Spec
CHECK_DEADLOCK FALSE
CONSTANTS
  NoTime = NoTime
  MaxTime = 2
  MaxInFlightRpc = 2
INVARIANTS
  TypeOK
  StoresClosedQuietly
  ZeroMeansClean
PROPERTIES
  QuietAfterStop
  ShutdownEnds
  WakeHeard
  TimerHonoured
