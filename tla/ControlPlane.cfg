SPECIFICATION HistorySpec
CONSTANTS
  Works = {"first", "second"}
  MayBe <- MCMayBe
  SessionOf <- MCSessionOf
  Sessions = {"s1"}
  MaxRetries = 1
  Personas = 2
INVARIANTS
  PlaneTypeOK
  HonestBrake
  AdmissionIsDurable
  NothingRunsAfterCompleteBrake
  OneTaskPerSession
PROPERTIES
  NoCallAfterStop
  BrakeEnds
  StoppedWorkSettles
CHECK_DEADLOCK TRUE
