SPECIFICATION TxSpec
CONSTANTS
  Calls = {c1, c2, c3}
  Requests = {"q1"}
  Payloads = {"p1", "p2"}
  Nobody = Nobody
  Old = Old
  R1 = R1
  R2 = R2
  OldIds <- MCOldIds
  FirstImages <- MCFirstImages
  MaxFaults = 2
SYMMETRY CallSymmetry
INVARIANTS
  StoreTypeOK
  ObserverSeesCommitted
  AnswersAreDurable
  PlanHistory
