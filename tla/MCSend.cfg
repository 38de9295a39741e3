SPECIFICATION Spec
CONSTANTS
  MaxTx = 3
  MaxRuns = 2
INVARIANTS
  
  OutOnlyAfterCommit
  CancelIsAllOrNothing
PROPERTIES
  KeepsPromise
  CommittedFinishes
  AlwaysEnds
