SPECIFICATION Spec
CONSTANTS
  MaxTx = 3
  MaxRuns = 2
INVARIANT
  KnownOutIsNotToldUnsent
