SPECIFICATION Spec
CONSTANTS
  c1 = c1
  c2 = c2
  Cards <- MCCards
  Starts <- MCStarts
  MaxSecrets = 3
INVARIANT CancelledLeavesNoHalfWallet
