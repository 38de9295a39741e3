SPECIFICATION Spec
CONSTANTS
  Cap <- MCCap
  Dust <- MCDust
  Wallets <- MCWallets
  Amounts <- MCAmounts
  FeeSchedules <- MCFeeSchedules
INVARIANTS
  PlanSound
  BestPlan
  RefusalIsSound
