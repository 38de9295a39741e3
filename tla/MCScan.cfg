SPECIFICATION MCSpec
CONSTANTS
  t1 = t1
  t2 = t2
  Txs = {t1, t2}
  Coins <- MCCoins
  Payments <- MCPayments
  Maturity = 2
  MaxTip = 3
  Transfers = {"coin", "first", "second"}
  Inputs <- MCInputs
  Amounts <- MCAmounts
  FromHeights = {1, 2}
  MaxHeight = 3
INVARIANTS CountedOnce OneMoment MaturityIsTrue HistoryIsTrue
