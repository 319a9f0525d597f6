SPECIFICATION DepositSpec
CONSTANTS
  Trader = {}
  NoTrader = NoTrader
  h1 = h1
  h2 = h2
  Hash = {h1, h2}
  TxKey = {h1, h2}
  Reverted = {h2}
  Paid <- MCPaid
  Amount = {1, 2}
  Request = {r1, r2}
  MinConfirmations = 3
  MaxHeight = 5
  AutoCredit = TRUE
INVARIANTS
  CreditFollowsDeposit
  FinalUnlessForked
SYMMETRY RequestSymmetry
CHECK_DEADLOCK FALSE
