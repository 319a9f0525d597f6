SPECIFICATION OtpSpec
CONSTANTS
  Trader = {}
  NoTrader = NoTrader
  Otp = {o1}
  TxKey = {o1}
  Amount = {1, 2}
  Request = {r1, r2, r3}
  MaxAttempts = 2
  MaxCodes = 2
INVARIANTS
  FundsOnce
  VerifiedIsFunded
SYMMETRY RequestSymmetry
CHECK_DEADLOCK FALSE
