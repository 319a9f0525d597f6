SPECIFICATION FairPerfFeeSpec
CONSTANTS
  p1 = p1
  p2 = p2
  t1 = t1
  m1 = m1
  m2 = m2
  TxKey = {p1, p2}
  Trader = {t1}
  NoTrader = NoTrader
  Amount = {1, 2}
  Master = {m1, m2}
  Client = {c1}
  MasterOf <- TwoMasters
  OwnerOf <- OneOwner
  AmountOf <- Amounts
  PageCap = 1
INVARIANTS
  ChargedWasPaid
  RowsFollowBooks
PROPERTIES
  PaidIsBooked
