SPECIFICATION FairSpec
CONSTANTS
  t1 = t1
  a1 = a1
  a2 = a2
  k1 = k1
  k2 = k2
  kf = kf
  kl = kl
  Trader = {t1}
  NoTrader = NoTrader
  Amount = {1, 2}
  Request = {r1, r2}
  Key = {k1, k2, kf, kl}
  EngineKey = {k1, k2, kf, kl}
  Blank = Blank
  MamAccount = {a1, a2}
  TxKey <- MCTxKey
  Owner <- OneTrader
  Stripped <- PaddedOrBlank
  LongKey <- OneLongKey
  Call <- OddCalls
  Fee = {0, 1}
  GuardLimit = 1
INVARIANTS
  BookedWasMoved
  BooksFollowEngine
PROPERTIES
  EveryCallEnds
CHECK_DEADLOCK FALSE
