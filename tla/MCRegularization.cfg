SPECIFICATION SweepSpec
CONSTANTS
  t1 = t1
  a1 = a1
  k1 = k1
  kf = kf
  Trader = {t1}
  NoTrader = NoTrader
  Amount = {1, 2}
  Request = {r1}
  Key = {k1, kf}
  EngineKey = {k1, kf}
  Blank = Blank
  MamAccount = {a1}
  TxKey <- MCTxKey
  Owner <- OneTrader
  Stripped <- Itself
  LongKey <- NoKey
  Call <- OneOfEach
  Fee = {0}
  GuardLimit = 1
  Sweep = {s1, s2}
  Past <- MCPast
  PageSize = 2
INVARIANTS
  BookedOnce
  BooksFollowHistory
  Solvent
SYMMETRY SweepSymmetry
CHECK_DEADLOCK FALSE
