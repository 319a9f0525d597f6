SPECIFICATION Spec
CONSTANTS
  t1 = t1
  a1 = a1
  a2 = a2
  k1 = k1
  k2 = k2
  kf = kf
  kl = kl
  Trader = {t1}
  NoTrader = NoTrader
  Amount = {1, 2}
  Request = {r1, r2, r3}
  Key = {k1, k2, kf}
  EngineKey = {k1, k2, kf}
  Blank = Blank
  MamAccount = {a1, a2}
  TxKey <- MCTxKey
  Owner <- OneTrader
  Stripped <- Itself
  LongKey <- NoKey
  Call <- MixedCalls
  Fee = {0, 1}
  GuardLimit = 1
INVARIANTS
  OneInFlight
  HoldFollowsMovement
  SentOnce
  FailedNeverMoves
  BookedWasMoved
  NeverOverdrawn
  BooksFollowEngine
PROPERTIES
  MovementFinal
  ImplementsLedger
SYMMETRY RequestSymmetry
CHECK_DEADLOCK FALSE
