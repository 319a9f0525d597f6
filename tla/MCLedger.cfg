SPECIFICATION LedgerSpec
CONSTANTS
  Trader = {t1, t2}
  NoTrader = NoTrader
  TxKey = {k1, k2, k3}
  Amount = {1, 2}
INVARIANTS
  LedgerTypeOK
  Solvent
  HoldsMatch
  BooksMatch
PROPERTIES
  TxFinal
  ImplementsEscrow
SYMMETRY Symmetry
