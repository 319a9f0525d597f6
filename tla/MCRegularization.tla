--------------------------- MODULE MCRegularization -------------------------
(* Small instance of Regularization for TLC: an account that received money    *)
(* from the broker, returned some, and was funded before it was imported.      *)
EXTENDS Regularization, TLC

CONSTANTS k1, kf, a1, t1

MCTxKey == ({"ldg", "pf"} \X Key) \cup ({"regularize"} \X (EngineKey \cup {"x1", "x2", "x3"}))
OneTrader == [acc \in MamAccount |-> t1]
NoKey == {}
Itself == [k \in Key |-> k]
SweepSymmetry == Permutations(Sweep)

PastRow(id, type, amount, incoming) ==
  [id |-> id, type |-> type, account |-> a1, amount |-> amount, incoming |-> incoming]
MCPast == [x1 |-> PastRow("x1", "EXTERNAL", 2, TRUE), x2 |-> PastRow("x2", "EXTERNAL", 1, FALSE),
           x3 |-> PastRow("x3", "OWN", 1, TRUE)]

OneDeposit == [op : {"DEPOSIT"}, key : {k1}, account : {a1}, amount : {1}]
OneOfEach == OneDeposit \cup [op : {"WITHDRAWAL"}, key : {k1}, account : {a1}, amount : {1}]
=============================================================================
