------------------------------ MODULE MCLedger ------------------------------
(* Small instance of Ledger for TLC: keys and traders are interchangeable.    *)
EXTENDS Ledger, TLC

Symmetry == Permutations(TxKey) \cup Permutations(Trader)
=============================================================================
