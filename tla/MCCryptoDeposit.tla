--------------------------- MODULE MCCryptoDeposit --------------------------
(* Small instance of CryptoDeposit for TLC: h1 pays, h2 reverts, and the      *)
(* amounts declared are right or wrong.                                       *)
EXTENDS CryptoDeposit, TLC

CONSTANTS h1, h2

MCPaid == [h \in Hash |-> IF h = h1 THEN 2 ELSE 1]
RequestSymmetry == Permutations(Request)
=============================================================================
