----------------------------- MODULE MCApiUsers -----------------------------
(* Small instance of ApiUsers for TLC.                                     *)
EXTENDS ApiUsers, TLC

Symmetric == Permutations(Client) \cup Permutations(Key)
=============================================================================
