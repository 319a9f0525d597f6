---------------------------- MODULE MCFundingOtp ----------------------------
(* Small instance of FundingOtp for TLC.                                      *)
EXTENDS FundingOtp, TLC

RequestSymmetry == Permutations(Request)
=============================================================================
