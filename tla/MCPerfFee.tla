----------------------------- MODULE MCPerfFee ------------------------------
(* Small instance of PerfFee for TLC: one client, who pays two fees, one to *)
(* each of two strategies, which is as many as a listing holds.             *)
EXTENDS PerfFee

CONSTANTS p1, p2, t1, m1, m2

TwoMasters == [i \in {p1, p2} |-> IF i = p1 THEN m1 ELSE m2]
OneOwner == [i \in {p1, p2} |-> t1]
Amounts == [i \in {p1, p2} |-> IF i = p1 THEN 1 ELSE 2]
=============================================================================
