----------------------------- MODULE MCAllocation -----------------------------
(* One follower, one leader, two ids: the pair is subscribed, ended and     *)
(* subscribed again while a request and both crons run.                  *)
EXTENDS Allocation
=============================================================================
