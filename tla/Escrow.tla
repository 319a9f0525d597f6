------------------------------- MODULE Escrow -------------------------------
(***************************************************************************)
(* What the ledger promises to whoever moves capital: money is either free  *)
(* or set aside for one payment; money set aside is paid or given back, once *)
(* and in full, and nobody spends money that is not free.                   *)
(***************************************************************************)
EXTENDS Integers

CONSTANTS
  Payment,   \* the payments money can be set aside for
  Amount     \* positive amounts

VARIABLES
  free,      \* money nobody has a claim on
  escrow     \* the state and the amount of each payment

escrowVars == <<free, escrow>>

NoClaim == [state |-> "none", amount |-> 0]
Claim == [state : {"held", "paid", "returned"}, amount : Amount] \cup {NoClaim}

EscrowInit ==
  /\ free = 0
  /\ escrow = [p \in Payment |-> NoClaim]

\* Money arrives.
Receive(a) ==
  /\ free' = free + a
  /\ UNCHANGED escrow

\* Free money is paid at once.
PayNow(p, a) ==
  /\ escrow[p] = NoClaim
  /\ a <= free
  /\ free' = free - a
  /\ escrow' = [escrow EXCEPT ![p] = [state |-> "paid", amount |-> a]]

SetAside(p, a) ==
  /\ escrow[p] = NoClaim
  /\ a <= free
  /\ free' = free - a
  /\ escrow' = [escrow EXCEPT ![p] = [state |-> "held", amount |-> a]]

PayOut(p) ==
  /\ escrow[p].state = "held"
  /\ escrow' = [escrow EXCEPT ![p].state = "paid"]
  /\ UNCHANGED free

GiveBack(p) ==
  /\ escrow[p].state = "held"
  /\ free' = free + escrow[p].amount
  /\ escrow' = [escrow EXCEPT ![p].state = "returned"]

EscrowNext ==
  \/ \E a \in Amount : Receive(a)
  \/ \E p \in Payment : PayOut(p) \/ GiveBack(p)
  \/ \E p \in Payment, a \in Amount : SetAside(p, a) \/ PayNow(p, a)

EscrowSpec == EscrowInit /\ [][EscrowNext]_escrowVars
=============================================================================
