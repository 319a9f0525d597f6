----------------------------- MODULE MCCapital ------------------------------
(* Small instances of Capital for TLC.                                        *)
EXTENDS Capital, TLC

CONSTANTS k1, k2, kf, kl, a1, a2, t1

MCTxKey == {"ldg", "pf"} \X Key
OneTrader == [acc \in MamAccount |-> t1]
NoKey == {}
RequestSymmetry == Permutations(Request)

\* Ordinary keys travel as they are.
Itself == [k \in Key |-> k]

\* k2 is k1 with a trailing space, kf is all spaces.
PaddedOrBlank == [k \in Key |-> IF k = k2 THEN k1 ELSE IF k = kf THEN Blank ELSE k]
OneLongKey == {kl}

Calls(op, keys, accounts, amounts) ==
  [op : {op}, key : keys, account : accounts, amount : amounts]

\* Deposits race on one account; a key of theirs is used again for withdrawals,
\* one of them from another account of the same trader.
MixedCalls == Calls("DEPOSIT", {k1, k2}, {a1}, {2})
              \cup Calls("WITHDRAWAL", {k2}, {a1, a2}, {1})

Deposits == Calls("DEPOSIT", {k1, k2}, {a1}, {1})
Withdrawals == Calls("WITHDRAWAL", {k1, k2}, {a1}, {1})

\* Two keys that differ by a space deposit and withdraw, the padded one also
\* another amount; a key too long for the ledger and a key of spaces try both.
OddCalls == Deposits \cup Withdrawals \cup Calls("WITHDRAWAL", {k2}, {a1}, {2})
            \cup Calls("DEPOSIT", {kf, kl}, {a1}, {1})
            \cup Calls("WITHDRAWAL", {kf, kl}, {a2}, {1})
=============================================================================
