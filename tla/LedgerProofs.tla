---------------------------- MODULE LedgerProofs ----------------------------
(***************************************************************************)
(* The invariants of Ledger, and its refinement of Escrow, for any traders,  *)
(* keys and amounts.                                                       *)
(*                                                                         *)
(* The sums of Ledger are cardinalities of sets of units.  The first part   *)
(* says how such a sum changes when one transaction is written; it speaks of *)
(* a function T from keys to transactions instead of the variable tx, so    *)
(* that it can be applied to tx, to tx' and to what lies between them.      *)
(***************************************************************************)
EXTENDS Ledger, FiniteSetTheorems, TLAPS

UnitsIn(T, S) == UNION {{k} \X (1 .. T[k].amount) : k \in S}
Sum(T, S) == Cardinality(UnitsIn(T, S))

HeldIn(T) == {k \in TxKey : T[k].status = "PENDING"}
BookedIn(T, kind) == {k \in TxKey : T[k].status = "POSTED" /\ T[k].kind = kind}
BookedForIn(T, kind, t) == {k \in BookedIn(T, kind) : T[k].trader = t}

Txs == [TxKey -> Transaction \cup {NoTx}]

\* Only finitely many units exist, so that the sums are numbers.
FiniteIn(T) == IsFiniteSet(UnitsIn(T, TxKey))

-----------------------------------------------------------------------------
(* Sums *)

\* What the units of a set of transactions are.
LEMMA UnitsInMembers ==
  ASSUME NEW T, NEW S, NEW p
  PROVE  p \in UnitsIn(T, S) <=> \E k \in S : \E i \in 1 .. T[k].amount : p = <<k, i>>
BY DEF UnitsIn

\* The amounts are natural numbers.
LEMMA AmountsAreNat ==
  ASSUME NEW T \in Txs, NEW k \in TxKey
  PROVE  T[k].amount \in Nat
<1>1. CASE T[k] = NoTx
  BY <1>1 DEF NoTx
<1>2. CASE T[k] # NoTx
  <2>1. T[k] \in Transaction
    BY <1>2 DEF Txs
  <2>2. T[k].amount \in Amount
    BY <2>1 DEF Transaction
  <2>3. QED
    BY <2>2, AmountAssumption
<1>3. QED
  BY <1>1, <1>2

\* A sum over some of the keys is a natural number, if there are finitely many units.
LEMMA SumIsNat ==
  ASSUME NEW T, NEW S \in SUBSET TxKey, FiniteIn(T)
  PROVE  IsFiniteSet(UnitsIn(T, S)) /\ Sum(T, S) \in Nat
<1>1. UnitsIn(T, S) \subseteq UnitsIn(T, TxKey)
  BY DEF UnitsIn
<1>2. IsFiniteSet(UnitsIn(T, S))
  BY <1>1, FS_Subset DEF FiniteIn
<1>3. QED
  BY <1>2, FS_CardinalityType DEF Sum

\* One transaction's units.
LEMMA UnitsOfOne ==
  ASSUME NEW k, NEW a \in Nat
  PROVE  IsFiniteSet({k} \X (1 .. a)) /\ Cardinality({k} \X (1 .. a)) = a
<1>1. IsFiniteSet({k}) /\ Cardinality({k}) = 1
  BY FS_Singleton
<1>2. IsFiniteSet(1 .. a) /\ Cardinality(1 .. a) = a
  BY FS_Interval
<1> DEFINE Row == 1 .. a
<1> HIDE DEF Row
<1>3. IsFiniteSet({k} \X Row) /\ Cardinality({k} \X Row) = Cardinality({k}) * Cardinality(Row)
  <2>1. IsFiniteSet(Row)
    BY <1>2 DEF Row
  <2>2. QED
    BY <1>1, <2>1, FS_Product
<1>4. Cardinality({k}) * Cardinality(Row) = a
  BY <1>1, <1>2 DEF Row
<1>5. QED
  BY <1>3, <1>4 DEF Row

\* T and T2 agree on the amounts of S;  S2 is S with k besides.
Agree(T, T2, S) == \A j \in S : T2[j].amount = T[j].amount
Joins(S, k, S2) == k \notin S /\ S2 = S \cup {k}

\* A sum over the same keys with the same amounts is the same sum.
LEMMA SumSame ==
  ASSUME NEW T, NEW T2, NEW S, Agree(T, T2, S)
  PROVE  UnitsIn(T2, S) = UnitsIn(T, S) /\ Sum(T2, S) = Sum(T, S)
BY DEF UnitsIn, Sum, Agree

\* A key that joins adds its amount.
LEMMA SumAdd ==
  ASSUME NEW T, NEW T2, NEW S, NEW S2, NEW k, Joins(S, k, S2), Agree(T, T2, S),
         NEW a \in Nat, T2[k].amount = a,
         IsFiniteSet(UnitsIn(T, S))
  PROVE  Sum(T2, S2) = Sum(T, S) + a
<1> DEFINE Old == UnitsIn(T, S)
           One == {k} \X (1 .. a)
           c == Cardinality(Old)
           n == Cardinality(One)
           m == Cardinality(Old \cap One)
<1>1. UnitsIn(T2, S2) = Old \cup One
  <2>1. UnitsIn(T2, S2) = UnitsIn(T2, S) \cup One
    BY DEF UnitsIn, Joins
  <2>2. QED
    BY <2>1, SumSame
<1>2. Old \cap One = {}
  BY DEF UnitsIn, Joins
<1>3. IsFiniteSet(One) /\ n = a
  BY UnitsOfOne
<1>4. c \in Nat
  BY FS_CardinalityType
<1>5. m = 0
  BY <1>2, FS_EmptySet
<1>6. IsFiniteSet(Old \cup One) /\ Cardinality(Old \cup One) = c + n - m
  BY <1>3, FS_Union
<1>7. c + n - m = c + a
  <2> HIDE DEF c, n, m
  <2>1. QED
    BY <1>3, <1>4, <1>5
<1>8. QED
  BY <1>1, <1>6, <1>7, Zenon DEF Sum

\* A key that leaves takes its amount away.
LEMMA SumRemove ==
  ASSUME NEW T, NEW T2, NEW S, NEW S2, NEW k, Joins(S2, k, S), Agree(T, T2, S2),
         NEW a \in Nat, T[k].amount = a,
         IsFiniteSet(UnitsIn(T, S))
  PROVE  Sum(T2, S2) = Sum(T, S) - a
<1>1. IsFiniteSet(UnitsIn(T2, S2))
  <2>1. UnitsIn(T2, S2) \subseteq UnitsIn(T, S)
    BY DEF UnitsIn, Joins, Agree
  <2>2. QED
    BY <2>1, FS_Subset
<1>2. Agree(T2, T, S2)
  BY DEF Agree
<1>3. Sum(T, S) = Sum(T2, S2) + a
  BY <1>1, <1>2, SumAdd
<1>4. Sum(T2, S2) \in Nat
  BY <1>1, FS_CardinalityType DEF Sum
<1>5. QED
  BY <1>3, <1>4

-----------------------------------------------------------------------------
(* One transaction is written *)

Wrote(T, k, r, T2) == T2 = [T EXCEPT ![k] = r]

\* What writing one transaction does to the table.
LEMMA Write ==
  ASSUME NEW T \in Txs, FiniteIn(T), NEW k \in TxKey, NEW r \in Transaction,
         NEW T2, Wrote(T, k, r, T2)
  PROVE  /\ T2 \in Txs /\ FiniteIn(T2)
         /\ T2[k] = r
         /\ \A j \in TxKey \ {k} : T2[j] = T[j]
<1>1. T2 \in Txs /\ T2[k] = r /\ \A j \in TxKey \ {k} : T2[j] = T[j]
  BY DEF Txs, Wrote
<1>2. IsFiniteSet({k} \X (1 .. r.amount))
  <2>1. r.amount \in Nat
    BY AmountAssumption DEF Transaction
  <2>2. QED
    BY <2>1, UnitsOfOne
<1>3. UnitsIn(T2, TxKey) \subseteq UnitsIn(T, TxKey) \cup ({k} \X (1 .. r.amount))
  BY <1>1 DEF UnitsIn
<1>4. FiniteIn(T2)
  BY <1>2, <1>3, FS_Union, FS_Subset DEF FiniteIn
<1>5. QED
  BY <1>1, <1>4

\* What a reservation, a posting and a release do to the sum of what is held.
LEMMA HoldOpens ==
  ASSUME NEW T \in Txs, FiniteIn(T), NEW k \in TxKey, NEW r \in Transaction,
         NEW T2, Wrote(T, k, r, T2),
         T[k].status # "PENDING", r.status = "PENDING"
  PROVE  Sum(T2, HeldIn(T2)) = Sum(T, HeldIn(T)) + r.amount
<1> DEFINE S == HeldIn(T)
           S2 == HeldIn(T2)
<1>1. T2[k] = r /\ \A j \in TxKey \ {k} : T2[j] = T[j]
  BY DEF Txs, Wrote
<1>2. Joins(S, k, S2)
  BY <1>1 DEF HeldIn, Joins
<1>3. Agree(T, T2, S)
  BY <1>1 DEF HeldIn, Agree
<1> DEFINE a == r.amount
<1>4. a \in Nat /\ T2[k].amount = a /\ IsFiniteSet(UnitsIn(T, S))
  BY <1>1, SumIsNat, AmountAssumption DEF HeldIn, Transaction
<1> HIDE DEF S, S2, a
<1>5. Sum(T2, S2) = Sum(T, S) + a
  BY ONLY <1>2, <1>3, <1>4, SumAdd
<1>6. QED
  BY <1>5 DEF S, S2, a

\* Closing a reservation takes its amount from what is open.
LEMMA HoldCloses ==
  ASSUME NEW T \in Txs, FiniteIn(T), NEW k \in TxKey, NEW r \in Transaction,
         NEW T2, Wrote(T, k, r, T2),
         T[k].status = "PENDING", r.status # "PENDING"
  PROVE  Sum(T2, HeldIn(T2)) = Sum(T, HeldIn(T)) - T[k].amount
<1>1. T2[k] = r /\ \A j \in TxKey \ {k} : T2[j] = T[j]
  BY DEF Txs, Wrote
<1> DEFINE S == HeldIn(T)
           S2 == HeldIn(T2)
<1>2. Joins(S2, k, S)
  BY <1>1 DEF HeldIn, Joins
<1>3. Agree(T, T2, S2)
  BY <1>1 DEF HeldIn, Agree
<1>4. T[k].amount \in Nat /\ IsFiniteSet(UnitsIn(T, S))
  BY AmountsAreNat, SumIsNat DEF HeldIn
<1> HIDE DEF S, S2
<1>5. Sum(T2, S2) = Sum(T, S) - T[k].amount
  BY <1>2, <1>3, <1>4, SumRemove
<1>6. QED
  BY <1>5 DEF S, S2

\* A transaction that is not open leaves what is open alone.
LEMMA HoldKept ==
  ASSUME NEW T \in Txs, FiniteIn(T), NEW k \in TxKey, NEW r \in Transaction,
         NEW T2, Wrote(T, k, r, T2),
         T[k].status # "PENDING", r.status # "PENDING"
  PROVE  Sum(T2, HeldIn(T2)) = Sum(T, HeldIn(T))
<1>1. T2[k] = r /\ \A j \in TxKey \ {k} : T2[j] = T[j]
  BY DEF Txs, Wrote
<1>2. HeldIn(T2) = HeldIn(T)
  BY <1>1 DEF HeldIn
<1>3. Agree(T, T2, HeldIn(T))
  BY <1>1 DEF HeldIn, Agree
<1>4. Sum(T2, HeldIn(T)) = Sum(T, HeldIn(T))
  BY <1>3, SumSame
<1>5. QED
  BY <1>2, <1>4, Zenon

\* A posting adds its amount to the sums of its own kind and of its own trader.
Share(r, kind) == IF r.kind = kind THEN r.amount ELSE 0
ShareFor(r, kind, t) == IF r.kind = kind /\ r.trader = t THEN r.amount ELSE 0

\* What posting one transaction adds to what is booked.
LEMMA PostAdds ==
  ASSUME NEW T \in Txs, FiniteIn(T), NEW k \in TxKey, NEW r \in Transaction,
         NEW T2, Wrote(T, k, r, T2),
         T[k].status # "POSTED", r.status = "POSTED", NEW kind
  PROVE  /\ Sum(T2, BookedIn(T2, kind)) = Sum(T, BookedIn(T, kind)) + Share(r, kind)
         /\ \A t : Sum(T2, BookedForIn(T2, kind, t))
                   = Sum(T, BookedForIn(T, kind, t)) + ShareFor(r, kind, t)
<1>1. T2[k] = r /\ \A j \in TxKey \ {k} : T2[j] = T[j]
  BY DEF Txs, Wrote
<1> DEFINE a == r.amount
<1>2. a \in Nat /\ T2[k].amount = a
  BY <1>1, AmountAssumption DEF Transaction
<1> HIDE DEF a
<1>3. ASSUME NEW S \in SUBSET TxKey, NEW S2 \in SUBSET TxKey, k \notin S,
             S2 = S \/ Joins(S, k, S2)
      PROVE  Sum(T2, S2) = Sum(T, S) + IF S2 = S THEN 0 ELSE a
  <2>1. Agree(T, T2, S)
    BY <1>1, <1>3 DEF Agree
  <2>2. IsFiniteSet(UnitsIn(T, S)) /\ Sum(T, S) \in Nat
    BY SumIsNat
  <2>3. CASE S2 = S
    <3>1. Sum(T2, S) = Sum(T, S)
      BY <2>1, SumSame
    <3>2. QED
      BY <2>2, <2>3, <3>1
  <2>4. CASE Joins(S, k, S2)
    <3>1. Sum(T2, S2) = Sum(T, S) + a
      BY ONLY <1>2, <2>1, <2>2, <2>4, SumAdd
    <3>2. S2 # S
      BY <2>4 DEF Joins
    <3>3. QED
      BY <3>1, <3>2
  <2>5. QED
    BY <1>3, <2>3, <2>4
<1>4. Sum(T2, BookedIn(T2, kind)) = Sum(T, BookedIn(T, kind)) + Share(r, kind)
  <2> DEFINE S == BookedIn(T, kind)
             S2 == BookedIn(T2, kind)
  <2>1. k \notin S /\ S \in SUBSET TxKey /\ S2 \in SUBSET TxKey
    BY DEF BookedIn
  <2>2. IF r.kind = kind THEN Joins(S, k, S2) ELSE S2 = S
    BY <1>1 DEF Joins, BookedIn
  <2> HIDE DEF S, S2
  <2>3. Sum(T2, S2) = Sum(T, S) + IF S2 = S THEN 0 ELSE a
    BY <1>3, <2>1, <2>2
  <2>4. S2 = S <=> r.kind # kind
    BY <2>1, <2>2 DEF Joins
  <2>5. QED
    BY <2>3, <2>4 DEF S, S2, a, Share
<1>5. ASSUME NEW t
      PROVE  Sum(T2, BookedForIn(T2, kind, t)) = Sum(T, BookedForIn(T, kind, t)) + ShareFor(r, kind, t)
  <2> DEFINE S == BookedForIn(T, kind, t)
             S2 == BookedForIn(T2, kind, t)
  <2>1. k \notin S /\ S \in SUBSET TxKey /\ S2 \in SUBSET TxKey
    BY DEF BookedIn, BookedForIn
  <2>2. IF r.kind = kind /\ r.trader = t THEN Joins(S, k, S2) ELSE S2 = S
    BY <1>1 DEF Joins, BookedIn, BookedForIn
  <2> HIDE DEF S, S2
  <2>3. Sum(T2, S2) = Sum(T, S) + IF S2 = S THEN 0 ELSE a
    BY <1>3, <2>1, <2>2
  <2>4. S2 = S <=> ~(r.kind = kind /\ r.trader = t)
    BY <2>1, <2>2 DEF Joins
  <2>5. QED
    BY <2>3, <2>4 DEF S, S2, a, ShareFor
<1>6. QED
  BY <1>4, <1>5

\* A write that posts nothing leaves the booked sums alone.
LEMMA PostKept ==
  ASSUME NEW T \in Txs, FiniteIn(T), NEW k \in TxKey, NEW r \in Transaction,
         NEW T2, Wrote(T, k, r, T2),
         T[k].status # "POSTED", r.status # "POSTED", NEW kind
  PROVE  /\ Sum(T2, BookedIn(T2, kind)) = Sum(T, BookedIn(T, kind))
         /\ \A t : Sum(T2, BookedForIn(T2, kind, t)) = Sum(T, BookedForIn(T, kind, t))
<1>1. T2[k] = r /\ \A j \in TxKey \ {k} : T2[j] = T[j]
  BY DEF Txs, Wrote
<1>2. /\ BookedIn(T2, kind) = BookedIn(T, kind)
      /\ \A t : BookedForIn(T2, kind, t) = BookedForIn(T, kind, t)
  BY <1>1 DEF BookedIn, BookedForIn
<1>3. /\ Agree(T, T2, BookedIn(T, kind))
      /\ \A t : Agree(T, T2, BookedForIn(T, kind, t))
  BY <1>1 DEF BookedIn, BookedForIn, Agree
<1>4. Sum(T2, BookedIn(T, kind)) = Sum(T, BookedIn(T, kind))
  BY <1>3, SumSame
<1>5. \A t : Sum(T2, BookedForIn(T, kind, t)) = Sum(T, BookedForIn(T, kind, t))
  BY <1>3, SumSame
<1>6. QED
  BY <1>2, <1>4, <1>5, Zenon

-----------------------------------------------------------------------------
(* The invariant, for a function T from keys to transactions, a map b from   *)
(* accounts to balances and the amount p of pending_debit *)

FUNDING == "MASTER_ACCOUNT_FUNDING"
DEPOSIT == "TRADER_DEPOSIT"
WITHDRAWAL == "TRADER_WITHDRAWAL"
FEE == "PERF_FEE"

\* An open transaction is a reservation for some trader.
OpenIsDeposit(T) ==
  \A k \in TxKey : T[k].status = "PENDING" => T[k].kind = DEPOSIT /\ T[k].trader \in Trader

TxInv(T) == T \in Txs /\ FiniteIn(T) /\ OpenIsDeposit(T)

\* 0 <= p is not inductive: a release or a commit lowers p, which stays above
\* zero because it is the sum of the open reservations, that one included.
HoldInv(T, b, p) == p = Sum(T, HeldIn(T)) /\ p <= b[MASTER]

BooksIn(T, b) ==
  /\ b[MASTER] = Sum(T, BookedIn(T, FUNDING)) + Sum(T, BookedIn(T, WITHDRAWAL))
                 - Sum(T, BookedIn(T, DEPOSIT))
  /\ b[EXTERNAL] = 0 - Sum(T, BookedIn(T, FUNDING))
  /\ b[FEES] = Sum(T, BookedIn(T, FEE))
  /\ \A t \in Trader :
       b[t] = Sum(T, BookedForIn(T, DEPOSIT, t)) - Sum(T, BookedForIn(T, WITHDRAWAL, t))
              - Sum(T, BookedForIn(T, FEE, t))

\* What posting r does to the balances.
Effect(r, b, b2) ==
  /\ b2[MASTER] = b[MASTER] + Share(r, FUNDING) + Share(r, WITHDRAWAL) - Share(r, DEPOSIT)
  /\ b2[EXTERNAL] = b[EXTERNAL] - Share(r, FUNDING)
  /\ b2[FEES] = b[FEES] + Share(r, FEE)
  /\ \A t \in Trader :
       b2[t] = b[t] + ShareFor(r, DEPOSIT, t) - ShareFor(r, WITHDRAWAL, t) - ShareFor(r, FEE, t)

\* The invariant after one transaction is written.
LEMMA WriteInv ==
  ASSUME NEW T, TxInv(T), NEW k \in TxKey, NEW r \in Transaction, NEW T2, Wrote(T, k, r, T2),
         r.status = "PENDING" => r.kind = DEPOSIT /\ r.trader \in Trader
  PROVE  TxInv(T2)
<1>1. T \in Txs /\ FiniteIn(T)
  BY DEF TxInv
<1>2. T2 \in Txs /\ FiniteIn(T2) /\ T2[k] = r /\ \A j \in TxKey \ {k} : T2[j] = T[j]
  BY <1>1, Write
<1>3. OpenIsDeposit(T2)
  BY <1>2 DEF TxInv, OpenIsDeposit
<1>4. QED
  BY <1>2, <1>3 DEF TxInv

\* The booked sums are natural numbers.
LEMMA BookedIsNat ==
  ASSUME NEW T, TxInv(T), NEW kind
  PROVE  /\ Sum(T, BookedIn(T, kind)) \in Nat
         /\ \A t : Sum(T, BookedForIn(T, kind, t)) \in Nat
<1>1. BookedIn(T, kind) \in SUBSET TxKey /\ \A t : BookedForIn(T, kind, t) \in SUBSET TxKey
  BY DEF BookedIn, BookedForIn
<1>2. FiniteIn(T)
  BY DEF TxInv
<1>3. QED
  BY <1>1, <1>2, SumIsNat

\* Posting a transaction with its effect on the balances keeps the books.
LEMMA PostKeepsBooks ==
  ASSUME NEW T, TxInv(T), NEW k \in TxKey, NEW r \in Transaction, NEW T2, Wrote(T, k, r, T2),
         T[k].status # "POSTED", r.status = "POSTED",
         NEW b, NEW b2, BooksIn(T, b), Effect(r, b, b2)
  PROVE  BooksIn(T2, b2)
<1>1. T \in Txs /\ FiniteIn(T)
  BY DEF TxInv
<1>2. \A kind : /\ Sum(T2, BookedIn(T2, kind)) = Sum(T, BookedIn(T, kind)) + Share(r, kind)
               /\ \A t : Sum(T2, BookedForIn(T2, kind, t))
                         = Sum(T, BookedForIn(T, kind, t)) + ShareFor(r, kind, t)
  BY <1>1, PostAdds
<1>3. \A kind : /\ Sum(T, BookedIn(T, kind)) \in Nat
               /\ \A t : Sum(T, BookedForIn(T, kind, t)) \in Nat
  BY BookedIsNat
<1>4. \A kind : Share(r, kind) \in Nat /\ \A t : ShareFor(r, kind, t) \in Nat
  BY AmountAssumption DEF Share, ShareFor, Transaction
<1>5. QED
  BY <1>2, <1>3, <1>4 DEF BooksIn, Effect

-----------------------------------------------------------------------------
(* The steps *)

Inv(T, b, p) ==
  /\ b \in [LedgerAccount -> Int] /\ p \in Int
  /\ TxInv(T) /\ HoldInv(T, b, p) /\ BooksIn(T, b)

LedgerInv == Inv(tx, balance, pendingDebit)

\* The accounts are all different.
LEMMA Accounts ==
  /\ MASTER \in LedgerAccount /\ EXTERNAL \in LedgerAccount /\ FEES \in LedgerAccount
  /\ MASTER # EXTERNAL /\ MASTER # FEES /\ EXTERNAL # FEES
  /\ \A t \in Trader : t \in LedgerAccount /\ t # MASTER /\ t # EXTERNAL /\ t # FEES
BY TraderAssumption DEF LedgerAccount, Global, MASTER, EXTERNAL, FEES

\* A key without a status has no transaction; the others have one.
LEMMA Known ==
  ASSUME NEW T \in Txs, NEW k \in TxKey
  PROVE  /\ T[k].status \in {"NONE", "PENDING", "POSTED", "FAILED"}
         /\ T[k].status = "NONE" <=> T[k] = NoTx
         /\ T[k].status # "NONE" => T[k] \in Transaction
<1>1. T[k] = NoTx => T[k].status = "NONE"
  BY DEF NoTx
<1>2. T[k] # NoTx => T[k] \in Transaction
  BY DEF Txs
<1>3. T[k] \in Transaction => T[k].status \in {"PENDING", "POSTED", "FAILED"}
  BY DEF Transaction, TxStatus
<1>4. QED
  BY <1>1, <1>2, <1>3

\* The sum of what is held is a natural number.
LEMMA HeldIsNat ==
  ASSUME NEW T, TxInv(T)
  PROVE  Sum(T, HeldIn(T)) \in Nat
<1>1. HeldIn(T) \in SUBSET TxKey /\ FiniteIn(T)
  BY DEF HeldIn, TxInv
<1>2. QED
  BY <1>1, SumIsNat

\* A reservation that the available balance covers.
LEMMA OpenStep ==
  ASSUME NEW T, NEW b, NEW p, Inv(T, b, p), NEW k \in TxKey, NEW r \in Transaction,
         T[k] = NoTx, r.status = "PENDING", r.kind = DEPOSIT, r.trader \in Trader,
         r.amount <= b[MASTER] - p,
         NEW T2, Wrote(T, k, r, T2)
  PROVE  Inv(T2, b, p + r.amount)
<1>1. TxInv(T) /\ T \in Txs /\ FiniteIn(T) /\ T[k].status \notin {"PENDING", "POSTED"}
  BY Known DEF Inv, TxInv
<1>2. TxInv(T2)
  BY <1>1, WriteInv
<1>3. Sum(T2, HeldIn(T2)) = Sum(T, HeldIn(T)) + r.amount
  BY <1>1, HoldOpens
<1>4. r.amount \in Nat
  BY AmountAssumption DEF Transaction
<1>5. HoldInv(T2, b, p + r.amount)
  BY <1>3, <1>4, Accounts DEF HoldInv, Inv
<1>6. \A kind : /\ Sum(T2, BookedIn(T2, kind)) = Sum(T, BookedIn(T, kind))
               /\ \A t : Sum(T2, BookedForIn(T2, kind, t)) = Sum(T, BookedForIn(T, kind, t))
  BY <1>1, PostKept
<1>7. BooksIn(T2, b)
  BY <1>6 DEF BooksIn, Inv
<1>8. QED
  BY <1>2, <1>4, <1>5, <1>7 DEF Inv

\* A reservation is released.
LEMMA ReleaseStep ==
  ASSUME NEW T, NEW b, NEW p, Inv(T, b, p), NEW k \in TxKey, T[k].status = "PENDING",
         NEW T2, Wrote(T, k, [T[k] EXCEPT !.status = "FAILED"], T2)
  PROVE  Inv(T2, b, p - T[k].amount)
<1> DEFINE r == [T[k] EXCEPT !.status = "FAILED"]
           a == T[k].amount
<1>1. TxInv(T) /\ T \in Txs /\ FiniteIn(T) /\ T[k] \in Transaction
  BY Known DEF Inv, TxInv
<1>2. /\ r \in Transaction /\ r.status \notin {"PENDING", "POSTED"}
      /\ T[k].status # "POSTED" /\ Wrote(T, k, r, T2)
  BY <1>1 DEF Transaction, TxStatus
<1> HIDE DEF r
<1>3. TxInv(T2)
  BY <1>1, <1>2, WriteInv DEF r
<1>4. Sum(T2, HeldIn(T2)) = Sum(T, HeldIn(T)) - a
  BY <1>1, <1>2, HoldCloses DEF r
<1>5. a \in Nat
  BY <1>1, AmountsAreNat
<1>6. HoldInv(T2, b, p - a)
  BY <1>4, <1>5, Accounts DEF HoldInv, Inv
<1>7. \A kind : /\ Sum(T2, BookedIn(T2, kind)) = Sum(T, BookedIn(T, kind))
               /\ \A t : Sum(T2, BookedForIn(T2, kind, t)) = Sum(T, BookedForIn(T, kind, t))
  BY ONLY <1>1, <1>2, k \in TxKey, PostKept
<1>8. BooksIn(T2, b)
  BY <1>7 DEF BooksIn, Inv
<1>9. QED
  BY <1>3, <1>5, <1>6, <1>8 DEF Inv

\* A reservation is committed: its money leaves for the trader's holdings.
LEMMA CommitStep ==
  ASSUME NEW T, NEW b, NEW p, Inv(T, b, p), NEW k \in TxKey, T[k].status = "PENDING",
         NEW T2, Wrote(T, k, [T[k] EXCEPT !.status = "POSTED"], T2),
         NEW b2, b2 = [b EXCEPT ![MASTER] = @ - T[k].amount, ![T[k].trader] = @ + T[k].amount]
  PROVE  Inv(T2, b2, p - T[k].amount)
<1> DEFINE r == [T[k] EXCEPT !.status = "POSTED"]
           a == T[k].amount
           t == T[k].trader
<1>1. /\ TxInv(T) /\ T \in Txs /\ FiniteIn(T) /\ T[k] \in Transaction
      /\ T[k].kind = DEPOSIT /\ t \in Trader
  BY Known DEF Inv, TxInv, OpenIsDeposit
<1>2. /\ r \in Transaction /\ r.status = "POSTED" /\ r.kind = DEPOSIT
      /\ r.trader = t /\ r.amount = a
      /\ T[k].status # "POSTED" /\ Wrote(T, k, r, T2)
  BY <1>1 DEF Transaction, TxStatus
<1> HIDE DEF r
<1>3. TxInv(T2)
  BY <1>1, <1>2, WriteInv DEF r
<1>4. Sum(T2, HeldIn(T2)) = Sum(T, HeldIn(T)) - a
  BY <1>1, <1>2, HoldCloses DEF r
<1>5. a \in Nat
  BY <1>1, AmountsAreNat
<1>6. /\ b2 \in [LedgerAccount -> Int]
      /\ b2[MASTER] = b[MASTER] - a /\ b2[t] = b[t] + a
      /\ \A c \in LedgerAccount \ {MASTER, t} : b2[c] = b[c]
  BY <1>1, <1>5, Accounts DEF Inv
<1>7. HoldInv(T2, b2, p - a)
  BY <1>4, <1>5, <1>6, Accounts DEF HoldInv, Inv
<1>8. Effect(r, b, b2)
  BY <1>1, <1>2, <1>5, <1>6, Accounts
     DEF Effect, Share, ShareFor, Inv, FUNDING, DEPOSIT, WITHDRAWAL, FEE
<1>9. BooksIn(T2, b2)
  <2>1. BooksIn(T, b)
    BY DEF Inv
  <2>2. QED
    BY ONLY <1>1, <1>2, <1>8, <2>1, k \in TxKey, PostKeepsBooks
<1>10. QED
  BY <1>3, <1>5, <1>6, <1>7, <1>9 DEF Inv

\* A posting that is not the commit of a reservation, and that leaves in the
\* MASTER account what is reserved there.
LEMMA PostStep ==
  ASSUME NEW T, NEW b, NEW p, Inv(T, b, p), NEW k \in TxKey, NEW r \in Transaction,
         T[k] = NoTx, r.status = "POSTED",
         NEW T2, Wrote(T, k, r, T2),
         NEW b2 \in [LedgerAccount -> Int], Effect(r, b, b2), p <= b2[MASTER]
  PROVE  Inv(T2, b2, p)
<1>1. TxInv(T) /\ T \in Txs /\ FiniteIn(T) /\ T[k].status \notin {"PENDING", "POSTED"}
  BY Known DEF Inv, TxInv
<1>2. TxInv(T2)
  BY <1>1, WriteInv
<1>3. Sum(T2, HeldIn(T2)) = Sum(T, HeldIn(T))
  BY <1>1, HoldKept
<1>4. HoldInv(T2, b2, p)
  BY <1>3 DEF HoldInv, Inv
<1>5. BooksIn(T2, b2)
  BY <1>1, PostKeepsBooks DEF Inv
<1>6. QED
  BY <1>2, <1>4, <1>5 DEF Inv

-----------------------------------------------------------------------------
(* Several transactions are posted at once *)

\* T2 is T with a POSTED transaction under each key of K, which had none.
PostsAll(T, K, T2) ==
  /\ T2 \in Txs /\ IsFiniteSet(UnitsIn(T2, K))
  /\ \A k \in TxKey \ K : T2[k] = T[k]
  /\ \A k \in K : T[k] = NoTx /\ T2[k].status = "POSTED"

\* The keys of K by their kind, and by their trader.
KindIn(T, K, kind) == {k \in K : T[k].kind = kind}
KindForIn(T, K, kind, t) == {k \in KindIn(T, K, kind) : T[k].trader = t}

\* Two sums over different keys.
LEMMA SumJoin ==
  ASSUME NEW T, NEW S, NEW T2, NEW K, S \cap K = {}, Agree(T, T2, S),
         IsFiniteSet(UnitsIn(T, S)), IsFiniteSet(UnitsIn(T2, K))
  PROVE  /\ Sum(T2, S \cup K) = Sum(T, S) + Sum(T2, K)
         /\ IsFiniteSet(UnitsIn(T2, S \cup K))
         /\ Sum(T, S) \in Nat /\ Sum(T2, K) \in Nat
<1> DEFINE A == UnitsIn(T, S)
           B == UnitsIn(T2, K)
           a == Cardinality(A)
           c == Cardinality(B)
           n == Cardinality(A \cap B)
<1>1. UnitsIn(T2, S \cup K) = A \cup B
  <2>1. UnitsIn(T2, S \cup K) = UnitsIn(T2, S) \cup B
    BY DEF UnitsIn
  <2>2. QED
    BY <2>1, SumSame
<1>2. A \cap B = {}
  BY DEF UnitsIn
<1>3. a \in Nat /\ c \in Nat /\ n = 0
  BY <1>2, FS_CardinalityType, FS_EmptySet
<1>4. IsFiniteSet(A \cup B) /\ Cardinality(A \cup B) = a + c - n
  BY FS_Union
<1>5. a + c - n = a + c
  <2> HIDE DEF a, c, n
  <2>1. QED
    BY <1>3
<1>6. QED
  BY <1>1, <1>3, <1>4, <1>5, Zenon DEF Sum

\* A batch adds to each booked sum its own transactions of that kind.
LEMMA BatchSums ==
  ASSUME NEW T \in Txs, FiniteIn(T), NEW K \in SUBSET TxKey, NEW T2, PostsAll(T, K, T2), NEW kind
  PROVE  /\ Sum(T2, BookedIn(T2, kind))
            = Sum(T, BookedIn(T, kind)) + Sum(T2, KindIn(T2, K, kind))
         /\ \A t : Sum(T2, BookedForIn(T2, kind, t))
                   = Sum(T, BookedForIn(T, kind, t))
                     + Sum(T2, KindForIn(T2, K, kind, t))
<1>1. /\ \A k \in TxKey \ K : T2[k] = T[k]
      /\ \A k \in K : T[k].status # "POSTED" /\ T2[k].status = "POSTED"
  BY DEF PostsAll, NoTx
<1>2. ASSUME NEW S \in SUBSET TxKey, NEW J \in SUBSET K, S \cap K = {}
      PROVE  Sum(T2, S \cup J) = Sum(T, S) + Sum(T2, J)
  <2>1. Agree(T, T2, S) /\ S \cap J = {}
    BY <1>1, <1>2 DEF Agree
  <2>2. IsFiniteSet(UnitsIn(T, S))
    BY SumIsNat
  <2>3. IsFiniteSet(UnitsIn(T2, J))
    <3>1. UnitsIn(T2, J) \subseteq UnitsIn(T2, K)
      BY DEF UnitsIn
    <3>2. QED
      BY <3>1, FS_Subset DEF PostsAll
  <2>4. QED
    BY <2>1, <2>2, <2>3, SumJoin
<1>3. Sum(T2, BookedIn(T2, kind))
      = Sum(T, BookedIn(T, kind)) + Sum(T2, KindIn(T2, K, kind))
  <2> DEFINE S == BookedIn(T, kind)
             J == KindIn(T2, K, kind)
  <2>1. BookedIn(T2, kind) = S \cup J
    BY <1>1 DEF BookedIn, KindIn
  <2>2. S \in SUBSET TxKey /\ J \in SUBSET K /\ S \cap K = {}
    BY <1>1 DEF BookedIn, KindIn
  <2> HIDE DEF S, J
  <2>3. Sum(T2, S \cup J) = Sum(T, S) + Sum(T2, J)
    BY <1>2, <2>2
  <2>4. QED
    BY <2>1, <2>3, Zenon DEF S, J
<1>4. ASSUME NEW t
      PROVE  Sum(T2, BookedForIn(T2, kind, t))
             = Sum(T, BookedForIn(T, kind, t))
               + Sum(T2, KindForIn(T2, K, kind, t))
  <2> DEFINE S == BookedForIn(T, kind, t)
             J == KindForIn(T2, K, kind, t)
  <2>1. BookedForIn(T2, kind, t) = S \cup J
    BY <1>1 DEF BookedIn, BookedForIn, KindIn, KindForIn
  <2>2. S \in SUBSET TxKey /\ J \in SUBSET K /\ S \cap K = {}
    BY <1>1 DEF BookedIn, BookedForIn, KindIn, KindForIn
  <2> HIDE DEF S, J
  <2>3. Sum(T2, S \cup J) = Sum(T, S) + Sum(T2, J)
    BY <1>2, <2>2
  <2>4. QED
    BY <2>1, <2>3, Zenon DEF S, J
<1>5. QED
  BY <1>3, <1>4

\* A batch of deposits and withdrawals of one trader, of i and o cents, that
\* leaves in the MASTER account what is reserved there.
LEMMA BatchStep ==
  ASSUME NEW T, NEW b, NEW p, Inv(T, b, p), NEW K \in SUBSET TxKey, NEW T2, PostsAll(T, K, T2),
         NEW t \in Trader,
         \A k \in K : T2[k].trader = t /\ T2[k].kind \in {DEPOSIT, WITHDRAWAL},
         NEW i \in Nat, i = Sum(T2, KindIn(T2, K, DEPOSIT)),
         NEW o \in Nat, o = Sum(T2, KindIn(T2, K, WITHDRAWAL)),
         NEW b2 \in [LedgerAccount -> Int],
         b2[MASTER] = b[MASTER] - i + o, b2[t] = b[t] + i - o,
         \A c \in LedgerAccount \ {MASTER, t} : b2[c] = b[c],
         p <= b2[MASTER]
  PROVE  Inv(T2, b2, p)
<1>1. T \in Txs /\ FiniteIn(T) /\ TxInv(T) /\ b \in [LedgerAccount -> Int]
  BY DEF Inv, TxInv
<1>2. /\ T2 \in Txs
      /\ \A k \in TxKey \ K : T2[k] = T[k]
      /\ \A k \in K : T[k].status = "NONE" /\ T2[k].status = "POSTED"
  BY DEF PostsAll, NoTx
<1>3. TxInv(T2)
  <2>1. FiniteIn(T2)
    <3>1. UnitsIn(T2, TxKey) \subseteq UnitsIn(T, TxKey) \cup UnitsIn(T2, K)
      BY <1>2 DEF UnitsIn
    <3>2. QED
      BY <1>1, <3>1, FS_Union, FS_Subset DEF FiniteIn, PostsAll
  <2>2. OpenIsDeposit(T2)
    BY <1>1, <1>2 DEF TxInv, OpenIsDeposit
  <2>3. QED
    BY <1>2, <2>1, <2>2 DEF TxInv
<1>4. HoldInv(T2, b2, p)
  <2>1. HeldIn(T2) = HeldIn(T) /\ Agree(T, T2, HeldIn(T))
    BY <1>2 DEF HeldIn, Agree
  <2>2. Sum(T2, HeldIn(T)) = Sum(T, HeldIn(T))
    BY <2>1, SumSame
  <2>3. Sum(T2, HeldIn(T2)) = Sum(T, HeldIn(T))
    BY <2>1, <2>2, Zenon
  <2>4. QED
    BY <2>3 DEF HoldInv, Inv
<1>5. Sum(T2, {}) = 0
  BY FS_EmptySet DEF Sum, UnitsIn
<1>6. /\ KindIn(T2, K, FUNDING) = {} /\ KindIn(T2, K, FEE) = {}
      /\ \A u : KindForIn(T2, K, FEE, u) = {}
      /\ \A u : u # t => /\ KindForIn(T2, K, DEPOSIT, u) = {}
                         /\ KindForIn(T2, K, WITHDRAWAL, u) = {}
      /\ KindForIn(T2, K, DEPOSIT, t) = KindIn(T2, K, DEPOSIT)
      /\ KindForIn(T2, K, WITHDRAWAL, t)
         = KindIn(T2, K, WITHDRAWAL)
  BY DEF KindIn, KindForIn, FUNDING, FEE, DEPOSIT, WITHDRAWAL
<1>7. ASSUME NEW kind
       PROVE  /\ Sum(T, BookedIn(T, kind)) \in Nat
              /\ Sum(T2, BookedIn(T2, kind))
                 = Sum(T, BookedIn(T, kind)) + Sum(T2, KindIn(T2, K, kind))
  BY ONLY <1>1, K \in SUBSET TxKey, PostsAll(T, K, T2), BookedIsNat, BatchSums
<1>8. ASSUME NEW kind, NEW u
       PROVE  /\ Sum(T, BookedForIn(T, kind, u)) \in Nat
              /\ Sum(T2, BookedForIn(T2, kind, u))
                 = Sum(T, BookedForIn(T, kind, u)) + Sum(T2, KindForIn(T2, K, kind, u))
  <2>1. \A v : Sum(T, BookedForIn(T, kind, v)) \in Nat
    BY ONLY <1>1, BookedIsNat
  <2>2. \A v : Sum(T2, BookedForIn(T2, kind, v))
               = Sum(T, BookedForIn(T, kind, v)) + Sum(T2, KindForIn(T2, K, kind, v))
    BY ONLY <1>1, K \in SUBSET TxKey, PostsAll(T, K, T2), BatchSums
  <2>3. QED
    BY ONLY <2>1, <2>2
<1> DEFINE B == [kind \in {FUNDING, DEPOSIT, WITHDRAWAL, FEE} |-> Sum(T, BookedIn(T, kind))]
           B2 == [kind \in {FUNDING, DEPOSIT, WITHDRAWAL, FEE} |-> Sum(T2, BookedIn(T2, kind))]
<1>9. /\ B[FUNDING] \in Nat /\ B[DEPOSIT] \in Nat /\ B[WITHDRAWAL] \in Nat /\ B[FEE] \in Nat
      /\ B2[FUNDING] = B[FUNDING] + Sum(T2, KindIn(T2, K, FUNDING))
      /\ B2[FEE] = B[FEE] + Sum(T2, KindIn(T2, K, FEE))
      /\ B2[DEPOSIT] = B[DEPOSIT] + i
      /\ B2[WITHDRAWAL] = B[WITHDRAWAL] + o
  BY <1>7
<1>10. /\ Sum(T2, KindIn(T2, K, FUNDING)) = 0
      /\ Sum(T2, KindIn(T2, K, FEE)) = 0
  BY <1>5, <1>6
<1>11. ASSUME NEW u \in Trader
      PROVE  b2[u] = Sum(T2, BookedForIn(T2, DEPOSIT, u)) - Sum(T2, BookedForIn(T2, WITHDRAWAL, u))
                     - Sum(T2, BookedForIn(T2, FEE, u))
  <2> DEFINE d == Sum(T, BookedForIn(T, DEPOSIT, u))
             w == Sum(T, BookedForIn(T, WITHDRAWAL, u))
             f == Sum(T, BookedForIn(T, FEE, u))
             d2 == Sum(T2, BookedForIn(T2, DEPOSIT, u))
             w2 == Sum(T2, BookedForIn(T2, WITHDRAWAL, u))
             f2 == Sum(T2, BookedForIn(T2, FEE, u))
             dk == Sum(T2, KindForIn(T2, K, DEPOSIT, u))
             wk == Sum(T2, KindForIn(T2, K, WITHDRAWAL, u))
             fk == Sum(T2, KindForIn(T2, K, FEE, u))
  <2>1. d2 = d + dk /\ w2 = w + wk /\ f2 = f + fk
    BY <1>8
  <2>2. d \in Nat /\ w \in Nat /\ f \in Nat
    BY <1>8
  <2>3. /\ fk = 0
        /\ u = t => dk = i /\ wk = o
        /\ u # t => dk = 0 /\ wk = 0
    BY <1>5, <1>6
  <2>4. b[u] = d - w - f
    BY DEF Inv, BooksIn
  <2>5. IF u = t THEN b2[u] = b[u] + i - o ELSE b2[u] = b[u]
    BY Accounts
  <2> HIDE DEF d, w, f, d2, w2, f2, dk, wk, fk
  <2>6. b2[u] = d2 - w2 - f2
    BY <2>1, <2>2, <2>3, <2>4, <2>5
  <2>7. QED
    BY <2>6 DEF d2, w2, f2
<1>12. /\ b[MASTER] = B[FUNDING] + B[WITHDRAWAL] - B[DEPOSIT]
       /\ b[EXTERNAL] = 0 - B[FUNDING] /\ b[FEES] = B[FEE]
  BY DEF Inv, BooksIn
<1>13. BooksIn(T2, b2)
  <2> HIDE DEF B, B2
  <2>1. /\ b2[MASTER] = B2[FUNDING] + B2[WITHDRAWAL] - B2[DEPOSIT]
        /\ b2[EXTERNAL] = 0 - B2[FUNDING] /\ b2[FEES] = B2[FEE]
    <3>1. b2[EXTERNAL] = b[EXTERNAL] /\ b2[FEES] = b[FEES]
      BY Accounts
    <3>2. QED
      BY <1>9, <1>10, <1>12, <3>1
  <2>2. QED
    BY <1>11, <2>1, Zenon DEF BooksIn, B, B2
<1>14. QED
  BY <1>1, <1>3, <1>4, <1>13 DEF Inv

-----------------------------------------------------------------------------
(* Every step keeps the invariant *)

\* An empty ledger satisfies the invariant.
LEMMA InitInv == LedgerInit => LedgerInv
<1> SUFFICES ASSUME LedgerInit PROVE LedgerInv
  OBVIOUS
<1>1. balance \in [LedgerAccount -> Int] /\ pendingDebit \in Int /\ tx \in Txs
  BY DEF LedgerInit, Txs
<1>2. \A k \in TxKey : tx[k] = NoTx /\ tx[k].amount = 0 /\ tx[k].status = "NONE"
  BY DEF LedgerInit, NoTx
<1>3. \A S \in SUBSET TxKey : UnitsIn(tx, S) = {}
  BY <1>2 DEF UnitsIn
<1>4. \A S \in SUBSET TxKey : Sum(tx, S) = 0
  BY <1>3, FS_EmptySet DEF Sum
<1>5. FiniteIn(tx)
  BY <1>3, FS_EmptySet DEF FiniteIn
<1>6. TxInv(tx)
  BY <1>1, <1>2, <1>5 DEF TxInv, OpenIsDeposit
<1>7. \A c \in LedgerAccount : balance[c] = 0
  BY DEF LedgerInit
<1>8. HoldInv(tx, balance, pendingDebit)
  <2>1. HeldIn(tx) \in SUBSET TxKey
    BY DEF HeldIn
  <2>2. QED
    BY <1>4, <1>7, <2>1, Accounts DEF HoldInv, LedgerInit
<1>9. BooksIn(tx, balance)
  <2>1. \A kind : /\ BookedIn(tx, kind) \in SUBSET TxKey
                 /\ \A t : BookedForIn(tx, kind, t) \in SUBSET TxKey
    BY DEF BookedIn, BookedForIn
  <2>2. QED
    BY <1>4, <1>7, <2>1, Accounts DEF BooksIn
<1>10. QED
  BY <1>1, <1>6, <1>8, <1>9 DEF LedgerInv, Inv

\* The transactions that the operations write.
LEMMA NewTxType ==
  ASSUME NEW kind \in TxKind, NEW status \in TxStatus, NEW t \in Trader \cup {NoTrader},
         NEW a \in Amount
  PROVE  /\ NewTx(kind, status, t, a) \in Transaction
         /\ NewTx(kind, status, t, a).kind = kind
         /\ NewTx(kind, status, t, a).status = status
         /\ NewTx(kind, status, t, a).trader = t
         /\ NewTx(kind, status, t, a).amount = a
BY DEF NewTx, Transaction

\* One posting that takes a from one account to another, under a new key.
LEMMA TransferStep ==
  ASSUME NEW T, NEW b, NEW p, Inv(T, b, p), NEW k \in TxKey, T[k] = NoTx,
         NEW kind \in TxKind, NEW t \in Trader, NEW a \in Amount,
         NEW T2, Wrote(T, k, NewTx(kind, "POSTED", t, a), T2),
         NEW b2,
         \/ kind = WITHDRAWAL /\ b2 = [b EXCEPT ![MASTER] = @ + a, ![t] = @ - a]
         \/ kind = FEE /\ b2 = [b EXCEPT ![FEES] = @ + a, ![t] = @ - a]
         \/ /\ kind = DEPOSIT /\ b2 = [b EXCEPT ![MASTER] = @ - a, ![t] = @ + a]
            /\ a <= b[MASTER] - p
  PROVE  Inv(T2, b2, p)
<1> DEFINE r == NewTx(kind, "POSTED", t, a)
<1>1. /\ r \in Transaction /\ r.kind = kind /\ r.status = "POSTED"
      /\ r.trader = t /\ r.amount = a
  BY NewTxType DEF TxStatus
<1>2. a \in Nat
  BY AmountAssumption
<1>3. Wrote(T, k, r, T2)
  OBVIOUS
<1> HIDE DEF r
<1>4. b \in [LedgerAccount -> Int] /\ p \in Int /\ p <= b[MASTER]
  BY DEF Inv, HoldInv
<1>5. b2 \in [LedgerAccount -> Int] /\ p <= b2[MASTER]
  BY <1>2, <1>4, Accounts
<1>6. Effect(r, b, b2)
  BY <1>1, <1>2, <1>4, Accounts DEF Effect, Share, ShareFor, FUNDING, DEPOSIT, WITHDRAWAL, FEE
<1>7. QED
  BY ONLY <1>1, <1>3, <1>5, <1>6, Inv(T, b, p), k \in TxKey, T[k] = NoTx, PostStep

-----------------------------------------------------------------------------
(* The operations *)

\* Funding the MASTER account keeps the invariant.
LEMMA FundInv ==
  ASSUME LedgerInv, NEW k \in TxKey, NEW a \in Amount, FundMasterAccount(k, a)
  PROVE  LedgerInv'
<1> DEFINE r == NewTx(FUNDING, "POSTED", NoTrader, a)
<1>1. /\ r \in Transaction /\ r.kind = FUNDING /\ r.status = "POSTED"
      /\ r.trader = NoTrader /\ r.amount = a /\ NoTrader \notin Trader
  BY NewTxType, TraderAssumption DEF TxStatus, TxKind, FUNDING
<1>2. tx[k] = NoTx /\ Wrote(tx, k, r, tx')
  BY DEF FundMasterAccount, Exists, Wrote, FUNDING
<1> HIDE DEF r
<1>3. a \in Nat
  BY AmountAssumption
<1>4. /\ balance \in [LedgerAccount -> Int] /\ pendingDebit \in Int
      /\ pendingDebit <= balance[MASTER]
  BY DEF LedgerInv, Inv, HoldInv
<1>5. /\ balance' \in [LedgerAccount -> Int]
      /\ balance'[MASTER] = balance[MASTER] + a /\ balance'[EXTERNAL] = balance[EXTERNAL] - a
      /\ \A c \in LedgerAccount \ {MASTER, EXTERNAL} : balance'[c] = balance[c]
  BY <1>3, <1>4, Accounts DEF FundMasterAccount
<1>6. pendingDebit' = pendingDebit /\ pendingDebit <= balance'[MASTER]
  BY <1>3, <1>4, <1>5, Accounts DEF FundMasterAccount
<1>7. Effect(r, balance, balance')
  BY <1>1, <1>3, <1>4, <1>5, Accounts
     DEF Effect, Share, ShareFor, FUNDING, DEPOSIT, WITHDRAWAL, FEE
<1>8. Inv(tx, balance, pendingDebit)
  BY DEF LedgerInv
<1>9. Inv(tx', balance', pendingDebit)
  BY ONLY <1>1, <1>2, <1>5, <1>6, <1>7, <1>8, k \in TxKey, PostStep
<1>10. QED
  BY <1>6, <1>9 DEF LedgerInv

\* A reservation keeps the invariant.
LEMMA ReserveInv ==
  ASSUME LedgerInv, NEW k \in TxKey, NEW t \in Trader, NEW a \in Amount,
         CreateDepositHold(k, t, a)
  PROVE  LedgerInv'
<1> DEFINE r == NewTx(DEPOSIT, "PENDING", t, a)
<1>1. /\ r \in Transaction /\ r.kind = DEPOSIT /\ r.status = "PENDING"
      /\ r.trader \in Trader /\ r.amount = a
  BY NewTxType DEF TxStatus, TxKind, DEPOSIT
<1>2. tx[k] = NoTx /\ Wrote(tx, k, r, tx')
  BY DEF CreateDepositHold, Exists, Wrote, DEPOSIT
<1> HIDE DEF r
<1>3. Inv(tx, balance, pendingDebit)
  BY DEF LedgerInv
<1>4. r.amount <= balance[MASTER] - pendingDebit
  BY <1>1, <1>3, AmountAssumption, Accounts DEF Inv, CreateDepositHold, Available
<1>5. Inv(tx', balance, pendingDebit + r.amount)
  BY ONLY <1>1, <1>2, <1>3, <1>4, k \in TxKey, OpenStep
<1>6. pendingDebit' = pendingDebit + r.amount /\ balance' = balance
  BY <1>1 DEF CreateDepositHold
<1>7. QED
  BY <1>5, <1>6 DEF LedgerInv

\* Settling a reservation keeps the invariant.
LEMMA CommitInv ==
  ASSUME LedgerInv, NEW k \in TxKey, CommitDeposit(k)
  PROVE  LedgerInv'
<1>1. Inv(tx, balance, pendingDebit)
  BY DEF LedgerInv
<1>2. CASE UNCHANGED ledgerVars
  BY <1>1, <1>2 DEF LedgerInv, ledgerVars
<1>3. CASE /\ tx[k].status = "PENDING"
           /\ balance' = [balance EXCEPT ![MASTER] = @ - tx[k].amount,
                                         ![tx[k].trader] = @ + tx[k].amount]
           /\ pendingDebit' = pendingDebit - tx[k].amount
           /\ tx' = [tx EXCEPT ![k].status = "POSTED"]
  <2>1. Wrote(tx, k, [tx[k] EXCEPT !.status = "POSTED"], tx')
    BY <1>3 DEF Wrote
  <2>2. Inv(tx', balance', pendingDebit - tx[k].amount)
    BY <1>1, <1>3, <2>1, CommitStep
  <2>3. QED
    BY <1>3, <2>2 DEF LedgerInv
<1>4. QED
  BY <1>2, <1>3 DEF CommitDeposit

\* Releasing a reservation keeps the invariant.
LEMMA ReleaseInv ==
  ASSUME LedgerInv, NEW k \in TxKey, ReleaseDeposit(k)
  PROVE  LedgerInv'
<1>1. Inv(tx, balance, pendingDebit)
  BY DEF LedgerInv
<1>2. CASE UNCHANGED ledgerVars
  BY <1>1, <1>2 DEF LedgerInv, ledgerVars
<1>3. CASE /\ tx[k].status = "PENDING"
           /\ pendingDebit' = pendingDebit - tx[k].amount
           /\ tx' = [tx EXCEPT ![k].status = "FAILED"]
           /\ UNCHANGED balance
  <2>1. Wrote(tx, k, [tx[k] EXCEPT !.status = "FAILED"], tx')
    BY <1>3 DEF Wrote
  <2>2. Inv(tx', balance, pendingDebit - tx[k].amount)
    BY <1>1, <1>3, <2>1, ReleaseStep
  <2>3. QED
    BY <1>3, <2>2 DEF LedgerInv
<1>4. QED
  BY <1>2, <1>3 DEF ReleaseDeposit

\* An unreserved key is new or POSTED.
LEMMA UnreservedKey ==
  ASSUME LedgerInv, NEW k \in TxKey, Unreserved(k)
  PROVE  tx[k].status = "POSTED" \/ (tx[k] = NoTx /\ tx[k].status # "POSTED")
BY Known DEF LedgerInv, Inv, TxInv, Unreserved

\* A withdrawal keeps the invariant.
LEMMA WithdrawInv ==
  ASSUME LedgerInv, NEW k \in TxKey, NEW t \in Trader, NEW a \in Amount,
         Unreserved(k), PostWithdrawal(k, t, a)
  PROVE  LedgerInv'
<1>1. Inv(tx, balance, pendingDebit)
  BY DEF LedgerInv
<1>2. CASE UNCHANGED ledgerVars
  BY <1>1, <1>2 DEF LedgerInv, ledgerVars
<1>3. CASE tx[k] = NoTx /\ tx[k].status # "POSTED"
  <2>1. Wrote(tx, k, NewTx(WITHDRAWAL, "POSTED", t, a), tx')
    BY <1>3 DEF PostWithdrawal, Posted, Exists, Wrote, WITHDRAWAL
  <2>2. /\ balance' = [balance EXCEPT ![MASTER] = @ + a, ![t] = @ - a]
        /\ pendingDebit' = pendingDebit
    BY <1>3 DEF PostWithdrawal
  <2>3. WITHDRAWAL \in TxKind
    BY DEF TxKind, WITHDRAWAL
  <2>4. Inv(tx', balance', pendingDebit)
    BY <1>1, <1>3, <2>1, <2>2, <2>3, TransferStep
  <2>5. QED
    BY <2>2, <2>4 DEF LedgerInv
<1>4. QED
  BY <1>2, <1>3, UnreservedKey DEF PostWithdrawal

\* A performance fee keeps the invariant.
LEMMA FeeInv ==
  ASSUME LedgerInv, NEW k \in TxKey, NEW t \in Trader, NEW a \in Amount,
         Unreserved(k), PostPerfFee(k, t, a)
  PROVE  LedgerInv'
<1>1. Inv(tx, balance, pendingDebit)
  BY DEF LedgerInv
<1>2. CASE UNCHANGED ledgerVars
  BY <1>1, <1>2 DEF LedgerInv, ledgerVars
<1>3. CASE tx[k] = NoTx /\ tx[k].status # "POSTED"
  <2>1. Wrote(tx, k, NewTx(FEE, "POSTED", t, a), tx')
    BY <1>3 DEF PostPerfFee, Posted, Exists, Wrote, FEE
  <2>2. /\ balance' = [balance EXCEPT ![FEES] = @ + a, ![t] = @ - a]
        /\ pendingDebit' = pendingDebit
    BY <1>3 DEF PostPerfFee
  <2>3. FEE \in TxKind
    BY DEF TxKind, FEE
  <2>4. Inv(tx', balance', pendingDebit)
    BY <1>1, <1>3, <2>1, <2>2, <2>3, TransferStep
  <2>5. QED
    BY <2>2, <2>4 DEF LedgerInv
<1>4. QED
  BY <1>2, <1>3, UnreservedKey DEF PostPerfFee

\* A regularization keeps the invariant.
LEMMA RegularizeInv ==
  ASSUME LedgerInv, NEW k \in TxKey, NEW t \in Trader, NEW a \in Amount,
         NEW incoming \in BOOLEAN,
         Unreserved(k), PostCapitalRegularization(k, t, a, incoming)
  PROVE  LedgerInv'
<1>1. Inv(tx, balance, pendingDebit)
  BY DEF LedgerInv
<1>2. CASE UNCHANGED ledgerVars
  BY <1>1, <1>2 DEF LedgerInv, ledgerVars
<1>3. CASE tx[k] = NoTx /\ tx[k].status # "POSTED"
  <2>1. DEPOSIT \in TxKind /\ WITHDRAWAL \in TxKind
    BY DEF TxKind, DEPOSIT, WITHDRAWAL
  <2>2. pendingDebit' = pendingDebit
    BY <1>3 DEF PostCapitalRegularization
  <2>3. CASE incoming
    <3>1. Wrote(tx, k, NewTx(DEPOSIT, "POSTED", t, a), tx')
      BY <1>3, <2>3 DEF PostCapitalRegularization, Posted, Exists, Wrote, DEPOSIT
    <3>2. balance' = [balance EXCEPT ![MASTER] = @ - a, ![t] = @ + a]
      BY <1>3, <2>3 DEF PostCapitalRegularization
    <3>3. a <= balance[MASTER] - pendingDebit
      BY <1>1, <1>3, <2>3, Accounts, AmountAssumption
         DEF PostCapitalRegularization, Available, Inv
    <3>4. Inv(tx', balance', pendingDebit)
      BY <1>1, <1>3, <2>1, <3>1, <3>2, <3>3, TransferStep
    <3>5. QED
      BY <2>2, <3>4 DEF LedgerInv
  <2>4. CASE ~incoming
    <3>1. Wrote(tx, k, NewTx(WITHDRAWAL, "POSTED", t, a), tx')
      BY <1>3, <2>4 DEF PostCapitalRegularization, Posted, Exists, Wrote, WITHDRAWAL
    <3>2. balance' = [balance EXCEPT ![MASTER] = @ + a, ![t] = @ - a]
      <4>1. balance' = [balance EXCEPT ![MASTER] = @ - (0 - a), ![t] = @ + (0 - a)]
        BY <1>3, <2>4 DEF PostCapitalRegularization
      <4>2. /\ balance[MASTER] - (0 - a) = balance[MASTER] + a
            /\ balance[t] + (0 - a) = balance[t] - a
        BY <1>1, Accounts, AmountAssumption DEF Inv
      <4>3. QED
        BY <1>1, <4>1, <4>2, Accounts DEF Inv
    <3>3. Inv(tx', balance', pendingDebit)
      BY <1>1, <1>3, <2>1, <3>1, <3>2, TransferStep
    <3>4. QED
      BY <2>2, <3>3 DEF LedgerInv
  <2>5. QED
    BY <2>3, <2>4
<1>4. QED
  BY <1>2, <1>3, UnreservedKey DEF PostCapitalRegularization

\* The two legs are two postings, one after the other; tx1 and b1 lie between.
LEMMA WithdrawAndFeeInv ==
  ASSUME LedgerInv, NEW k \in TxKey, NEW fk \in TxKey, NEW t \in Trader,
         NEW a \in Amount, NEW f \in Amount,
         k # fk, Unreserved(k), Unreserved(fk), PostWithdrawalAndFee(k, fk, t, a, f)
  PROVE  LedgerInv'
<1> DEFINE new == tx[k].status # "POSTED"
           newFee == tx[fk].status # "POSTED"
           tx1 == IF new THEN [tx EXCEPT ![k] = NewTx(WITHDRAWAL, "POSTED", t, a)] ELSE tx
           b1 == IF new THEN [balance EXCEPT ![MASTER] = @ + a, ![t] = @ - a] ELSE balance
<1>1. /\ Inv(tx, balance, pendingDebit)
      /\ tx \in Txs /\ balance \in [LedgerAccount -> Int]
      /\ WITHDRAWAL \in TxKind /\ FEE \in TxKind /\ a \in Nat /\ f \in Nat
  BY AmountAssumption DEF LedgerInv, Inv, TxInv, TxKind, WITHDRAWAL, FEE
<1>2. /\ (new /\ tx[k] = NoTx) \/ (~new /\ tx[k].status = "POSTED")
      /\ (newFee /\ tx[fk] = NoTx) \/ (~newFee /\ tx[fk].status = "POSTED")
  BY UnreservedKey
<1>3. Inv(tx1, b1, pendingDebit)
  <2>1. CASE new
    <3>1. Wrote(tx, k, NewTx(WITHDRAWAL, "POSTED", t, a), tx1)
      BY <2>1 DEF Wrote
    <3>2. b1 = [balance EXCEPT ![MASTER] = @ + a, ![t] = @ - a]
      BY <2>1
    <3>3. tx[k] = NoTx
      BY <1>2, <2>1
    <3> HIDE DEF tx1, b1
    <3>4. QED
      BY <1>1, <3>1, <3>2, <3>3, TransferStep
  <2>2. CASE ~new
    BY <1>1, <2>2
  <2>3. QED
    BY <2>1, <2>2
<1>4. tx1[fk] = tx[fk] /\ b1 \in [LedgerAccount -> Int]
  BY <1>1, Accounts
<1>5. /\ tx1[k] = Posted(k, WITHDRAWAL, t, a)
      /\ \A j \in TxKey \ {k} : tx1[j] = tx[j]
  <2>1. CASE new
    BY <1>1, <1>2, <2>1 DEF Posted, Exists, Txs
  <2>2. CASE ~new
    <3>1. tx[k] # NoTx /\ tx[k] \in Transaction
      BY <1>1, <1>2, <2>2, Known
    <3>2. [tx[k] EXCEPT !.status = "POSTED"] = tx[k]
      BY <1>2, <2>2, <3>1 DEF Transaction
    <3>3. QED
      BY <2>2, <3>1, <3>2 DEF Posted, Exists
  <2>3. QED
    BY <2>1, <2>2
<1>6. tx' = [tx1 EXCEPT ![fk] = Posted(fk, FEE, t, f)]
  <2>1. tx' = [tx EXCEPT ![k] = Posted(k, WITHDRAWAL, t, a), ![fk] = Posted(fk, FEE, t, f)]
    BY DEF PostWithdrawalAndFee, WITHDRAWAL, FEE
  <2>2. DOMAIN tx1 = TxKey /\ tx1 = [j \in TxKey |-> tx1[j]]
    BY <1>1 DEF Txs
  <2> HIDE DEF tx1
  <2>3. QED
    BY <1>1, <1>5, <2>1, <2>2 DEF Txs
<1>7. /\ pendingDebit' = pendingDebit
      /\ balance' = [balance EXCEPT ![MASTER] = @ + (IF new THEN a ELSE 0),
                                    ![FEES] = @ + (IF newFee THEN f ELSE 0),
                                    ![t] = @ - (IF new THEN a ELSE 0) - (IF newFee THEN f ELSE 0)]
  BY DEF PostWithdrawalAndFee
<1>8. CASE newFee
  <2>1. tx1[fk] = NoTx
    BY <1>2, <1>4, <1>8
  <2>2. Wrote(tx1, fk, NewTx(FEE, "POSTED", t, f), tx')
    BY <1>2, <1>6, <1>8 DEF Posted, Exists, Wrote
  <2>3. balance' = [b1 EXCEPT ![FEES] = @ + f, ![t] = @ - f]
    <3>1. CASE new
      BY <1>1, <1>7, <1>8, <3>1, Accounts
    <3>2. CASE ~new
      <4>1. balance[MASTER] + 0 = balance[MASTER] /\ balance[t] - 0 = balance[t]
        BY <1>1, Accounts
      <4>2. balance' = [balance EXCEPT ![MASTER] = @, ![FEES] = @ + f, ![t] = @ - f]
        BY <1>1, <1>7, <1>8, <3>2, <4>1, Accounts
      <4>3. QED
        BY <1>1, <3>2, <4>2, Accounts
    <3>3. QED
      BY <3>1, <3>2
  <2> HIDE DEF tx1, b1
  <2>4. Inv(tx', balance', pendingDebit)
    BY <1>1, <1>3, <2>1, <2>2, <2>3, TransferStep
  <2>5. QED
    BY <1>7, <2>4 DEF LedgerInv
<1>9. CASE ~newFee
  <2>1. tx' = tx1
    <3>1. tx[fk] # NoTx /\ tx[fk] \in Transaction
      BY <1>1, <1>2, <1>9, Known
    <3>2. [tx[fk] EXCEPT !.status = "POSTED"] = tx[fk]
      BY <1>2, <1>9, <3>1 DEF Transaction
    <3>3. Posted(fk, FEE, t, f) = tx1[fk]
      BY <1>4, <3>1, <3>2 DEF Posted, Exists
    <3>4. tx1 = [j \in TxKey |-> tx1[j]]
      BY <1>1 DEF Txs
    <3> HIDE DEF tx1
    <3>5. QED
      BY <1>6, <3>3, <3>4
  <2>2. balance' = b1
    <3>1. CASE new
      <4>1. balance[FEES] + 0 = balance[FEES] /\ balance[t] - a - 0 = balance[t] - a
        BY <1>1, Accounts
      <4>2. balance' = [balance EXCEPT ![MASTER] = @ + a, ![FEES] = @, ![t] = @ - a]
        BY <1>1, <1>7, <1>9, <3>1, <4>1, Accounts
      <4>3. QED
        BY <1>1, <3>1, <4>2, Accounts
    <3>2. CASE ~new
      BY <1>1, <1>7, <1>9, <3>2, Accounts
    <3>3. QED
      BY <3>1, <3>2
  <2>3. QED
    BY <1>3, <1>7, <2>1, <2>2 DEF LedgerInv
<1>10. QED
  BY <1>8, <1>9

\* Every step keeps the invariant.
LEMMA StepInv == LedgerInv /\ [LedgerNext]_ledgerVars => LedgerInv'
<1> SUFFICES ASSUME LedgerInv, [LedgerNext]_ledgerVars PROVE LedgerInv'
  OBVIOUS
<1>1. CASE UNCHANGED ledgerVars
  BY <1>1 DEF LedgerInv, ledgerVars
<1>2. CASE LedgerNext
  BY <1>2, FundInv, ReserveInv, CommitInv, ReleaseInv, WithdrawInv, FeeInv, RegularizeInv,
     WithdrawAndFeeInv DEF LedgerNext
<1>3. QED
  BY <1>1, <1>2

\* The invariant says what the properties of Ledger say.
LEMMA InvMeaning == LedgerInv => LedgerTypeOK /\ Solvent /\ HoldsMatch /\ BooksMatch
<1> SUFFICES ASSUME LedgerInv PROVE LedgerTypeOK /\ Solvent /\ HoldsMatch /\ BooksMatch
  OBVIOUS
<1>1. LedgerTypeOK
  BY DEF LedgerInv, Inv, TxInv, Txs, LedgerTypeOK
<1>2. /\ \A S : Total(S) = Sum(tx, S)
      /\ Held = HeldIn(tx)
      /\ \A kind : Booked(kind) = BookedIn(tx, kind)
      /\ \A kind, t : BookedFor(kind, t) = BookedForIn(tx, kind, t)
  BY DEF Total, Sum, UnitsOf, Units, UnitsIn, Held, HeldIn, Booked, BookedIn, BookedFor,
         BookedForIn
<1>3. HoldsMatch
  BY <1>2, Zenon DEF HoldsMatch, LedgerInv, Inv, HoldInv
<1>4. Solvent
  BY HeldIsNat DEF Solvent, LedgerInv, Inv, HoldInv
<1>5. BooksMatch
  <2>1. BooksIn(tx, balance)
    BY DEF LedgerInv, Inv
  <2>2. QED
    BY <1>2, <2>1, Zenon DEF BooksIn, BooksMatch, FUNDING, DEPOSIT, WITHDRAWAL, FEE
<1>6. QED
  BY <1>1, <1>3, <1>4, <1>5

\* The invariant holds in every reachable state of the ledger.
THEOREM InvariantHolds == LedgerSpec => []LedgerInv
BY InitInv, StepInv, PTL DEF LedgerSpec

\* Type correctness of the ledger.
THEOREM TypeCorrect == LedgerSpec => []LedgerTypeOK
BY InvariantHolds, InvMeaning, PTL

\* create_deposit_hold and post_capital_regularization check the available
\* balance; that is enough for the MASTER account to be always able to pay what
\* it reserved, for any number of traders, transactions and amounts.
THEOREM AlwaysSolvent == LedgerSpec => []Solvent
BY InvariantHolds, InvMeaning, PTL

\* pending_debit is the sum of the open reservations.
THEOREM HoldsAlwaysMatch == LedgerSpec => []HoldsMatch
BY InvariantHolds, InvMeaning, PTL

\* Every balance is the sum of the POSTED transactions on it.
THEOREM BooksAlwaysMatch == LedgerSpec => []BooksMatch
BY InvariantHolds, InvMeaning, PTL

-----------------------------------------------------------------------------
(* A ledger that is only funded *)

OnlyFunded == \A k \in TxKey : tx[k] = NoTx \/ (tx[k].kind = FUNDING /\ tx[k].status = "POSTED")

\* The MASTER account has then the sum of all the transactions.
LEMMA FundedBooks ==
  ASSUME LedgerInv, OnlyFunded
  PROVE  balance[MASTER] = Sum(tx, {k \in TxKey : Exists(k)})
<1>1. TxInv(tx) /\ balance[MASTER] \in Int
  BY Accounts DEF LedgerInv, Inv
<1>2. \A k \in TxKey : tx[k].status = "POSTED" <=> Exists(k)
  BY DEF OnlyFunded, Exists, NoTx
<1>3. /\ BookedIn(tx, FUNDING) = {k \in TxKey : Exists(k)}
      /\ BookedIn(tx, WITHDRAWAL) = {} /\ BookedIn(tx, DEPOSIT) = {}
  BY <1>2 DEF OnlyFunded, BookedIn, FUNDING, WITHDRAWAL, DEPOSIT, Exists, NoTx
<1>4. Sum(tx, {}) = 0
  BY FS_EmptySet DEF Sum, UnitsIn
<1>5. Sum(tx, BookedIn(tx, FUNDING)) \in Nat
  BY <1>1, BookedIsNat
<1>6. BooksIn(tx, balance)
  BY DEF LedgerInv, Inv
<1>7. balance[MASTER] = Sum(tx, BookedIn(tx, FUNDING)) + 0 - 0
  BY <1>3, <1>4, <1>6 DEF BooksIn
<1>8. QED
  BY <1>3, <1>5, <1>7

-----------------------------------------------------------------------------
(* The ledger is an escrow *)

\* The claim that a transaction stands for, and the claims of them all.
ClaimIn(x) ==
  IF x.kind # "TRADER_DEPOSIT" THEN [state |-> "none", amount |-> 0]
  ELSE [state  |-> CASE x.status = "PENDING" -> "held"
                     [] x.status = "POSTED" -> "paid"
                     [] x.status = "FAILED" -> "returned",
        amount |-> x.amount]

AllClaims == [k \in TxKey |-> ClaimOf(k)]

\* The claim of a key depends on its transaction alone.
LEMMA ClaimsAre == \A k \in TxKey : AllClaims[k] = ClaimIn(tx[k])
BY DEF AllClaims, ClaimOf, ClaimIn

\* A key without a transaction has no claim.
LEMMA NoClaimYet == ClaimIn(NoTx) = Promise!NoClaim
BY DEF ClaimIn, NoTx, Promise!NoClaim

\* Writing one transaction changes its own claim and no other.
LEMMA ClaimWritten ==
  ASSUME tx \in Txs, NEW k \in TxKey, NEW r \in Transaction, Wrote(tx, k, r, tx')
  PROVE  AllClaims' = [AllClaims EXCEPT ![k] = ClaimIn(r)]
<1>1. tx'[k] = r /\ \A j \in TxKey \ {k} : tx'[j] = tx[j]
  BY DEF Txs, Wrote
<1>2. AllClaims' = [j \in TxKey |-> ClaimIn(tx'[j])]
  BY DEF AllClaims, ClaimOf, ClaimIn
<1>3. AllClaims = [j \in TxKey |-> ClaimIn(tx[j])]
  BY DEF AllClaims, ClaimOf, ClaimIn
<1>4. QED
  BY <1>1, <1>2, <1>3

\* The claims stay when the written transaction is not a deposit, nor was.
LEMMA ClaimKept ==
  ASSUME tx \in Txs, NEW k \in TxKey, NEW r \in Transaction, Wrote(tx, k, r, tx'),
         tx[k] = NoTx, r.kind # "TRADER_DEPOSIT"
  PROVE  AllClaims' = AllClaims
<1>1. ClaimIn(r) = ClaimIn(tx[k])
  BY DEF ClaimIn, NoTx
<1>2. AllClaims[k] = ClaimIn(r)
  BY <1>1, ClaimsAre
<1>3. AllClaims = [AllClaims EXCEPT ![k] = ClaimIn(r)]
  BY <1>2 DEF AllClaims
<1>4. QED
  BY <1>3, ClaimWritten

\* The initial ledger is an initial escrow.
LEMMA EscrowInitially == LedgerInit => Promise!EscrowInit
<1> SUFFICES ASSUME LedgerInit PROVE Promise!EscrowInit
  OBVIOUS
<1>1. Available = 0
  BY Accounts DEF LedgerInit, Available
<1>2. \A k \in TxKey : ClaimOf(k) = Promise!NoClaim
  BY DEF LedgerInit, ClaimOf, NoTx, Promise!NoClaim
<1>3. QED
  BY <1>1, <1>2 DEF Promise!EscrowInit

\* What every step can count on.
LEMMA Facts ==
  ASSUME LedgerInv
  PROVE  /\ tx \in Txs /\ balance \in [LedgerAccount -> Int] /\ pendingDebit \in Int
         /\ \A k \in TxKey : tx[k].status = "PENDING" =>
              /\ tx[k] \in Transaction /\ tx[k].kind = "TRADER_DEPOSIT"
              /\ tx[k].trader \in Trader /\ tx[k].amount \in Amount
         /\ Amount \subseteq Nat
<1>1. tx \in Txs /\ balance \in [LedgerAccount -> Int] /\ pendingDebit \in Int
  BY DEF LedgerInv, Inv, TxInv
<1>2. \A k \in TxKey : tx[k].status = "PENDING" =>
        tx[k] \in Transaction /\ tx[k].kind = "TRADER_DEPOSIT" /\ tx[k].trader \in Trader
  BY <1>1, Known DEF LedgerInv, Inv, TxInv, OpenIsDeposit, DEPOSIT
<1>3. \A k \in TxKey : tx[k].status = "PENDING" => tx[k].amount \in Amount
  BY <1>2 DEF Transaction
<1>4. QED
  BY <1>1, <1>2, <1>3, AmountAssumption

\* The forms of a step of the escrow, over the ledger's variables.
Stays == Available' = Available /\ AllClaims' = AllClaims
Receives(a) == Available' = Available + a /\ AllClaims' = AllClaims
Takes(k, a, state) == /\ AllClaims[k] = Promise!NoClaim /\ a <= Available
                      /\ Available' = Available - a
                      /\ AllClaims' = [AllClaims EXCEPT ![k] = [state |-> state, amount |-> a]]
Pays(k) == /\ AllClaims[k].state = "held" /\ Available' = Available
           /\ AllClaims' = [AllClaims EXCEPT ![k].state = "paid"]
Returns(k) == /\ AllClaims[k].state = "held" /\ Available' = Available + AllClaims[k].amount
              /\ AllClaims' = [AllClaims EXCEPT ![k].state = "returned"]

EscrowStep == [Promise!EscrowNext]_(Promise!escrowVars)

\* The forms of an escrow step.
LEMMA StepForms ==
  /\ Stays => EscrowStep
  /\ \A a \in Amount : Receives(a) => EscrowStep
  /\ \A k \in TxKey : Pays(k) \/ Returns(k) => EscrowStep
  /\ \A k \in TxKey, a \in Amount : Takes(k, a, "held") \/ Takes(k, a, "paid") => EscrowStep
<1>1. Stays => EscrowStep
  BY DEF Stays, EscrowStep, Promise!escrowVars, AllClaims
<1>2. \A a \in Amount : Receives(a) => EscrowStep
  BY DEF Receives, EscrowStep, Promise!EscrowNext, Promise!Receive, AllClaims
<1>3. \A k \in TxKey : Pays(k) \/ Returns(k) => EscrowStep
  BY DEF Pays, Returns, EscrowStep, Promise!EscrowNext, Promise!PayOut, Promise!GiveBack, AllClaims
<1>4. \A k \in TxKey, a \in Amount : Takes(k, a, "held") \/ Takes(k, a, "paid") => EscrowStep
  BY DEF Takes, EscrowStep, Promise!EscrowNext, Promise!SetAside, Promise!PayNow, AllClaims
<1>5. QED
  BY <1>1, <1>2, <1>3, <1>4

\* Funding the MASTER account receives free money.
LEMMA FundReceives ==
  ASSUME LedgerInv, NEW k \in TxKey, NEW a \in Amount, FundMasterAccount(k, a)
  PROVE  Receives(a)
<1> DEFINE r == NewTx("MASTER_ACCOUNT_FUNDING", "POSTED", NoTrader, a)
<1>1. r \in Transaction /\ r.kind # "TRADER_DEPOSIT"
  BY NewTxType DEF TxKind, TxStatus
<1>2. tx \in Txs /\ tx[k] = NoTx /\ Wrote(tx, k, r, tx')
  BY Facts DEF FundMasterAccount, Exists, Wrote
<1> HIDE DEF r
<1>3. AllClaims' = AllClaims
  BY <1>1, <1>2, ClaimKept
<1>4. Available' = Available + a
  BY Facts, Accounts DEF FundMasterAccount, Available
<1>5. QED
  BY <1>3, <1>4 DEF Receives

\* A reservation takes a claim out of the free money.
LEMMA HoldTakes ==
  ASSUME LedgerInv, NEW k \in TxKey, NEW t \in Trader, NEW a \in Amount,
         CreateDepositHold(k, t, a)
  PROVE  Takes(k, a, "held")
<1> DEFINE r == NewTx("TRADER_DEPOSIT", "PENDING", t, a)
<1>1. /\ r \in Transaction /\ r.kind = "TRADER_DEPOSIT" /\ r.status = "PENDING"
      /\ r.amount = a
  BY NewTxType DEF TxKind, TxStatus
<1>2. tx \in Txs /\ tx[k] = NoTx /\ Wrote(tx, k, r, tx')
  BY Facts DEF CreateDepositHold, Exists, Wrote
<1> HIDE DEF r
<1>3. ClaimIn(r) = [state |-> "held", amount |-> a]
  BY <1>1 DEF ClaimIn
<1>4. AllClaims' = [AllClaims EXCEPT ![k] = ClaimIn(r)]
  BY <1>1, <1>2, ClaimWritten
<1>5. AllClaims[k] = Promise!NoClaim
  BY <1>2, ClaimsAre, NoClaimYet
<1>6. a <= Available /\ Available' = Available - a
  BY Facts, Accounts DEF CreateDepositHold, Available
<1>7. QED
  BY <1>3, <1>4, <1>5, <1>6 DEF Takes

\* A committed reservation is a claim that is paid.
LEMMA CommitPays ==
  ASSUME LedgerInv, NEW k \in TxKey, tx[k].status = "PENDING", CommitDeposit(k)
  PROVE  Pays(k)
<1> DEFINE r == [tx[k] EXCEPT !.status = "POSTED"]
<1>1. /\ tx \in Txs /\ tx[k] \in Transaction /\ tx[k].kind = "TRADER_DEPOSIT"
      /\ tx[k].trader \in Trader /\ tx[k].amount \in Int
  BY Facts
<1>2. /\ r \in Transaction /\ r.kind = "TRADER_DEPOSIT" /\ r.status = "POSTED"
      /\ r.amount = tx[k].amount
  BY <1>1 DEF Transaction, TxStatus
<1>3. Wrote(tx, k, r, tx')
  BY DEF CommitDeposit, Wrote
<1>4. AllClaims[k] = [state |-> "held", amount |-> tx[k].amount]
  BY <1>1, ClaimsAre DEF ClaimIn
<1> HIDE DEF r
<1>5. ClaimIn(r) = [state |-> "paid", amount |-> tx[k].amount]
  BY <1>2 DEF ClaimIn
<1>6. AllClaims' = [AllClaims EXCEPT ![k] = ClaimIn(r)]
  BY <1>1, <1>2, <1>3, ClaimWritten
<1>7. AllClaims' = [AllClaims EXCEPT ![k].state = "paid"]
  <2>1. [AllClaims[k] EXCEPT !.state = "paid"] = ClaimIn(r)
    BY <1>4, <1>5
  <2>2. QED
    BY <1>6, <2>1, Zenon
<1>8. Available' = Available
  <2>1. /\ balance' = [balance EXCEPT ![MASTER] = @ - tx[k].amount,
                                      ![tx[k].trader] = @ + tx[k].amount]
        /\ pendingDebit' = pendingDebit - tx[k].amount
    BY DEF CommitDeposit
  <2>2. balance'[MASTER] = balance[MASTER] - tx[k].amount
    BY <1>1, <2>1, Facts, Accounts
  <2>3. QED
    BY <1>1, <2>1, <2>2, Facts, Accounts DEF Available
<1>9. QED
  BY <1>4, <1>7, <1>8 DEF Pays

\* A released reservation is a claim that is returned.
LEMMA ReleaseReturns ==
  ASSUME LedgerInv, NEW k \in TxKey, tx[k].status = "PENDING", ReleaseDeposit(k)
  PROVE  Returns(k)
<1> DEFINE r == [tx[k] EXCEPT !.status = "FAILED"]
<1>1. /\ tx \in Txs /\ tx[k] \in Transaction /\ tx[k].kind = "TRADER_DEPOSIT"
      /\ tx[k].amount \in Int
  BY Facts
<1>2. /\ r \in Transaction /\ r.kind = "TRADER_DEPOSIT" /\ r.status = "FAILED"
      /\ r.amount = tx[k].amount
  BY <1>1 DEF Transaction, TxStatus
<1>3. Wrote(tx, k, r, tx')
  BY DEF ReleaseDeposit, Wrote
<1>4. AllClaims[k] = [state |-> "held", amount |-> tx[k].amount]
  BY <1>1, ClaimsAre DEF ClaimIn
<1> HIDE DEF r
<1>5. ClaimIn(r) = [state |-> "returned", amount |-> tx[k].amount]
  BY <1>2 DEF ClaimIn
<1>6. AllClaims' = [AllClaims EXCEPT ![k] = ClaimIn(r)]
  BY <1>1, <1>2, <1>3, ClaimWritten
<1>7. AllClaims' = [AllClaims EXCEPT ![k].state = "returned"]
  <2>1. [AllClaims[k] EXCEPT !.state = "returned"] = ClaimIn(r)
    BY <1>4, <1>5
  <2>2. QED
    BY <1>6, <2>1, Zenon
<1>8. Available' = Available + AllClaims[k].amount
  BY <1>1, <1>4, Facts, Accounts DEF ReleaseDeposit, Available
<1>9. QED
  BY <1>4, <1>7, <1>8 DEF Returns

\* A posting under a new key that is no deposit makes no claim.
LEMMA PostedNoClaim ==
  ASSUME LedgerInv, NEW k \in TxKey, tx[k] = NoTx, NEW t \in Trader, NEW a \in Amount,
         NEW kind \in {"TRADER_WITHDRAWAL", "PERF_FEE"},
         tx' = [tx EXCEPT ![k] = Posted(k, kind, t, a)]
  PROVE  AllClaims' = AllClaims
<1> DEFINE r == NewTx(kind, "POSTED", t, a)
<1>1. r \in Transaction /\ r.kind # "TRADER_DEPOSIT"
  BY NewTxType DEF TxKind, TxStatus
<1>2. tx \in Txs /\ Wrote(tx, k, r, tx')
  BY Facts DEF Wrote, Posted, Exists
<1> HIDE DEF r
<1>3. QED
  BY <1>1, <1>2, ClaimKept

\* A withdrawal receives free money.
LEMMA WithdrawalReceives ==
  ASSUME LedgerInv, NEW k \in TxKey, NEW t \in Trader, NEW a \in Amount,
         Unreserved(k), PostWithdrawal(k, t, a)
  PROVE  Stays \/ Receives(a)
<1>1. CASE UNCHANGED ledgerVars
  BY <1>1 DEF ledgerVars, Stays, Available, AllClaims, ClaimOf
<1>2. CASE tx[k] = NoTx /\ tx[k].status # "POSTED"
  <2>1. AllClaims' = AllClaims
    BY <1>2, PostedNoClaim DEF PostWithdrawal
  <2>2. Available' = Available + a
    BY <1>2, Facts, Accounts DEF PostWithdrawal, Available
  <2>3. QED
    BY <2>1, <2>2 DEF Receives
<1>3. QED
  BY <1>1, <1>2, UnreservedKey DEF PostWithdrawal

\* A fee leaves the escrow as it is.
LEMMA FeeStays ==
  ASSUME LedgerInv, NEW k \in TxKey, NEW t \in Trader, NEW a \in Amount,
         Unreserved(k), PostPerfFee(k, t, a)
  PROVE  Stays
<1>1. CASE UNCHANGED ledgerVars
  BY <1>1 DEF ledgerVars, Stays, Available, AllClaims, ClaimOf
<1>2. CASE tx[k] = NoTx /\ tx[k].status # "POSTED"
  <2>1. AllClaims' = AllClaims
    BY <1>2, PostedNoClaim DEF PostPerfFee
  <2>2. Available' = Available
    BY <1>2, Facts, Accounts DEF PostPerfFee, Available
  <2>3. QED
    BY <2>1, <2>2 DEF Stays
<1>3. QED
  BY <1>1, <1>2, UnreservedKey DEF PostPerfFee

\* A regularized row takes or receives free money.
LEMMA RegularizationTakesOrReceives ==
  ASSUME LedgerInv, NEW k \in TxKey, NEW t \in Trader, NEW a \in Amount,
         NEW incoming \in BOOLEAN,
         Unreserved(k), PostCapitalRegularization(k, t, a, incoming)
  PROVE  Stays \/ Receives(a) \/ Takes(k, a, "paid")
<1>1. CASE UNCHANGED ledgerVars
  BY <1>1 DEF ledgerVars, Stays, Available, AllClaims, ClaimOf
<1>2. CASE tx[k] = NoTx /\ tx[k].status # "POSTED" /\ ~incoming
  <2>1. AllClaims' = AllClaims
    BY <1>2, PostedNoClaim DEF PostCapitalRegularization
  <2>2. Available' = Available + a
    BY <1>2, Facts, Accounts DEF PostCapitalRegularization, Available
  <2>3. QED
    BY <2>1, <2>2 DEF Receives
<1>3. CASE tx[k] = NoTx /\ tx[k].status # "POSTED" /\ incoming
  <2> DEFINE r == NewTx("TRADER_DEPOSIT", "POSTED", t, a)
  <2>1. /\ r \in Transaction /\ r.kind = "TRADER_DEPOSIT" /\ r.status = "POSTED"
        /\ r.amount = a
    BY NewTxType DEF TxKind, TxStatus
  <2>2. tx \in Txs /\ Wrote(tx, k, r, tx')
    BY <1>3, Facts DEF PostCapitalRegularization, Posted, Exists, Wrote
  <2> HIDE DEF r
  <2>3. ClaimIn(r) = [state |-> "paid", amount |-> a]
    BY <2>1 DEF ClaimIn
  <2>4. AllClaims' = [AllClaims EXCEPT ![k] = ClaimIn(r)]
    BY <2>1, <2>2, ClaimWritten
  <2>5. AllClaims[k] = Promise!NoClaim
    BY <1>3, ClaimsAre, NoClaimYet
  <2>6. a <= Available /\ Available' = Available - a
    BY <1>3, Facts, Accounts DEF PostCapitalRegularization, Available
  <2>7. QED
    BY <2>3, <2>4, <2>5, <2>6 DEF Takes
<1>4. QED
  BY <1>1, <1>2, <1>3, UnreservedKey DEF PostCapitalRegularization

\* A withdrawal with its fee receives free money.
LEMMA WithdrawalAndFeeReceives ==
  ASSUME LedgerInv, NEW k \in TxKey, NEW fk \in TxKey, NEW t \in Trader,
         NEW a \in Amount, NEW f \in Amount,
         k # fk, Unreserved(k), Unreserved(fk), PostWithdrawalAndFee(k, fk, t, a, f)
  PROVE  Stays \/ Receives(a)
<1>1. /\ tx \in Txs /\ balance \in [LedgerAccount -> Int] /\ pendingDebit \in Int
      /\ a \in Nat /\ f \in Nat
  BY Facts
<1>2. /\ tx' = [tx EXCEPT ![k] = Posted(k, "TRADER_WITHDRAWAL", t, a),
                          ![fk] = Posted(fk, "PERF_FEE", t, f)]
      /\ pendingDebit' = pendingDebit
      /\ balance' = [balance EXCEPT
                       ![MASTER] = @ + (IF tx[k].status = "POSTED" THEN 0 ELSE a),
                       ![FEES] = @ + (IF tx[fk].status = "POSTED" THEN 0 ELSE f),
                       ![t] = @ - (IF tx[k].status = "POSTED" THEN 0 ELSE a)
                                - (IF tx[fk].status = "POSTED" THEN 0 ELSE f)]
  BY DEF PostWithdrawalAndFee
<1>3. \A j \in TxKey, kind \in {"TRADER_WITHDRAWAL", "PERF_FEE"}, c \in Amount :
        Unreserved(j) => ClaimIn(Posted(j, kind, t, c)) = ClaimIn(tx[j])
  <2> SUFFICES ASSUME NEW j \in TxKey, NEW kind \in {"TRADER_WITHDRAWAL", "PERF_FEE"},
                      NEW c \in Amount, Unreserved(j)
               PROVE  ClaimIn(Posted(j, kind, t, c)) = ClaimIn(tx[j])
    OBVIOUS
  <2>1. CASE tx[j] = NoTx
    <3>1. Posted(j, kind, t, c).kind = kind
      BY <2>1 DEF Posted, Exists, NewTx
    <3>2. tx[j].kind = "NONE"
      BY <2>1 DEF NoTx
    <3>3. QED
      BY <3>1, <3>2 DEF ClaimIn
  <2>2. CASE tx[j] # NoTx /\ tx[j].status = "POSTED"
    <3>1. tx[j] \in Transaction
      BY <1>1, <2>2, Known
    <3>2. [tx[j] EXCEPT !.status = "POSTED"] = tx[j]
      BY <2>2, <3>1 DEF Transaction
    <3>3. Posted(j, kind, t, c) = tx[j]
      BY <2>2, <3>2 DEF Posted, Exists
    <3>4. QED
      BY <3>3
  <2>3. QED
    BY <1>1, <2>1, <2>2, Known DEF Unreserved
<1>4. AllClaims' = AllClaims
  <2>1. \A j \in TxKey : ClaimIn(tx'[j]) = ClaimIn(tx[j])
    <3> SUFFICES ASSUME NEW j \in TxKey PROVE ClaimIn(tx'[j]) = ClaimIn(tx[j])
      OBVIOUS
    <3>1. CASE j = k
      <4>1. tx'[k] = Posted(k, "TRADER_WITHDRAWAL", t, a)
        BY <1>1, <1>2 DEF Txs
      <4>2. QED
        BY <1>3, <3>1, <4>1
    <3>2. CASE j = fk
      <4>1. tx'[fk] = Posted(fk, "PERF_FEE", t, f)
        BY <1>1, <1>2 DEF Txs
      <4>2. QED
        BY <1>3, <3>2, <4>1
    <3>3. CASE j # k /\ j # fk
      <4>1. tx'[j] = tx[j]
        BY <1>1, <1>2, <3>3 DEF Txs
      <4>2. QED
        BY <4>1
    <3>4. QED
      BY <3>1, <3>2, <3>3
  <2>2. /\ AllClaims = [j \in TxKey |-> ClaimIn(tx[j])]
        /\ AllClaims' = [j \in TxKey |-> ClaimIn(tx'[j])]
    BY DEF AllClaims, ClaimOf, ClaimIn
  <2>3. QED
    BY <2>1, <2>2
<1>5. balance'[MASTER] = balance[MASTER] + (IF tx[k].status = "POSTED" THEN 0 ELSE a)
  BY <1>1, <1>2, Accounts
<1>6. \/ Available' = Available
      \/ Available' = Available + a
  <2>1. balance[MASTER] \in Int
    BY <1>1, Accounts
  <2>2. CASE tx[k].status = "POSTED"
    BY <1>1, <1>2, <1>5, <2>1, <2>2 DEF Available
  <2>3. CASE tx[k].status # "POSTED"
    BY <1>1, <1>2, <1>5, <2>1, <2>3 DEF Available
  <2>4. QED
    BY <2>2, <2>3
<1>7. QED
  BY <1>4, <1>6 DEF Stays, Receives

-----------------------------------------------------------------------------
\* Every ledger step is an escrow step or a stutter.
LEMMA StepRefines == LedgerInv /\ [LedgerNext]_ledgerVars => EscrowStep
<1> SUFFICES ASSUME LedgerInv, [LedgerNext]_ledgerVars PROVE EscrowStep
  OBVIOUS
<1>1. CASE UNCHANGED ledgerVars
  <2>1. Stays
    BY <1>1 DEF ledgerVars, Stays, Available, AllClaims, ClaimOf
  <2>2. QED
    BY <2>1, StepForms
<1>2. ASSUME NEW k \in TxKey, CommitDeposit(k) \/ ReleaseDeposit(k)
      PROVE  EscrowStep
  <2>1. CASE tx[k].status = "PENDING"
    BY <1>2, <2>1, CommitPays, ReleaseReturns, StepForms
  <2>2. CASE tx[k].status # "PENDING"
    BY <1>1, <1>2, <2>2 DEF CommitDeposit, ReleaseDeposit
  <2>3. QED
    BY <2>1, <2>2
<1>3. ASSUME NEW k \in TxKey, NEW a \in Amount, FundMasterAccount(k, a)
      PROVE  EscrowStep
  BY <1>3, FundReceives, StepForms
<1>4. ASSUME NEW k \in TxKey, NEW a \in Amount, NEW t \in Trader, CreateDepositHold(k, t, a)
      PROVE  EscrowStep
  BY <1>4, HoldTakes, StepForms
<1>5. ASSUME NEW k \in TxKey, NEW a \in Amount, NEW t \in Trader,
             Unreserved(k), PostWithdrawal(k, t, a) \/ PostPerfFee(k, t, a)
      PROVE  EscrowStep
  BY <1>5, WithdrawalReceives, FeeStays, StepForms
<1>6. ASSUME NEW k \in TxKey, NEW a \in Amount, NEW t \in Trader, NEW incoming \in BOOLEAN,
             Unreserved(k), PostCapitalRegularization(k, t, a, incoming)
      PROVE  EscrowStep
  BY <1>6, RegularizationTakesOrReceives, StepForms
<1>7. ASSUME NEW k \in TxKey, NEW a \in Amount, NEW t \in Trader, NEW fk \in TxKey,
             NEW f \in Amount, k # fk, Unreserved(k), Unreserved(fk),
             PostWithdrawalAndFee(k, fk, t, a, f)
      PROVE  EscrowStep
  BY <1>7, WithdrawalAndFeeReceives, StepForms
<1>8. QED
  BY <1>1, <1>2, <1>3, <1>4, <1>5, <1>6, <1>7 DEF LedgerNext

\* The ledger implements the escrow: reserved money is paid or given back
\* exactly once and in full, and only available money is reserved or paid.
THEOREM Refinement == LedgerSpec => ImplementsEscrow
<1>1. LedgerInit => Promise!EscrowInit
  BY EscrowInitially
<1>2. LedgerInv /\ [LedgerNext]_ledgerVars => [Promise!EscrowNext]_(Promise!escrowVars)
  BY StepRefines DEF EscrowStep
<1>3. QED
  BY <1>1, <1>2, InvariantHolds, PTL DEF LedgerSpec, ImplementsEscrow, Promise!EscrowSpec

-----------------------------------------------------------------------------
(* What is POSTED or FAILED is final *)

\* A transaction changes from nothing, or in its status while it is open.
Advances(k) ==
  Exists(k) => \/ tx'[k] = tx[k]
               \/ /\ tx[k].status = "PENDING"
                  /\ tx'[k] = [tx[k] EXCEPT !.status = tx'[k].status]

\* Writing a transaction that is not settled advances it.
LEMMA WriteAdvances ==
  ASSUME tx \in Txs, NEW k \in TxKey, NEW r, tx' = [tx EXCEPT ![k] = r],
         \/ tx[k] = NoTx
         \/ tx[k] = r
         \/ tx[k].status = "PENDING" /\ r = [tx[k] EXCEPT !.status = r.status]
  PROVE  \A j \in TxKey : Advances(j)
<1>1. tx'[k] = r /\ \A j \in TxKey \ {k} : tx'[j] = tx[j]
  BY DEF Txs
<1>2. Advances(k)
  BY <1>1, Zenon DEF Advances, Exists
<1>3. \A j \in TxKey \ {k} : Advances(j)
  BY <1>1 DEF Advances
<1>4. QED
  BY <1>2, <1>3

\* A posting under an unreserved key is new, or writes what was there.
LEMMA PostedUnreserved ==
  ASSUME LedgerInv, NEW k \in TxKey, Unreserved(k), NEW kind, NEW t, NEW a
  PROVE  tx[k] = NoTx \/ Posted(k, kind, t, a) = tx[k]
<1>1. CASE tx[k] # NoTx /\ tx[k].status = "POSTED"
  <2>1. tx[k] \in Transaction
    BY <1>1, Facts, Known
  <2>2. [tx[k] EXCEPT !.status = "POSTED"] = tx[k]
    BY <1>1, <2>1 DEF Transaction
  <2>3. QED
    BY <1>1, <2>2 DEF Posted, Exists
<1>2. QED
  BY <1>1, UnreservedKey

\* Every ledger step leaves a settled transaction alone.
LEMMA StepAdvances == LedgerInv /\ [LedgerNext]_ledgerVars => [\A k \in TxKey : Advances(k)]_tx
<1> SUFFICES ASSUME LedgerInv, LedgerNext PROVE \A k \in TxKey : Advances(k)
  BY DEF ledgerVars
<1> USE Facts
<1>1. ASSUME UNCHANGED ledgerVars
      PROVE  \A j \in TxKey : Advances(j)
  BY <1>1 DEF ledgerVars, Advances
<1>2. ASSUME NEW k \in TxKey, CommitDeposit(k)
      PROVE  \A j \in TxKey : Advances(j)
  <2>1. CASE tx[k].status = "PENDING" /\ tx' = [tx EXCEPT ![k].status = "POSTED"]
    <3> DEFINE r == [tx[k] EXCEPT !.status = "POSTED"]
    <3>1. tx[k] \in Transaction
      BY <2>1
    <3>2. r = [tx[k] EXCEPT !.status = r.status]
      BY <3>1 DEF Transaction
    <3>3. tx' = [tx EXCEPT ![k] = r]
      BY <2>1
    <3> HIDE DEF r
    <3>4. QED
      BY <2>1, <3>2, <3>3, WriteAdvances
  <2>2. QED
    BY <1>1, <1>2, <2>1 DEF CommitDeposit
<1>3. ASSUME NEW k \in TxKey, ReleaseDeposit(k)
      PROVE  \A j \in TxKey : Advances(j)
  <2>1. CASE tx[k].status = "PENDING" /\ tx' = [tx EXCEPT ![k].status = "FAILED"]
    <3> DEFINE r == [tx[k] EXCEPT !.status = "FAILED"]
    <3>1. tx[k] \in Transaction
      BY <2>1
    <3>2. r = [tx[k] EXCEPT !.status = r.status]
      BY <3>1 DEF Transaction
    <3>3. tx' = [tx EXCEPT ![k] = r]
      BY <2>1
    <3> HIDE DEF r
    <3>4. QED
      BY <2>1, <3>2, <3>3, WriteAdvances
  <2>2. QED
    BY <1>1, <1>3, <2>1 DEF ReleaseDeposit
<1>4. ASSUME NEW k \in TxKey, NEW a \in Amount, FundMasterAccount(k, a)
      PROVE  \A j \in TxKey : Advances(j)
  BY <1>4, WriteAdvances DEF FundMasterAccount, Exists
<1>5. ASSUME NEW k \in TxKey, NEW a \in Amount, NEW t \in Trader, CreateDepositHold(k, t, a)
      PROVE  \A j \in TxKey : Advances(j)
  BY <1>5, WriteAdvances DEF CreateDepositHold, Exists
<1>6. ASSUME NEW k \in TxKey, NEW a \in Amount, NEW t \in Trader, Unreserved(k),
             PostWithdrawal(k, t, a) \/ PostPerfFee(k, t, a)
      PROVE  \A j \in TxKey : Advances(j)
  BY <1>1, <1>6, PostedUnreserved, WriteAdvances DEF PostWithdrawal, PostPerfFee
<1>7. ASSUME NEW k \in TxKey, NEW a \in Amount, NEW t \in Trader, NEW incoming \in BOOLEAN,
             Unreserved(k), PostCapitalRegularization(k, t, a, incoming)
      PROVE  \A j \in TxKey : Advances(j)
  BY <1>1, <1>7, PostedUnreserved, WriteAdvances DEF PostCapitalRegularization
<1>8. ASSUME NEW k \in TxKey, NEW a \in Amount, NEW t \in Trader, NEW fk \in TxKey,
             NEW f \in Amount, k # fk, Unreserved(k), Unreserved(fk),
             PostWithdrawalAndFee(k, fk, t, a, f)
      PROVE  \A j \in TxKey : Advances(j)
  <2>1. tx' = [tx EXCEPT ![k] = Posted(k, "TRADER_WITHDRAWAL", t, a),
                         ![fk] = Posted(fk, "PERF_FEE", t, f)]
    BY <1>8 DEF PostWithdrawalAndFee
  <2>2. tx'[k] = Posted(k, "TRADER_WITHDRAWAL", t, a) /\ tx'[fk] = Posted(fk, "PERF_FEE", t, f)
    BY <1>8, <2>1 DEF Txs
  <2>3. \A j \in TxKey \ {k, fk} : tx'[j] = tx[j]
    BY <2>1 DEF Txs
  <2>4. Advances(k) /\ Advances(fk)
    BY <1>8, <2>2, PostedUnreserved DEF Advances, Exists
  <2>5. \A j \in TxKey \ {k, fk} : Advances(j)
    BY <2>3 DEF Advances
  <2>6. QED
    BY <2>4, <2>5
<1>9. QED
  BY <1>2, <1>3, <1>4, <1>5, <1>6, <1>7, <1>8 DEF LedgerNext

\* No operation rewrites a transaction that is POSTED or FAILED, and an open one
\* keeps its kind, trader and amount.
THEOREM PostedIsFinal == LedgerSpec => TxFinal
<1>1. LedgerInv /\ [LedgerNext]_ledgerVars
        => [\A k \in TxKey :
              Exists(k) => \/ tx'[k] = tx[k]
                           \/ /\ tx[k].status = "PENDING"
                              /\ tx'[k] = [tx[k] EXCEPT !.status = tx'[k].status]]_tx
  BY StepAdvances DEF Advances
<1>2. QED
  BY <1>1, InvariantHolds, PTL DEF LedgerSpec, TxFinal
=============================================================================
