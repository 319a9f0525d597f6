------------------------------- MODULE Ledger -------------------------------
(***************************************************************************)
(* The double-entry ledger of app/services/ledger_service.py: one           *)
(* pre-funded MASTER account, one holdings account per trader and two       *)
(* global counterparts.  The balance of an account is debits minus credits. *)
(*                                                                         *)
(* Every function of the service runs under FOR UPDATE row locks that are   *)
(* held until its caller commits, so a committed call is one step here.     *)
(* LedgerAccount.balance and the sum recomputed from the entries are written *)
(* by the same _apply_entry, so one number per account stands for both.     *)
(* Amounts are whole cents.                                                *)
(***************************************************************************)
EXTENDS Integers, FiniteSets

CONSTANTS
  Trader,     \* the clients, each with one TRADER_HOLDINGS account
  NoTrader,   \* the trader_id of a transaction that has none (funding)
  TxKey,      \* LedgerTransaction.idempotency_key
  Amount      \* the amounts, in cents, that callers ask for

MASTER == "MASTER_ACCOUNT"
EXTERNAL == "EXTERNAL_FUNDING"
FEES == "PERF_FEE_PAID"
Global == {MASTER, EXTERNAL, FEES}

\* The holdings account of a trader is named by the trader.
LedgerAccount == Global \cup Trader

ASSUME AmountAssumption == Amount \subseteq Nat \ {0}
ASSUME TraderAssumption == Trader \cap Global = {} /\ NoTrader \notin Trader

VARIABLES
  balance,        \* LedgerAccount.balance, and the sum of its entries
  pendingDebit,   \* LedgerAccount.pending_debit of the MASTER account
  tx              \* the transaction of each idempotency key, or NoTx

ledgerVars == <<balance, pendingDebit, tx>>

TxKind == {"TRADER_DEPOSIT", "TRADER_WITHDRAWAL", "MASTER_ACCOUNT_FUNDING", "PERF_FEE"}
TxStatus == {"PENDING", "POSTED", "FAILED"}

NoTx == [kind |-> "NONE", status |-> "NONE", trader |-> NoTrader, amount |-> 0]

Transaction == [kind : TxKind, status : TxStatus,
                trader : Trader \cup {NoTrader}, amount : Amount]

NewTxNoAmount(kind, status, t, a) ==
  [kind |-> kind, status |-> status, trader |-> t, amount |-> 0]

NewTx(kind, status, t, a) ==
  [kind |-> kind, status |-> status, trader |-> t, amount |-> a]

Exists(k) == tx[k] # NoTx

Available == balance[MASTER] - pendingDebit

-----------------------------------------------------------------------------
(* The operations, one per function of LedgerService. *)

FundMasterAccountAgain(k, a) ==
  /\ tx' = [tx EXCEPT ![k] = NewTx("MASTER_ACCOUNT_FUNDING", "POSTED", NoTrader, a)]
  /\ balance' = [balance EXCEPT ![MASTER] = @ + a, ![EXTERNAL] = @ - a]
  /\ UNCHANGED pendingDebit

\* fund_master_account: external money enters the MASTER account.  A key that
\* is taken violates the unique index, and the caller's transaction rolls back.
FundMasterAccount(k, a) ==
  /\ ~Exists(k)
  /\ tx' = [tx EXCEPT ![k] = NewTx("MASTER_ACCOUNT_FUNDING", "POSTED", NoTrader, a)]
  /\ balance' = [balance EXCEPT ![MASTER] = @ + a, ![EXTERNAL] = @ - a]
  /\ UNCHANGED pendingDebit

CreateDepositHoldOnBalance(k, t, a) ==
  /\ balance[MASTER] >= a
  /\ ~Exists(k)
  /\ tx' = [tx EXCEPT ![k] = NewTx("TRADER_DEPOSIT", "PENDING", t, a)]
  /\ pendingDebit' = pendingDebit + a
  /\ UNCHANGED balance

\* create_deposit_hold: reserves a in the MASTER account.  Without enough
\* available money it raises and nothing is written.
CreateDepositHold(k, t, a) ==
  /\ Available >= a
  /\ ~Exists(k)
  /\ tx' = [tx EXCEPT ![k] = NewTx("TRADER_DEPOSIT", "PENDING", t, a)]
  /\ pendingDebit' = pendingDebit + a
  /\ UNCHANGED balance

CommitDepositKeepsHold(k) ==
  /\ tx[k].status = "PENDING"
  /\ balance' = [balance EXCEPT ![MASTER] = @ - tx[k].amount,
                                ![tx[k].trader] = @ + tx[k].amount]
  /\ tx' = [tx EXCEPT ![k].status = "POSTED"]
  /\ UNCHANGED pendingDebit

\* commit_deposit: the reserved money leaves for the trader's holdings.
CommitDeposit(k) ==
  \/ /\ tx[k].status = "POSTED"
     /\ UNCHANGED ledgerVars
  \/ /\ tx[k].status = "PENDING"
     /\ balance' = [balance EXCEPT ![MASTER] = @ - tx[k].amount,
                                   ![tx[k].trader] = @ + tx[k].amount]
     /\ pendingDebit' = pendingDebit - tx[k].amount
     /\ tx' = [tx EXCEPT ![k].status = "POSTED"]

ReleaseDepositUnguarded(k) ==
  /\ Exists(k)
  /\ pendingDebit' = pendingDebit - tx[k].amount
  /\ tx' = [tx EXCEPT ![k].status = "FAILED"]
  /\ UNCHANGED balance

\* release_deposit: gives the reserved money back to the available balance.
ReleaseDeposit(k) ==
  \/ /\ tx[k].status \in {"POSTED", "FAILED"}
     /\ UNCHANGED ledgerVars
  \/ /\ tx[k].status = "PENDING"
     /\ pendingDebit' = pendingDebit - tx[k].amount
     /\ tx' = [tx EXCEPT ![k].status = "FAILED"]
     /\ UNCHANGED balance

\* The transaction that a post_* function leaves under its key: a new one, or
\* the one that was there and was not POSTED yet.
Posted(k, kind, t, a) ==
  IF Exists(k) THEN [tx[k] EXCEPT !.status = "POSTED"]
               ELSE NewTx(kind, "POSTED", t, a)

PostWithdrawalTwice(k, t, a) ==
  /\ balance' = [balance EXCEPT ![MASTER] = @ + a, ![t] = @ - a]
  /\ tx' = [tx EXCEPT ![k] = Posted(k, "TRADER_WITHDRAWAL", t, a)]
  /\ UNCHANGED pendingDebit

\* post_withdrawal: a trader's money comes back to the MASTER account.
PostWithdrawal(k, t, a) ==
  \/ /\ tx[k].status = "POSTED"
     /\ UNCHANGED ledgerVars
  \/ /\ tx[k].status # "POSTED"
     /\ balance' = [balance EXCEPT ![MASTER] = @ + a, ![t] = @ - a]
     /\ tx' = [tx EXCEPT ![k] = Posted(k, "TRADER_WITHDRAWAL", t, a)]
     /\ UNCHANGED pendingDebit

\* post_perf_fee: a fee left the trader's account for a leader's PAYMENT one.
PostPerfFee(k, t, a) ==
  \/ /\ tx[k].status = "POSTED"
     /\ UNCHANGED ledgerVars
  \/ /\ tx[k].status # "POSTED"
     /\ balance' = [balance EXCEPT ![FEES] = @ + a, ![t] = @ - a]
     /\ tx' = [tx EXCEPT ![k] = Posted(k, "PERF_FEE", t, a)]
     /\ UNCHANGED pendingDebit

\* The two calls a settled withdrawal makes in one database transaction:
\* post_withdrawal under k and, when a fee f was charged, post_perf_fee under fk.
\* A leg whose key is POSTED already writes nothing.
PostWithdrawalAndFee(k, fk, t, a, f) ==
  LET moved == IF tx[k].status = "POSTED" THEN 0 ELSE a
      charged == IF tx[fk].status = "POSTED" THEN 0 ELSE f
  IN  /\ balance' = [balance EXCEPT ![MASTER] = @ + moved, ![FEES] = @ + charged,
                                    ![t] = @ - moved - charged]
      /\ tx' = [tx EXCEPT ![k] = Posted(k, "TRADER_WITHDRAWAL", t, a),
                          ![fk] = Posted(fk, "PERF_FEE", t, f)]
      /\ UNCHANGED pendingDebit

RegularizationUnchecked(k, t, a, incoming) ==
  /\ tx[k].status # "POSTED"
  /\ LET signed == IF incoming THEN a ELSE 0 - a
     IN  balance' = [balance EXCEPT ![MASTER] = @ - signed, ![t] = @ + signed]
  /\ tx' = [tx EXCEPT ![k] =
              Posted(k, IF incoming THEN "TRADER_DEPOSIT" ELSE "TRADER_WITHDRAWAL", t, a)]
  /\ UNCHANGED pendingDebit

\* post_capital_regularization: books capital that moved in MT5 without this
\* service.  Incoming capital is paid by the MASTER account, and only from its
\* available balance.
PostCapitalRegularization(k, t, a, incoming) ==
  \/ /\ tx[k].status = "POSTED"
     /\ UNCHANGED ledgerVars
  \/ /\ tx[k].status # "POSTED"
     /\ incoming => Available >= a
     /\ LET signed == IF incoming THEN a ELSE 0 - a
        IN  balance' = [balance EXCEPT ![MASTER] = @ - signed, ![t] = @ + signed]
     /\ tx' = [tx EXCEPT ![k] =
                 Posted(k, IF incoming THEN "TRADER_DEPOSIT" ELSE "TRADER_WITHDRAWAL", t, a)]
     /\ UNCHANGED pendingDebit

-----------------------------------------------------------------------------
LedgerInit ==
  /\ balance = [c \in LedgerAccount |-> 0]
  /\ pendingDebit = 0
  /\ tx = [k \in TxKey |-> NoTx]

\* What the callers guarantee: post_* is never called with the key of a
\* reservation, open or released.  (Capital shows that its callers keep this.)
Unreserved(k) == tx[k].status \in {"NONE", "POSTED"}

LedgerNext ==
  \E k \in TxKey :
    \/ CommitDeposit(k)
    \/ ReleaseDeposit(k)
    \/ \E a \in Amount :
         \/ FundMasterAccount(k, a)
         \/ \E t \in Trader :
              \/ CreateDepositHold(k, t, a)
              \/ Unreserved(k) /\ PostWithdrawal(k, t, a)
              \/ Unreserved(k) /\ PostPerfFee(k, t, a)
              \/ /\ Unreserved(k)
                 /\ \E incoming \in BOOLEAN : PostCapitalRegularization(k, t, a, incoming)
              \/ \E fk \in TxKey, f \in Amount :
                   /\ k # fk /\ Unreserved(k) /\ Unreserved(fk)
                   /\ PostWithdrawalAndFee(k, fk, t, a, f)

LedgerSpec == LedgerInit /\ [][LedgerNext]_ledgerVars

-----------------------------------------------------------------------------
(* Sums of amounts.  A sum is the number of units, pairs of a key and a cent
   of its amount: TLC counts them, and the proofs need only cardinalities. *)
Units(k) == {k} \X (1 .. tx[k].amount)
UnitsOf(S) == UNION {Units(k) : k \in S}
Total(S) == Cardinality(UnitsOf(S))

Held == {k \in TxKey : tx[k].status = "PENDING"}
Booked(kind) == {k \in TxKey : tx[k].status = "POSTED" /\ tx[k].kind = kind}
BookedFor(kind, t) == {k \in Booked(kind) : tx[k].trader = t}

\* Type correctness.
LedgerTypeOK ==
  /\ balance \in [LedgerAccount -> Int]
  /\ pendingDebit \in Int
  /\ tx \in [TxKey -> Transaction \cup {NoTx}]

\* The MASTER account never promises or pays money it does not have, whatever
\* mix of reservations, withdrawals and regularizations is posted (the check of
\* create_deposit_hold and post_capital_regularization is enough).
Solvent == 0 <= pendingDebit /\ pendingDebit <= balance[MASTER]

\* pending_debit, a counter three functions adjust, is the sum of the open
\* reservations: none leaks and none is given back twice.
HoldsMatch == pendingDebit = Total(Held)

\* Every balance is what the POSTED transactions say: each is booked once, on
\* both its accounts, with its own amount.
BooksMatch ==
  /\ balance[MASTER] = Total(Booked("MASTER_ACCOUNT_FUNDING"))
                       + Total(Booked("TRADER_WITHDRAWAL")) - Total(Booked("TRADER_DEPOSIT"))
  /\ balance[EXTERNAL] = 0 - Total(Booked("MASTER_ACCOUNT_FUNDING"))
  /\ balance[FEES] = Total(Booked("PERF_FEE"))
  /\ \A t \in Trader :
       balance[t] = Total(BookedFor("TRADER_DEPOSIT", t))
                    - Total(BookedFor("TRADER_WITHDRAWAL", t)) - Total(BookedFor("PERF_FEE", t))

\* The ledger seen as an escrow: what is available is free, and each deposit
\* transaction is a claim on the MASTER account.
ClaimOf(k) ==
  IF tx[k].kind # "TRADER_DEPOSIT" THEN [state |-> "none", amount |-> 0]
  ELSE [state  |-> CASE tx[k].status = "PENDING" -> "held"
                     [] tx[k].status = "POSTED" -> "paid"
                     [] tx[k].status = "FAILED" -> "returned",
        amount |-> tx[k].amount]

Promise == INSTANCE Escrow WITH Payment <- TxKey, free <- Available,
                                escrow <- [k \in TxKey |-> ClaimOf(k)]

\* Whatever the callers do, the ledger's operations are those of an escrow:
\* reserved money is paid or released exactly once, with the reserved amount,
\* and only available money is reserved or paid.
ImplementsEscrow == Promise!EscrowSpec

\* A transaction that is POSTED or FAILED never changes again, and an open one
\* keeps its kind, trader and amount.
TxFinal ==
  [][\A k \in TxKey :
       Exists(k) => \/ tx'[k] = tx[k]
                    \/ /\ tx[k].status = "PENDING"
                       /\ tx'[k] = [tx[k] EXCEPT !.status = tx'[k].status]]_tx
=============================================================================
