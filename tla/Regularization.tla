--------------------------- MODULE Regularization ---------------------------
(***************************************************************************)
(* MamCapitalService.regularize with apply=true: a sweep reads the history   *)
(* of an MT5 account from the engine and books, in one transaction, the      *)
(* capital that moved without passing through this service.  With            *)
(* include_internal it also books deposits and withdrawals of the service,   *)
(* to rebuild the books of an imported account.  (apply=false only reads.)   *)
(*                                                                         *)
(* Sweeps run beside the deposits and withdrawals of Capital.  The ledger    *)
(* transaction of a row of the history has the key regularize:mam:<id>.      *)
(***************************************************************************)
EXTENDS Capital, Functions

CONSTANTS
  Sweep,     \* the calls of regularize
  Past,      \* what moves in MT5 without this service: rows by id
  PageSize   \* how many rows the engine lists in one page

\* OWN rows carry the types DEPOSIT and WITHDRAWAL: they were made through the
\* service before the account was imported.
Row == [id : EngineKey \cup DOMAIN Past, type : {"EXTERNAL", "OWN"},
        account : MamAccount, amount : Amount, incoming : BOOLEAN]

Reg(row) == <<"regularize", row.id>>

ASSUME RegularizationAssumption ==
  /\ DOMAIN Past \cap EngineKey = {}
  /\ \A x \in DOMAIN Past : Past[x] \in Row /\ Past[x].id = x
  /\ {"regularize"} \X (EngineKey \cup DOMAIN Past) \subseteq TxKey
  /\ PageSize \in Nat \ {0}

VARIABLES
  happened,  \* the rows of Past that are in the history by now
  sweep      \* the local state of each sweep

sweepVars == <<balance, pendingDebit, tx, movement, request, wire, engine, happened, sweep>>

SweepIdle == [pc |-> "idle"]
SweepRunning == [pc : {"count", "list", "post", "done"}, account : MamAccount,
                 internal : BOOLEAN, rows : SUBSET Row,
                 result : {"none", "posted", "nothing", "refused", "error", "lost"}]

SweepAt(s, pc) == sweep[s].pc = pc
SweepGoto(s, pc) == sweep' = [sweep EXCEPT ![s].pc = pc]
SweepAnswer(s, result) == sweep' = [sweep EXCEPT ![s].pc = "done", ![s].result = result]

\* The EXECUTED history of an account: what this service moved, and the rest.
Executions(acc) ==
  {[id |-> e, type |-> "OWN", account |-> acc, amount |-> engine[e].amount,
    incoming |-> engine[e].op = "DEPOSIT"] :
     e \in {d \in EngineKey : engine[d] # Untouched /\ engine[d].account = acc}}
History(acc) == Executions(acc) \cup {Past[x] : x \in {y \in happened : Past[y].account = acc}}

SweepInit ==
  /\ Init
  /\ happened = {}
  /\ sweep = [s \in Sweep |-> SweepIdle]

-----------------------------------------------------------------------------
\* Capital moves in MT5 by another way.
Happen(x) ==
  /\ x \notin happened
  /\ happened' = happened \cup {x}
  /\ UNCHANGED <<vars, sweep>>

StartSweep(s, acc, internal) ==
  /\ SweepAt(s, "idle")
  /\ sweep' = [sweep EXCEPT ![s] = [pc |-> IF internal THEN "count" ELSE "list", rows |-> {},
                                    account |-> acc, internal |-> internal, result |-> "none"]]
  /\ UNCHANGED <<vars, happened>>

CountLocalUnguarded(s) ==
  /\ SweepAt(s, "count")
  /\ SweepGoto(s, "list")
  /\ UNCHANGED <<vars, happened>>

\* _sin_movimientos_locales: include_internal only for an account without a
\* single movement here, whatever its status.
CountLocal(s) ==
  /\ SweepAt(s, "count")
  /\ IF \E k \in Key : OnAccount(k) /\ movement[k].account = sweep[s].account
       THEN SweepAnswer(s, "refused") ELSE SweepGoto(s, "list")
  /\ UNCHANGED <<vars, happened>>

\* list_balance_transactions: the engine answers one page, of which the sweep
\* keeps the EXTERNAL_* rows, or all.
ListRows(s) ==
  LET history == History(sweep[s].account)
  IN  /\ SweepAt(s, "list")
      /\ \E page \in SUBSET history :
           /\ \/ page = history /\ Cardinality(page) <= PageSize
              \/ Cardinality(page) = PageSize
           /\ sweep' = [sweep EXCEPT ![s].pc = "post", ![s].rows =
                          {row \in page : row.type = "EXTERNAL" \/ sweep[s].internal}]
      /\ UNCHANGED <<vars, happened>>

TodoAll(s) == sweep[s].rows

\* The rows that are not POSTED yet.
Todo(s) == {row \in sweep[s].rows : tx[Reg(row)].status # "POSTED"}

Incoming(rows) == {row \in rows : row.incoming}
Outgoing(rows) == {row \in rows : ~row.incoming}
RowsTotal(rows) == Cardinality(UNION {{row} \X (1 .. row.amount) : row \in rows})
Net(rows) == RowsTotal(Incoming(rows)) - RowsTotal(Outgoing(rows))

\* The orders in which rows can stand on the engine's page.
Orders(rows) == Bijection(1 .. Cardinality(rows), rows)

AffordableAlone(rows) ==
  \A i \in DOMAIN rows : rows[i].incoming => Available >= rows[i].amount

\* Each incoming row finds its amount available, after those before it.
Affordable(rows) ==
  \A i \in DOMAIN rows :
    rows[i].incoming => Available - Net({rows[j] : j \in 1 .. i - 1}) >= rows[i].amount

KindOf(row) == IF row.incoming THEN "TRADER_DEPOSIT" ELSE "TRADER_WITHDRAWAL"

\* post_capital_regularization of every row, and one commit.
PostRows(rows, t) ==
  /\ balance' = [balance EXCEPT ![MASTER] = @ - Net(rows), ![t] = @ + Net(rows)]
  /\ tx' = [k \in TxKey |->
              IF \E row \in rows : Reg(row) = k
                THEN LET row == CHOOSE x \in rows : Reg(x) = k
                     IN  Posted(k, KindOf(row), t, row.amount)
                ELSE tx[k]]
  /\ UNCHANGED pendingDebit

\* The rows are posted in the order of the page; when one cannot be paid it
\* raises, and none is.
Post(s) ==
  /\ SweepAt(s, "post")
  /\ \/ /\ Todo(s) = {}
        /\ SweepAnswer(s, "nothing")
        /\ UNCHANGED ledgerVars
     \/ /\ Todo(s) # {}
        /\ \E page \in Orders(Todo(s)) :
             \/ /\ Affordable(page)
                /\ PostRows(Todo(s), Owner[sweep[s].account])
                /\ SweepAnswer(s, "posted")
             \/ /\ ~Affordable(page)
                /\ SweepAnswer(s, "error")
                /\ UNCHANGED ledgerVars
  /\ UNCHANGED <<movement, request, wire, engine, happened>>

\* The sweep dies, the engine does not answer, or another sweep has posted one
\* of its rows in the meantime and the unique key rolls it back.
AbandonSweep(s) ==
  /\ sweep[s].pc \notin {"idle", "done"}
  /\ SweepAnswer(s, "lost")
  /\ UNCHANGED <<vars, happened>>

Requested(s) == \E acc \in MamAccount, internal \in BOOLEAN : StartSweep(s, acc, internal)

Sweeping ==
  \/ \E x \in DOMAIN Past : Happen(x)
  \/ \E s \in Sweep :
       \/ Requested(s)
       \/ CountLocal(s) \/ ListRows(s) \/ Post(s) \/ AbandonSweep(s)

Operating == Next /\ UNCHANGED <<happened, sweep>>

\* Nobody starts an operation on an account while a sweep with include_internal
\* is rebuilding its books.
Rebuilding(acc) ==
  \E s \in Sweep : /\ sweep[s] # SweepIdle /\ sweep[s].account = acc
                   /\ sweep[s].internal /\ sweep[s].pc \in {"list", "post"}
Undisturbed ==
  \A k \in Key : movement[k] = NoMovement /\ OnAccount(k)' => ~Rebuilding(movement'[k].account)

SweepSpec == SweepInit /\ [][Sweeping \/ (Operating /\ Undisturbed)]_sweepVars

\* Operations start at any time.
RacingSpec == SweepInit /\ [][Sweeping \/ Operating]_sweepVars

-----------------------------------------------------------------------------
(* Properties *)

\* What the engine moved for a movement is in the books once: by the movement's
\* own flow or by a sweep, never by both.
BookedOnce ==
  \A e \in EngineKey : engine[e] # Untouched =>
    ~(tx[<<"regularize", e>>].status = "POSTED" /\ tx[Ldg(engine[e].for)].status = "POSTED")

\* The books of the MASTER account are the cash it would have if it had paid
\* what moved without it and was regularized: each such row counts once, in its
\* direction, however many sweeps read it and whatever else is in flight.
Regularized == {x \in happened : tx[Reg(Past[x])].status = "POSTED"}
BooksFollowHistory ==
  balance[MASTER] = Cash - Net({Past[x] : x \in Regularized})
                    + EngineTotal(Moved("DEPOSIT", UnresolvedKeys))
                    - EngineTotal(Moved("WITHDRAWAL", UnresolvedKeys))
                    + BookTotal(Imagined) - BookTotal(Echoed)
=============================================================================
