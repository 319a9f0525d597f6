------------------------------- MODULE PerfFee ------------------------------
(***************************************************************************)
(* The reconciliation of performance fees (MamPerfFeeService).             *)
(*                                                                         *)
(* The engine charges the investors of a strategy and lists the payments.  *)
(* A pass over a strategy fetches the list, reads its own row of each       *)
(* payment, one after the other, and commits rows and ledger entries        *)
(* together.  Several passes run at once: the cron goes through all the     *)
(* strategies in one session, a request through one of them.               *)
(* The entry of a payment has the key mam-pf-<id>: a key is a payment here. *)
(***************************************************************************)
EXTENDS Ledger

CONSTANTS
  Master,    \* the strategies
  Client,    \* the requests that reconcile one strategy
  MasterOf,  \* the strategy a payment goes to
  OwnerOf,   \* the client whose account it comes from
  AmountOf,  \* how much it is
  PageCap    \* how many payments the pages of one listing hold at most

Payment == TxKey

ASSUME PerfFeeAssumption ==
  /\ MasterOf \in [TxKey -> Master]
  /\ OwnerOf \in [TxKey -> Trader]
  /\ AmountOf \in [TxKey -> Amount]
  /\ PageCap \in Nat \ {0}

VARIABLES
  charged,  \* the payments of the engine
  known,    \* the clients whose account is in mam_accounts
  fee,      \* mam_perf_fee_payments
  pass      \* what each reconciliation is doing

feeVars == <<balance, pendingDebit, tx, charged, known, fee, pass>>

Cron == "cron"
Passes == Client \cup {Cron}

\* posted: ledger_tx_id is set.
Fee == [status : {"PENDING", "EXECUTED", "FAILED"}, trader : Trader \cup {NoTrader},
        posted : BOOLEAN]
NoFee == [status |-> "NONE", trader |-> NoTrader, posted |-> FALSE]

\* post is post_ledger, todo are the strategies still to come, list what the
\* engine listed of the current one, left the payments not looked at; of those looked at, seen is the
\* row that was loaded and now the row as it is to be; booking are those to post.
Idle == [pc |-> "idle"]
Blank == [i \in Payment |-> NoFee]
Begin(p, S, post) ==
  pass' = [pass EXCEPT ![p] = [pc |-> "fetch", post |-> post, todo |-> S, left |-> {}, booking |-> {},
                               list |-> [i \in Payment |-> "NONE"], seen |-> Blank, now |-> Blank]]
End(p) == pass' = [pass EXCEPT ![p] = Idle]

PerfFeeInit ==
  /\ LedgerInit
  /\ charged = [i \in Payment |-> "NONE"]
  /\ known = {}
  /\ fee = Blank
  /\ pass = [p \in Passes |-> Idle]

-----------------------------------------------------------------------------
(* The engine, and the import of accounts                                  *)

\* A payment is listed while its run goes on, and is executed or fails.
Charge(i) ==
  /\ \/ charged[i] = "NONE" /\ \E s \in {"PENDING", "EXECUTED"} : charged' = [charged EXCEPT ![i] = s]
     \/ charged[i] = "PENDING" /\ \E s \in {"EXECUTED", "FAILED"} : charged' = [charged EXCEPT ![i] = s]
  /\ UNCHANGED <<ledgerVars, known, fee, pass>>

ImportAccount(t) ==
  /\ known' = known \cup {t}
  /\ UNCHANGED <<ledgerVars, charged, fee, pass>>

-----------------------------------------------------------------------------
(* A pass                                                                  *)

\* reconcile_all, which always posts.
StartAll(p) ==
  /\ pass[p] = Idle
  /\ Begin(p, Master, TRUE)
  /\ UNCHANGED <<ledgerVars, charged, known, fee>>

\* reconcile, of one strategy: post is FALSE to look at the payments first.
StartOne(p, m, post) ==
  /\ pass[p] = Idle
  /\ Begin(p, {m}, post)
  /\ UNCHANGED <<ledgerVars, charged, known, fee>>

PaymentsTo(m) == {i \in Payment : MasterOf[i] = m /\ charged[i] # "NONE"}

\* What a pass may see of a strategy: collect_all stops at the last page it may
\* ask for, and a request, unlike the timer, may also ask for a period or a run.
Listings(p, m) ==
  {S \in SUBSET PaymentsTo(m) :
     /\ Cardinality(S) <= PageCap
     /\ p = Cron /\ S # PaymentsTo(m) => Cardinality(S) = PageCap}

\* The list of a strategy is fetched.
Fetch(p, m) ==
  \E S \in Listings(p, m) :
    LET list == [i \in Payment |-> IF i \in S THEN charged[i] ELSE "NONE"]
    IN
      /\ pass[p].pc = "fetch" /\ m \in pass[p].todo
      /\ pass' = [pass EXCEPT ![p] =
           [pc |-> "rows", post |-> pass[p].post, todo |-> pass[p].todo \ {m}, list |-> list,
            left |-> S, seen |-> Blank, now |-> Blank, booking |-> {}]]
      /\ UNCHANGED <<ledgerVars, charged, known, fee>>

\* The engine does not answer: the strategy is noted and the others go on.
FetchFails(p, m) ==
  /\ pass[p].pc = "fetch" /\ m \in pass[p].todo
  /\ IF pass[p].todo = {m} THEN End(p) ELSE pass' = [pass EXCEPT ![p].todo = @ \ {m}]
  /\ UNCHANGED <<ledgerVars, charged, known, fee>>

AttributedOnce(i, f) == IF f = NoFee /\ OwnerOf[i] \in known THEN OwnerOf[i] ELSE f.trader

\* The client a payment belongs to, as far as the row f or the accounts tell.
Attributed(i, f) ==
  IF f.trader = NoTrader /\ OwnerOf[i] \in known THEN OwnerOf[i] ELSE f.trader

PayableListed(status, f, t) == ~f.posted /\ t # NoTrader

\* Only what was paid, is not in the ledger, and has an owner is posted.
Payable(status, f, t) == status = "EXECUTED" /\ ~f.posted /\ t # NoTrader

\* The row of a payment is read, and what becomes of it decided: an entry that
\* exists already is only noted.
ReadRow(p, i) ==
  LET c == pass[p]
      f == fee[i]
      t == Attributed(i, f)
      status == c.list[i]
      pay == c.post /\ Payable(status, f, t)
  IN  /\ c.pc = "rows" /\ i \in c.left
      /\ pass' = [pass EXCEPT ![p] =
           [c EXCEPT !.left = @ \ {i}, !.seen[i] = f,
                     !.now[i] = [status |-> status, trader |-> t, posted |-> f.posted \/ pay],
                     !.booking = @ \cup IF pay /\ tx[i].status # "POSTED" THEN {i} ELSE {}]]
      /\ UNCHANGED <<ledgerVars, charged, known, fee>>

NeverCollides(c) == FALSE

\* Another pass has inserted a row or an entry meanwhile.
Collides(c) ==
  \/ \E i \in Payment : c.now[i] # NoFee /\ c.seen[i] = NoFee /\ fee[i] # NoFee
  \/ \E i \in c.booking : Exists(i)

\* A column is written where it differs from what was loaded.
Changed(old, seen, now) == IF now = seen THEN old ELSE now

Written(c) == [i \in Payment |->
  IF c.now[i] = NoFee THEN fee[i]
  ELSE [status |-> Changed(fee[i].status, c.seen[i].status, c.now[i].status),
        trader |-> Changed(fee[i].trader, c.seen[i].trader, c.now[i].trader),
        posted |-> Changed(fee[i].posted, c.seen[i].posted, c.now[i].posted)]]

\* Sums are counted in units, as in Ledger.
AmountIn(S) == Cardinality(UNION {{i} \X (1 .. AmountOf[i]) : i \in S})
AmountFrom(S, t) == AmountIn({i \in S : OwnerOf[i] = t})

\* post_perf_fee of every payment in S, in one transaction.
PostFees(S) ==
  /\ tx' = [i \in Payment |-> IF i \in S THEN NewTx("PERF_FEE", "POSTED", OwnerOf[i], AmountOf[i])
                                         ELSE tx[i]]
  /\ balance' = [c \in LedgerAccount |->
                   IF c \in Trader THEN balance[c] - AmountFrom(S, c)
                   ELSE IF c = FEES THEN balance[c] + AmountIn(S) ELSE balance[c]]
  /\ UNCHANGED pendingDebit

\* Rows and entries are committed together.  After a collision nothing is, and
\* the session is of no more use: the strategies that follow are left too.
Commit(p) ==
  LET c == pass[p]
  IN  /\ c.pc = "rows" /\ c.left = {}
      /\ IF Collides(c)
           THEN End(p) /\ UNCHANGED <<ledgerVars, fee>>
           ELSE /\ fee' = Written(c) /\ PostFees(c.booking)
                /\ IF c.todo = {} THEN End(p) ELSE Begin(p, c.todo, c.post)
      /\ UNCHANGED <<charged, known>>

\* The request is dropped, or the process dies.
Abandon(p) ==
  /\ pass[p] # Idle
  /\ End(p)
  /\ UNCHANGED <<ledgerVars, charged, known, fee>>

Step(p) == (\E m \in Master : Fetch(p, m)) \/ (\E i \in Payment : ReadRow(p, i)) \/ Commit(p)

Reconciled ==
  \/ \E p \in Passes : StartAll(p)
  \/ \E p \in Client, m \in Master, post \in BOOLEAN : StartOne(p, m, post)

PerfFeeNext ==
  \/ \E i \in Payment : Charge(i)
  \/ \E t \in Trader : ImportAccount(t)
  \/ Reconciled
  \/ \E p \in Passes : Step(p) \/ Abandon(p) \/ \E m \in Master : FetchFails(p, m)

PerfFeeSpec == PerfFeeInit /\ [][PerfFeeNext]_feeVars

\* The timer starts the cron for ever, a pass that runs gets on, and from some
\* time on the engine answers the cron and nothing kills it.
Disturbed == (Abandon(Cron) /\ ~Commit(Cron)) \/ \E m \in Master : FetchFails(Cron, m)

FairPerfFeeSpec ==
  PerfFeeSpec /\ WF_feeVars(StartAll(Cron) \/ Step(Cron)) /\ <>[][~Disturbed]_feeVars

-----------------------------------------------------------------------------
(* Properties                                                              *)

\* However many passes run over one payment, the ledger charges a client only
\* what the engine took from an account of that client.
ChargedWasPaid ==
  \A i \in Payment : Exists(i) => charged[i] = "EXECUTED" /\ OwnerOf[i] \in known

\* Rows and ledger never part: a payment is in the ledger once exactly if its
\* row says so, under its client, also when two passes meet and one is undone.
RowsFollowBooks ==
  LET booked == {i \in Payment : fee[i].posted}
  IN  /\ booked = {i \in Payment : Exists(i)}
      /\ balance[FEES] = AmountIn(booked)
      /\ \A t \in Trader : balance[t] = 0 - AmountFrom({i \in booked : fee[i].trader = t}, t)

\* What is paid and not in the ledger.  A listing shows only so many payments of
\* a strategy: beyond them, a payment may never be seen.
Owed == {i \in Payment : /\ charged[i] = "EXECUTED" /\ OwnerOf[i] \in known /\ ~fee[i].posted
                         /\ Cardinality(PaymentsTo(MasterOf[i])) <= PageCap}

\* Every fee that a client of ours has paid gets to the ledger in the end: if its
\* row came before the payment was executed, before the account was imported, or
\* with a request that was not to post, a later pass makes up for it; and passes
\* that collide, and lose the strategies still to come, do not do so for ever.
PaidIsBooked == Owed # {} ~> Owed = {}
=============================================================================
