------------------------------ MODULE Capital ------------------------------
(***************************************************************************)
(* Deposits and withdrawals between the MASTER account and the MT5 accounts *)
(* of the clients (app/services/mam_capital_service.py), as the concurrent  *)
(* HTTP requests that run them, the database they share, and the external   *)
(* MAM engine that really moves the money.                                 *)
(*                                                                         *)
(* A request is a sequence of database transactions with one engine call in *)
(* the middle.  A step is one query, one committed transaction or one event *)
(* of the engine call, so every interleaving at an await is a behaviour.    *)
(* A handler may die between any two steps, and the engine's answer may be  *)
(* late, lost or an error that says nothing about the money.               *)
(***************************************************************************)
EXTENDS Ledger

CONSTANTS
  Request,     \* the HTTP requests; each makes one call
  Key,         \* the idempotency keys the callers send
  MamAccount,  \* the MT5 accounts
  Owner,       \* the trader each account belongs to
  Call,        \* the calls a client may make
  EngineKey,   \* the keys as the engine sees them
  Stripped,    \* what _idem makes of a key before it travels
  Blank,       \* what _idem makes of a key of spaces: it refuses it
  LongKey,     \* the keys whose "ldg-" form exceeds the ledger's column
  Fee,         \* the performance fees a withdrawal may be charged, with 0
  GuardLimit   \* how many PENDING movements _guard_in_flight looks at

Ldg(k) == <<"ldg", k>>
Pf(k) == <<"pf", k>>

CallType == [op : {"DEPOSIT", "WITHDRAWAL"}, key : Key, account : MamAccount, amount : Amount]

ASSUME CapitalAssumption ==
  /\ {"ldg", "pf"} \X Key \subseteq TxKey
  /\ Owner \in [MamAccount -> Trader]
  /\ Call \subseteq CallType
  /\ Blank \notin EngineKey
  /\ Stripped \in [Key -> EngineKey \cup {Blank}]
  /\ LongKey \subseteq Key
  /\ Fee \subseteq Amount \cup {0}
  /\ GuardLimit \in Nat \ {0}

VARIABLES
  movement,   \* the Movement row of each idempotency key
  request,    \* the local state of each request's handler
  wire,       \* the engine call of each request: what is in flight
  engine      \* what the engine did under each of its keys

vars == <<balance, pendingDebit, tx, movement, request, wire, engine>>

Statuses == {"PENDING", "COMPLETED", "FAILED", "AMBIGUOUS", "REJECTED"}
Unresolved == {"PENDING", "AMBIGUOUS"}

NoMovement == [direction |-> "NONE", status |-> "NONE"]
Movement == [direction : {"DEPOSIT", "WITHDRAWAL"}, status : Statuses,
             account : MamAccount, amount : Amount]
            \cup [direction : {"FUNDING"}, status : {"COMPLETED"}, amount : Amount]

Idle == [pc |-> "idle"]
Pc == {"lookup", "guard", "insert", "call", "wait", "done"}
Result == {"none", "created", "existing", "refused", "uncertain", "error", "lost"}

Untouched == [state |-> "unseen"]
Executed == [state : {"executed"}, for : Key, op : {"DEPOSIT", "WITHDRAWAL"},
             account : MamAccount, amount : Amount, fee : Fee \cup {0}]

\* "zero" and "negative" answer a withdrawal 200, with that requested_amount.
Wire == {"quiet", "sent", "ok", "reused", "zero", "negative", "rejected", "conflict", "error"}

At(r, pc) == request[r].pc = pc
CallOf(r) == request[r].call
KeyOf(r) == CallOf(r).key
TraderOf(r) == Owner[CallOf(r).account]
EngineOf(k) == engine[Stripped[k]]

\* The MT5 movements, by status.
OnAccount(k) == movement[k].direction \in {"DEPOSIT", "WITHDRAWAL"}
PendingOn(acc) == {k \in Key : OnAccount(k) /\ movement[k].status = "PENDING"
                                            /\ movement[k].account = acc}
PendingOf(t) == {k \in Key : OnAccount(k) /\ movement[k].status = "PENDING"
                                          /\ Owner[movement[k].account] = t}

Goto(r, pc) == request' = [request EXCEPT ![r].pc = pc]
Answer(r, result) == request' = [request EXCEPT ![r].pc = "done", ![r].result = result]
SetStatus(k, status) == movement' = [movement EXCEPT ![k].status = status]
NewMovement(c) == [direction |-> c.op, status |-> "PENDING",
                   account |-> c.account, amount |-> c.amount]

-----------------------------------------------------------------------------
Init ==
  /\ LedgerInit
  /\ movement = [k \in Key |-> NoMovement]
  /\ request = [r \in Request |-> Idle]
  /\ wire = [r \in Request |-> "quiet"]
  /\ engine = [e \in EngineKey \cup {Blank} |-> Untouched]

\* The MASTER account is funded: movement and ledger entry in one transaction,
\* under a key no movement has (a taken key returns that movement, unchanged).
Fund(k, a) ==
  /\ movement[k] = NoMovement /\ k \notin LongKey
  /\ movement' = [movement EXCEPT ![k] =
                    [direction |-> "FUNDING", status |-> "COMPLETED", amount |-> a]]
  /\ FundMasterAccount(Ldg(k), a)
  /\ UNCHANGED <<request, wire, engine>>

\* A request arrives: _normalize and _resolve have accepted the call.
Start(r, c) ==
  /\ At(r, "idle")
  /\ request' = [request EXCEPT ![r] = [pc |-> "lookup", call |-> c, result |-> "none"]]
  /\ UNCHANGED <<ledgerVars, movement, wire, engine>>

\* get_by_idempotency_key: a movement under this key is returned as it is.
Lookup(r) ==
  /\ At(r, "lookup")
  /\ \/ movement[KeyOf(r)] # NoMovement /\ Answer(r, "existing")
     \/ movement[KeyOf(r)] = NoMovement /\ Goto(r, "guard")
  /\ UNCHANGED <<ledgerVars, movement, wire, engine>>

\* _guard_in_flight: looks at no more than GuardLimit PENDING movements of the
\* trader, and refuses when one of them is on this account.
Guard(r) ==
  /\ At(r, "guard")
  /\ \E seen \in SUBSET PendingOf(TraderOf(r)) :
       /\ \/ seen = PendingOf(TraderOf(r)) /\ Cardinality(seen) <= GuardLimit
          \/ Cardinality(seen) = GuardLimit
       /\ IF seen \cap PendingOn(CallOf(r).account) # {}
            THEN Answer(r, "refused") ELSE Goto(r, "insert")
  /\ UNCHANGED <<ledgerVars, movement, wire, engine>>

InsertableNoIndex(k, acc) == movement[k] = NoMovement

InsertableNoKeyIndex(k, acc) == PendingOn(acc) = {}

\* The unique indexes of movements: one row per key, one PENDING per account.
Insertable(k, acc) == movement[k] = NoMovement /\ PendingOn(acc) = {}

\* The transaction of a deposit: PENDING movement and hold, both or neither.
InsertDeposit(r) ==
  LET c == CallOf(r)
      fits == Insertable(c.key, c.account) /\ c.key \notin LongKey
  IN  /\ At(r, "insert") /\ c.op = "DEPOSIT"
      /\ \/ /\ fits
            /\ CreateDepositHold(Ldg(c.key), TraderOf(r), c.amount)
            /\ movement' = [movement EXCEPT ![c.key] = NewMovement(c)]
            /\ Goto(r, "call")
         \/ /\ ~fits \/ Available < c.amount
            /\ Answer(r, IF fits THEN "refused" ELSE "error")
            /\ UNCHANGED <<ledgerVars, movement>>
      /\ UNCHANGED <<wire, engine>>

\* The first transaction of a withdrawal: its PENDING movement only.
InsertWithdrawal(r) ==
  LET c == CallOf(r)
  IN  /\ At(r, "insert") /\ c.op = "WITHDRAWAL"
      /\ \/ /\ Insertable(c.key, c.account)
            /\ movement' = [movement EXCEPT ![c.key] = NewMovement(c)]
            /\ Goto(r, "call")
         \/ /\ ~Insertable(c.key, c.account)
            /\ Answer(r, "error")
            /\ UNCHANGED movement
      /\ UNCHANGED <<ledgerVars, wire, engine>>

\* The request leaves for the engine under its stripped key.
Send(r) ==
  /\ At(r, "call") /\ Stripped[KeyOf(r)] # Blank
  /\ Goto(r, "wait")
  /\ wire' = [wire EXCEPT ![r] = "sent"]
  /\ UNCHANGED <<ledgerVars, movement, engine>>

-----------------------------------------------------------------------------
(* The engine.  It may act on a request long after the client gave up, and   *)
(* an "error" answer (5xx, 502, 401, 403, 404, a broken connection) can come  *)
(* with or without the money having moved.                                   *)

\* The money moves, under a key the engine had not seen.
EngineExecute(r) ==
  LET c == CallOf(r)
  IN  /\ wire[r] = "sent" /\ EngineOf(c.key) = Untouched
      /\ \E fee \in IF c.op = "WITHDRAWAL" THEN Fee \cup {0} ELSE {0} :
           engine' = [engine EXCEPT ![Stripped[c.key]] =
             [state |-> "executed", for |-> c.key, op |-> c.op,
              account |-> c.account, amount |-> c.amount, fee |-> fee]]
      /\ \E answer \in {"ok", "error"} : wire' = [wire EXCEPT ![r] = answer]
      /\ UNCHANGED <<ledgerVars, movement, request>>

\* A key already executed: the same operation is answered again without moving
\* money, another one is a 409.
EngineRepeat(r) ==
  LET c == CallOf(r)
      done == EngineOf(c.key)
      same == done.op = c.op /\ done.account = c.account /\ done.amount = c.amount
  IN  /\ wire[r] = "sent" /\ done # Untouched
      /\ wire' = [wire EXCEPT ![r] = IF same THEN "reused" ELSE "conflict"]
      /\ UNCHANGED <<ledgerVars, movement, request, engine>>

\* The engine accepts a withdrawal and moves nothing.
EngineEmpty(r) ==
  /\ wire[r] = "sent" /\ CallOf(r).op = "WITHDRAWAL" /\ EngineOf(KeyOf(r)) = Untouched
  /\ \E answer \in {"zero", "negative"} : wire' = [wire EXCEPT ![r] = answer]
  /\ UNCHANGED <<ledgerVars, movement, request, engine>>

\* The engine refuses (400, 422; 409), or fails or never gets the request.
EngineRefuse(r) ==
  /\ wire[r] = "sent" /\ EngineOf(KeyOf(r)) = Untouched
  /\ \E answer \in {"rejected", "conflict", "error"} : wire' = [wire EXCEPT ![r] = answer]
  /\ UNCHANGED <<ledgerVars, movement, request, engine>>

-----------------------------------------------------------------------------
(* What the handler does with the answer: one transaction each.              *)

\* The engine answered a deposit 200 (also when it recognised the key, which
\* the code does not look at): commit_deposit and COMPLETED.
DepositSettle(r) ==
  /\ At(r, "wait") /\ CallOf(r).op = "DEPOSIT" /\ wire[r] \in {"ok", "reused"}
  /\ CommitDeposit(Ldg(KeyOf(r)))
  /\ SetStatus(KeyOf(r), "COMPLETED")
  /\ Answer(r, "created")
  /\ UNCHANGED <<wire, engine>>

RefusedOnError(r) == At(r, "wait") /\ wire[r] \in {"rejected", "conflict", "error"}

\* A business refusal, by the engine or by _idem before sending: _release.
Refused(r) ==
  \/ At(r, "wait") /\ wire[r] \in {"rejected", "conflict"}
  \/ At(r, "call") /\ Stripped[KeyOf(r)] = Blank

DepositReject(r) ==
  /\ Refused(r) /\ CallOf(r).op = "DEPOSIT"
  /\ ReleaseDeposit(Ldg(KeyOf(r)))
  /\ SetStatus(KeyOf(r), "FAILED")
  /\ Answer(r, "refused")
  /\ UNCHANGED <<wire, engine>>

WithdrawSettleNoFee(r) ==
  /\ At(r, "wait") /\ CallOf(r).op = "WITHDRAWAL" /\ wire[r] = "ok"
  /\ PostWithdrawal(Ldg(KeyOf(r)), TraderOf(r), CallOf(r).amount)
  /\ SetStatus(KeyOf(r), "COMPLETED")
  /\ Answer(r, "created")
  /\ UNCHANGED <<wire, engine>>

\* efectivo = requested_amount or amount: a zero is falsy, and books the amount
\* of the call.  (A positive one is that amount: there are no partial withdrawals.)
WithdrawSettle(r) ==
  LET k == KeyOf(r)
      fee == IF wire[r] = "zero" THEN 0 ELSE EngineOf(k).fee
  IN  /\ At(r, "wait") /\ CallOf(r).op = "WITHDRAWAL" /\ wire[r] \in {"ok", "zero"}
      /\ k \notin LongKey
      /\ \/ /\ fee = 0
            /\ PostWithdrawal(Ldg(k), TraderOf(r), CallOf(r).amount)
         \/ /\ fee > 0
            /\ PostWithdrawalAndFee(Ldg(k), Pf(k), TraderOf(r), CallOf(r).amount, fee)
      /\ SetStatus(k, "COMPLETED")
      /\ Answer(r, "created")
      /\ UNCHANGED <<wire, engine>>

\* "ldg-" and a key of more than 116 characters do not fit the ledger's column:
\* the database error is not one the handler catches, and nothing is recorded.
WithdrawTooLong(r) ==
  /\ At(r, "wait") /\ CallOf(r).op = "WITHDRAWAL" /\ wire[r] \in {"ok", "zero"}
  /\ KeyOf(r) \in LongKey
  /\ Answer(r, "error")
  /\ UNCHANGED <<ledgerVars, movement, wire, engine>>

\* efectivo <= 0: REJECTED, and no ledger entry.
WithdrawEmpty(r) ==
  /\ At(r, "wait") /\ CallOf(r).op = "WITHDRAWAL" /\ wire[r] = "negative"
  /\ SetStatus(KeyOf(r), "REJECTED")
  /\ Answer(r, "created")
  /\ UNCHANGED <<ledgerVars, wire, engine>>

WithdrawReusedBooked(r) ==
  /\ At(r, "wait") /\ CallOf(r).op = "WITHDRAWAL" /\ wire[r] = "reused"
  /\ PostWithdrawal(Ldg(KeyOf(r)), TraderOf(r), CallOf(r).amount)
  /\ SetStatus(KeyOf(r), "COMPLETED")
  /\ Answer(r, "created")
  /\ UNCHANGED <<wire, engine>>

\* The engine recognised the key and debited nothing: no ledger entry.
WithdrawReused(r) ==
  /\ At(r, "wait") /\ CallOf(r).op = "WITHDRAWAL" /\ wire[r] = "reused"
  /\ SetStatus(KeyOf(r), "COMPLETED")
  /\ Answer(r, "created")
  /\ UNCHANGED <<ledgerVars, wire, engine>>

WithdrawReject(r) ==
  /\ Refused(r) /\ CallOf(r).op = "WITHDRAWAL"
  /\ SetStatus(KeyOf(r), "FAILED")
  /\ Answer(r, "refused")
  /\ UNCHANGED <<ledgerVars, wire, engine>>

UncertainReleases(r) ==
  /\ At(r, "call") \/ At(r, "wait")
  /\ IF CallOf(r).op = "DEPOSIT" THEN ReleaseDeposit(Ldg(KeyOf(r))) ELSE UNCHANGED ledgerVars
  /\ SetStatus(KeyOf(r), "AMBIGUOUS")
  /\ Answer(r, "uncertain")
  /\ UNCHANGED <<wire, engine>>

UncertainFails(r) ==
  /\ At(r, "call") \/ At(r, "wait")
  /\ SetStatus(KeyOf(r), "FAILED")
  /\ Answer(r, "uncertain")
  /\ UNCHANGED <<ledgerVars, wire, engine>>

UncertainNoTimeout(r) ==
  /\ At(r, "call") \/ (At(r, "wait") /\ wire[r] = "error")
  /\ SetStatus(KeyOf(r), "AMBIGUOUS")
  /\ Answer(r, "uncertain")
  /\ UNCHANGED <<ledgerVars, wire, engine>>

\* Anything else: a timeout (whatever the engine does or did), an error answer
\* or missing configuration.  The movement is AMBIGUOUS and the hold is kept.
Uncertain(r) ==
  /\ At(r, "call") \/ At(r, "wait")
  /\ SetStatus(KeyOf(r), "AMBIGUOUS")
  /\ Answer(r, "uncertain")
  /\ UNCHANGED <<ledgerVars, wire, engine>>

\* The handler dies: crash, restart, cancellation, or a database error in the
\* transaction it is running, which rolls back.
Abandon(r) ==
  /\ request[r].pc \notin {"idle", "done"}
  /\ Answer(r, "lost")
  /\ UNCHANGED <<ledgerVars, movement, wire, engine>>

-----------------------------------------------------------------------------
Handle(r) ==
  \/ Lookup(r) \/ Guard(r) \/ InsertDeposit(r) \/ InsertWithdrawal(r) \/ Send(r)
  \/ DepositSettle(r) \/ DepositReject(r)
  \/ WithdrawSettle(r) \/ WithdrawTooLong(r) \/ WithdrawEmpty(r) \/ WithdrawReused(r)
  \/ WithdrawReject(r) \/ Uncertain(r)

Engine(r) == EngineExecute(r) \/ EngineRepeat(r) \/ EngineEmpty(r) \/ EngineRefuse(r)

Next ==
  \/ \E k \in Key, a \in Amount : Fund(k, a)
  \/ \E r \in Request : \/ \E c \in Call : Start(r, c)
                        \/ Handle(r) \/ Engine(r) \/ Abandon(r)

Spec == Init /\ [][Next]_vars

\* A handler that is not killed keeps running (the event loop is fair), and a
\* call to the engine ends by its answer or by httpx's timeout.  Nothing is
\* assumed of the engine or of the clients.
FairSpec == Spec /\ \A r \in Request : WF_vars(Handle(r))

-----------------------------------------------------------------------------
(* Properties *)

\* Type correctness.
CapitalTypeOK ==
  /\ LedgerTypeOK
  /\ movement \in [Key -> Movement \cup {NoMovement}]
  /\ request \in [Request -> [pc : Pc, call : Call, result : Result] \cup {Idle}]
  /\ wire \in [Request -> Wire]
  /\ engine \in [EngineKey \cup {Blank} -> Executed \cup {Untouched}]

\* Two operations are never in flight on the same MT5 account, even when the
\* pre-check of _guard_in_flight misses the first one.
OneInFlight == \A acc \in MamAccount : Cardinality(PendingOn(acc)) <= 1

\* The reservation follows the movement: it is open exactly while the money may
\* be moving or its fate is unknown, committed exactly when the deposit is
\* COMPLETED and released exactly when it FAILED.
HoldFollowsMovement ==
  \A k \in Key :
    CASE movement[k].direction = "DEPOSIT" ->
           tx[Ldg(k)].status = (CASE movement[k].status \in Unresolved -> "PENDING"
                                  [] movement[k].status = "COMPLETED" -> "POSTED"
                                  [] movement[k].status = "FAILED" -> "FAILED")
      [] movement[k].direction = "WITHDRAWAL" ->
           movement[k].status # "COMPLETED" => tx[Ldg(k)] = NoTx
      [] movement[k].direction = "FUNDING" -> tx[Ldg(k)].status = "POSTED"
      [] OTHER -> tx[Ldg(k)] = NoTx /\ tx[Pf(k)] = NoTx

\* No key is ever sent to the engine by two requests, whatever retries the
\* clients make and however the retries interleave.
SentOnce ==
  \A r, s \in Request :
    wire[r] # "quiet" /\ wire[s] # "quiet" /\ KeyOf(r) = KeyOf(s) => r = s

MovedFor(k) == \E e \in EngineKey : engine[e] # Untouched /\ engine[e].for = k
MayStillMove(k) == \E r \in Request : wire[r] = "sent" /\ KeyOf(r) = k
                                      /\ EngineOf(k) = Untouched

\* A movement is declared FAILED (and its reservation released) or REJECTED only
\* when the engine did not move the money and can no longer do it.
FailedNeverMoves ==
  \A k \in Key : movement[k].status \in {"FAILED", "REJECTED"} =>
                 ~MovedFor(k) /\ ~MayStillMove(k)

\* The movements booked on an answer that moved nothing: deposits under a key the
\* engine had executed for another of the same letters, and withdrawals it
\* answered with a zero.
Answered(k, answer) == \E r \in Request : wire[r] = answer /\ KeyOf(r) = k
CompletedOn(op, answer) ==
  {k \in Key : /\ movement[k].direction = op /\ movement[k].status = "COMPLETED"
               /\ Answered(k, answer)}
Echoed == CompletedOn("DEPOSIT", "reused")
Imagined == CompletedOn("WITHDRAWAL", "zero")

\* A movement that is booked was executed by the engine, with its account, amount
\* and fee: for itself, or, of an echoed deposit, for the key it is an echo of.
\* Only a withdrawal answered with a zero is booked without.
BookedWasMoved ==
  \A k \in Key \ Imagined :
    OnAccount(k) /\ tx[Ldg(k)].status = "POSTED" =>
      LET e == EngineOf(k)
      IN  /\ e # Untouched /\ (e.for # k => k \in Echoed)
          /\ e.op = movement[k].direction /\ e.account = movement[k].account
          /\ e.amount = tx[Ldg(k)].amount /\ tx[Ldg(k)].trader = Owner[e.account]
          /\ tx[Pf(k)].amount = e.fee

\* What the engine moved, in total: op for the movements of S.
Moved(op, S) == {e \in EngineKey : /\ engine[e] # Untouched
                                   /\ engine[e].op = op /\ engine[e].for \in S}
EngineTotal(M) == Cardinality(UNION {{e} \X (1 .. engine[e].amount) : e \in M})

\* The cash that is really left: what was funded, less what left for MT5, plus
\* what came back.
Cash == Total(Booked("MASTER_ACCOUNT_FUNDING"))
        + EngineTotal(Moved("WITHDRAWAL", Key)) - EngineTotal(Moved("DEPOSIT", Key))

BookTotal(K) == Total({Ldg(k) : k \in K})

\* The engine never sends out money the MASTER account was not funded with, or
\* credited with for a withdrawal answered with a zero: keeping the reservation of
\* every uncertain deposit is what makes it true.
NeverOverdrawn == Cash + BookTotal(Imagined) >= 0

UnresolvedKeys == {k \in Key : movement[k].status \in Unresolved}

\* The books are wrong about the cash by exactly the unresolved movements and the
\* ones booked on an answer that moved nothing: any other movement is in the books
\* if and only if its money moved.
BooksFollowEngine ==
  balance[MASTER] = Cash + EngineTotal(Moved("DEPOSIT", UnresolvedKeys))
                         - EngineTotal(Moved("WITHDRAWAL", UnresolvedKeys))
                         + BookTotal(Imagined) - BookTotal(Echoed)

\* A PENDING movement has a handler at work, or one that died; a key that the
\* ledger cannot hold may also have one that gave up (WithdrawTooLong).
PendingHasHandler ==
  \A k \in Key \ LongKey : OnAccount(k) /\ movement[k].status = "PENDING" =>
    \E r \in Request : /\ request[r] # Idle /\ KeyOf(r) = k
                       /\ request[r].pc \in {"call", "wait"} \/ request[r].result = "lost"

\* Only a PENDING movement changes, and only its status: no late answer, retry
\* or second handler rewrites a movement that was resolved or given up.
MovementFinal ==
  [][\A k \in Key :
       movement[k] # NoMovement =>
         \/ movement'[k] = movement[k]
         \/ /\ movement[k].status = "PENDING"
            /\ movement'[k] = [movement[k] EXCEPT !.status = movement'[k].status]]_movement

\* Every step is a step of the ledger or leaves it alone: the callers keep the
\* obligations the ledger puts on them (LedgerNext), keys included.
ImplementsLedger == LedgerSpec

\* Every call ends, even when the engine never answers.
EveryCallEnds == \A r \in Request : request[r] # Idle ~> At(r, "done")
=============================================================================
