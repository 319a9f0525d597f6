---------------------------- MODULE CapitalProofs ---------------------------
(***************************************************************************)
(* The invariants of Capital, for any number of requests, keys, accounts     *)
(* and amounts, and the proof that every step of it is a step of Ledger.     *)
(*                                                                         *)
(* The state is spread over a movement, a handler, a call on the wire, what  *)
(* the engine did and two ledger transactions.  CapitalInv says how these    *)
(* belong together for one key: a key is claimed by at most one handler,     *)
(* what the engine did was for a claim, and the ledger says of the key what  *)
(* the movement says.                                                       *)
(*                                                                         *)
(* The second half is about Regularization: the sweeps that run beside the   *)
(* requests write other keys of the ledger, and SweepInv says of these that  *)
(* each is one row of what moved without this service.                       *)
(***************************************************************************)
EXTENDS Regularization, LedgerProofs

-----------------------------------------------------------------------------
(* The invariant *)

StateType ==
  /\ tx \in Txs
  /\ movement \in [Key -> Movement \cup {NoMovement}]
  /\ request \in [Request -> [pc : Pc, call : Call, result : Result] \cup {Idle}]
  /\ wire \in [Request -> Wire]
  /\ engine \in [EngineKey \cup {Blank} -> Executed \cup {Untouched}]

\* A handler holds its key from the insert of the movement on; once its call
\* has left, it holds it for ever.
Holds(r) == request[r].pc \in {"call", "wait"}
Claims(r) == Holds(r) \/ wire[r] # "quiet"

OnItsWay(r) ==
  wire[r] # "quiet" => request[r].pc \in {"wait", "done"} /\ Stripped[KeyOf(r)] # Blank

\* The movement of a claimed key is the one the handler inserted; it is PENDING
\* as long as the handler is at work.
MovementOfClaim(r) ==
  Claims(r) => /\ movement[KeyOf(r)].direction = CallOf(r).op
               /\ movement[KeyOf(r)].account = CallOf(r).account
               /\ movement[KeyOf(r)].amount = CallOf(r).amount
               /\ Holds(r) => movement[KeyOf(r)].status = "PENDING"

OneClaim ==
  \A r, s \in Request : Claims(r) /\ Claims(s) /\ KeyOf(r) = KeyOf(s) => r = s

\* What the engine executed, it did for a handler that was told so, or told of
\* an error.
ExecutedFor(e, r) ==
  /\ wire[r] \in {"ok", "error"}
  /\ e = Stripped[KeyOf(r)] /\ engine[e].for = KeyOf(r)
  /\ engine[e].op = CallOf(r).op /\ engine[e].account = CallOf(r).account
  /\ engine[e].amount = CallOf(r).amount
  /\ CallOf(r).op = "DEPOSIT" => engine[e].fee = 0

EngineTrue ==
  \A e \in EngineKey \cup {Blank} :
    engine[e] # Untouched => \E r \in Request : ExecutedFor(e, r)

\* What an answer says of the engine; without a refusal nothing is FAILED, and
\* nothing REJECTED unless the answer was negative.
AnswerTrue(r) ==
  /\ wire[r] = "ok" => EngineOf(KeyOf(r)) # Untouched /\ EngineOf(KeyOf(r)).for = KeyOf(r)
  /\ wire[r] = "reused" => /\ EngineOf(KeyOf(r)) # Untouched
                           /\ EngineOf(KeyOf(r)).for # KeyOf(r)
                           /\ EngineOf(KeyOf(r)).op = CallOf(r).op
                           /\ EngineOf(KeyOf(r)).account = CallOf(r).account
                           /\ EngineOf(KeyOf(r)).amount = CallOf(r).amount
  /\ wire[r] \in {"sent", "ok", "reused", "zero", "error"} =>
       movement[KeyOf(r)].status \notin {"FAILED", "REJECTED"}

HoldStatus(status) == CASE status \in Unresolved -> "PENDING"
                        [] status = "COMPLETED" -> "POSTED"
                        [] OTHER -> "FAILED"

\* The fee that was charged with a withdrawal, in the ledger.
FeeTx(t, f) == IF f = 0 THEN NoTx ELSE NewTx("PERF_FEE", "POSTED", t, f)

\* A withdrawal that is booked: the engine moved the money, or answered a zero.
MovedWithdrawal(k) ==
  /\ Stripped[k] # Blank /\ EngineOf(k) # Untouched /\ EngineOf(k).for = k
  /\ tx[Pf(k)] = FeeTx(Owner[movement[k].account], EngineOf(k).fee)
BookedWithdrawal(k) ==
  /\ movement[k].status = "COMPLETED"
  /\ tx[Ldg(k)] = NewTx("TRADER_WITHDRAWAL", "POSTED", Owner[movement[k].account],
                        movement[k].amount)
  /\ MovedWithdrawal(k) \/ (Answered(k, "zero") /\ tx[Pf(k)] = NoTx)

\* What the ledger says of a key, by its movement.
BooksOf(k) ==
  LET m == movement[k]
  IN  /\ m.direction # "WITHDRAWAL" => tx[Pf(k)] = NoTx
      /\ m.direction = "NONE" => tx[Ldg(k)] = NoTx
      /\ m.direction = "FUNDING" =>
           tx[Ldg(k)] = NewTx("MASTER_ACCOUNT_FUNDING", "POSTED", NoTrader, m.amount)
      /\ m.direction = "DEPOSIT" =>
           /\ m.status # "REJECTED"
           /\ tx[Ldg(k)] = NewTx("TRADER_DEPOSIT", HoldStatus(m.status), Owner[m.account],
                                 m.amount)
      /\ m.direction = "WITHDRAWAL" =>
           \/ tx[Ldg(k)] = NoTx /\ tx[Pf(k)] = NoTx
           \/ BookedWithdrawal(k)

\* A deposit that is COMPLETED is what the engine executed under its stripped key,
\* for it or for another key, and then the answer said so; and so is a withdrawal
\* that is COMPLETED without being in the books, always for another key.
CompletedOf(k) ==
  OnAccount(k) /\ movement[k].status = "COMPLETED" =>
    /\ movement[k].direction = "DEPOSIT" =>
         /\ Stripped[k] # Blank /\ EngineOf(k) # Untouched
         /\ EngineOf(k).op = "DEPOSIT" /\ EngineOf(k).account = movement[k].account
         /\ EngineOf(k).amount = movement[k].amount
         /\ EngineOf(k).for = k \/ Answered(k, "reused")
    /\ movement[k].direction = "WITHDRAWAL" /\ tx[Ldg(k)] = NoTx =>
         EngineOf(k) # Untouched /\ EngineOf(k).for # k /\ Answered(k, "reused")

Pending(k) == OnAccount(k) /\ movement[k].status = "PENDING"

OnePending ==
  \A j, k \in Key :
    Pending(j) /\ Pending(k) /\ movement[j].account = movement[k].account => j = k

\* A PENDING movement has a handler at work or dead, or cannot be booked.
Cared(k) ==
  Pending(k) =>
    \E r \in Request :
      /\ request[r] # Idle /\ KeyOf(r) = k
      /\ Holds(r) \/ (request[r].pc = "done" /\ (request[r].result = "lost" \/ k \in LongKey))

CapitalInv ==
  /\ StateType
  /\ \A r \in Request : OnItsWay(r) /\ MovementOfClaim(r) /\ AnswerTrue(r)
  /\ OneClaim /\ EngineTrue /\ OnePending
  /\ \A k \in Key : BooksOf(k) /\ CompletedOf(k) /\ Cared(k)

\* The keys of the ledger that belong to movements; nothing else is in it.
Ours == {"ldg", "pf"} \X Key
OnlyMovements == \A x \in TxKey \ Ours : tx[x] = NoTx

-----------------------------------------------------------------------------
(* Types and keys *)

\* The keys of the ledger that belong to a movement are all different.
LEMMA LedgerKeys ==
  /\ \A k \in Key : Ldg(k) \in TxKey /\ Pf(k) \in TxKey
  /\ \A j, k \in Key : Ldg(j) # Pf(k)
  /\ \A j, k \in Key : (Ldg(j) = Ldg(k) => j = k) /\ (Pf(j) = Pf(k) => j = k)
BY CapitalAssumption DEF Ldg, Pf

\* A handler that has started.
LEMMA Started ==
  ASSUME StateType, NEW r \in Request, request[r].pc # "idle"
  PROVE  /\ request[r] # Idle /\ request[r] \in [pc : Pc, call : Call, result : Result]
         /\ CallOf(r) \in Call /\ KeyOf(r) \in Key
         /\ CallOf(r).op \in {"DEPOSIT", "WITHDRAWAL"}
         /\ CallOf(r).account \in MamAccount /\ CallOf(r).amount \in Amount
         /\ TraderOf(r) \in Trader
         /\ Stripped[KeyOf(r)] \in EngineKey \cup {Blank}
<1>1. request[r] # Idle
  BY DEF Idle
<1>2. request[r] \in [pc : Pc, call : Call, result : Result]
  BY <1>1 DEF StateType
<1>3. CallOf(r) \in Call /\ CallOf(r) \in CallType
  BY <1>2, CapitalAssumption DEF CallOf
<1>4. /\ KeyOf(r) \in Key /\ CallOf(r).op \in {"DEPOSIT", "WITHDRAWAL"}
      /\ CallOf(r).account \in MamAccount /\ CallOf(r).amount \in Amount
  BY <1>3 DEF CallType, KeyOf
<1>5. TraderOf(r) \in Trader /\ Stripped[KeyOf(r)] \in EngineKey \cup {Blank}
  BY <1>4, CapitalAssumption DEF TraderOf
<1>6. QED
  BY <1>1, <1>2, <1>3, <1>4, <1>5

\* A handler that is not idle has a pc that says so.
LEMMA NotIdle ==
  ASSUME StateType, NEW r \in Request
  PROVE  /\ request[r].pc = "idle" <=> request[r] = Idle
         /\ request[r].pc \in Pc \cup {"idle"}
<1>1. CASE request[r] = Idle
  BY <1>1 DEF Idle
<1>2. CASE request[r] # Idle
  <2>1. request[r].pc \in Pc
    BY <1>2 DEF StateType
  <2>2. QED
    BY <1>2, <2>1 DEF Pc
<1>3. QED
  BY <1>1, <1>2

\* A claimant has started.
LEMMA ClaimantStarted ==
  ASSUME StateType, NEW r \in Request, OnItsWay(r), Claims(r)
  PROVE  request[r].pc # "idle" /\ request[r] # Idle
BY NotIdle DEF OnItsWay, Claims, Holds, Idle

\* Movements, by direction.
LEMMA MovementTyped ==
  ASSUME StateType, NEW k \in Key
  PROVE  /\ movement[k].direction = "NONE" <=> movement[k] = NoMovement
         /\ OnAccount(k) =>
              /\ movement[k] \in [direction : {"DEPOSIT", "WITHDRAWAL"}, status : Statuses,
                                  account : MamAccount, amount : Amount]
              /\ Owner[movement[k].account] \in Trader
         /\ ~OnAccount(k) /\ movement[k] # NoMovement =>
              /\ movement[k].direction = "FUNDING" /\ movement[k].status = "COMPLETED"
              /\ movement[k].amount \in Amount
<1>1. movement[k] \in Movement \cup {NoMovement}
  BY DEF StateType
<1>2. movement[k] = NoMovement => movement[k].direction = "NONE"
  BY DEF NoMovement
<1>3. movement[k] \in Movement => movement[k].direction \in {"DEPOSIT", "WITHDRAWAL", "FUNDING"}
  BY DEF Movement
<1>4. QED
  BY <1>1, <1>2, <1>3, CapitalAssumption DEF Movement, OnAccount

\* What the engine moved, it moved for a movement it agrees with, which is neither
\* FAILED nor REJECTED.
LEMMA MovementOfMove ==
  ASSUME CapitalInv, NEW e \in EngineKey \cup {Blank}, engine[e] # Untouched
  PROVE  LET k == engine[e].for
         IN  /\ k \in Key /\ e = Stripped[k] /\ e # Blank
             /\ movement[k].direction = engine[e].op /\ OnAccount(k)
             /\ movement[k].account = engine[e].account
             /\ movement[k].amount = engine[e].amount
             /\ movement[k].status \notin {"FAILED", "REJECTED"}
<1>1. PICK r \in Request : ExecutedFor(e, r)
  BY DEF CapitalInv, EngineTrue
<1>2. StateType /\ OnItsWay(r) /\ MovementOfClaim(r) /\ AnswerTrue(r) /\ Claims(r)
  BY <1>1 DEF CapitalInv, ExecutedFor, Claims
<1>3. KeyOf(r) \in Key /\ CallOf(r).op \in {"DEPOSIT", "WITHDRAWAL"}
  BY <1>2, ClaimantStarted, Started
<1>4. QED
  BY <1>1, <1>2, <1>3 DEF ExecutedFor, OnItsWay, MovementOfClaim, AnswerTrue, OnAccount

\* A key has one call, and one answer.
LEMMA OneAnswer ==
  ASSUME CapitalInv, NEW k \in Key
  PROVE  /\ ~(Answered(k, "reused") /\ Answered(k, "zero"))
         /\ MovedFor(k) => ~Answered(k, "reused") /\ ~Answered(k, "zero")
<1>1. ASSUME NEW r \in Request, NEW s \in Request, wire[r] # "quiet", wire[s] # "quiet",
             KeyOf(r) = k, KeyOf(s) = k
      PROVE  r = s
  BY <1>1 DEF CapitalInv, OneClaim, Claims
<1>2. ~(Answered(k, "reused") /\ Answered(k, "zero"))
  BY <1>1 DEF Answered
<1>3. ASSUME MovedFor(k)
      PROVE  ~Answered(k, "reused") /\ ~Answered(k, "zero")
  <2>1. PICK e \in EngineKey : engine[e] # Untouched /\ engine[e].for = k
    BY <1>3 DEF MovedFor
  <2>2. PICK r \in Request : ExecutedFor(e, r)
    BY <2>1 DEF CapitalInv, EngineTrue
  <2>3. wire[r] \in {"ok", "error"} /\ KeyOf(r) = k
    BY <2>1, <2>2 DEF ExecutedFor
  <2>4. QED
    BY <1>1, <2>3 DEF Answered
<1>4. QED
  BY <1>2, <1>3

\* What was answered stays answered.
LEMMA AnsweredStays ==
  ASSUME \A r \in Request : wire[r] \notin {"quiet", "sent"} =>
                              wire'[r] = wire[r] /\ KeyOf(r)' = KeyOf(r)
  PROVE  \A k : /\ Answered(k, "reused") => Answered(k, "reused")'
                /\ Answered(k, "zero") => Answered(k, "zero")'
BY DEF Answered

\* What the books say of a key stays true when nothing of it changes but answers
\* and executions that arrive.
LEMMA BooksStay ==
  ASSUME NEW k \in Key, BooksOf(k), CompletedOf(k),
         movement'[k] = movement[k], tx'[Ldg(k)] = tx[Ldg(k)], tx'[Pf(k)] = tx[Pf(k)],
         EngineOf(k) # Untouched => EngineOf(k)' = EngineOf(k),
         Answered(k, "reused") => Answered(k, "reused")',
         Answered(k, "zero") => Answered(k, "zero")'
  PROVE  BooksOf(k)' /\ CompletedOf(k)'
<1>1. MovedWithdrawal(k) => MovedWithdrawal(k)'
  BY DEF MovedWithdrawal
<1>2. BookedWithdrawal(k) => BookedWithdrawal(k)'
  BY <1>1 DEF BookedWithdrawal
<1>3. BooksOf(k)'
  BY <1>2 DEF BooksOf
<1>4. CompletedOf(k)'
  BY DEF CompletedOf, OnAccount
<1>5. QED
  BY <1>3, <1>4

-----------------------------------------------------------------------------
(* What a step can do to the invariant.  Most steps are of one of five kinds: *)
(* a handler moves on without a claim, takes a claim, sends its call, hears    *)
(* from the engine, or resolves its movement.                                *)

\* The handler of r is now n; that touches no claim but one that dies.
MovesOn(r, n) ==
  /\ request' = [request EXCEPT ![r] = n]
  /\ n \in [pc : Pc, call : Call, result : Result] /\ n.pc \notin {"call", "wait"}
  /\ request[r].pc # "done" /\ (request[r].pc = "wait" => n.pc = "done")
  /\ request[r] # Idle => n.call = CallOf(r)
  /\ Holds(r) => n.pc = "done" /\ (n.result = "lost" \/ KeyOf(r) \in LongKey)
  /\ UNCHANGED <<movement, tx, wire, engine>>

\* A step that touches no claim keeps the invariant.
LEMMA MovesOnInv ==
  ASSUME CapitalInv, NEW r \in Request, NEW n, MovesOn(r, n)
  PROVE  CapitalInv'
<1>1. StateType /\ \A s \in Request : OnItsWay(s) /\ MovementOfClaim(s) /\ AnswerTrue(s)
  BY DEF CapitalInv
<1>2. StateType'
  BY <1>1 DEF MovesOn, StateType
<1>3. /\ request'[r] = n /\ n.pc # "idle" /\ n # Idle
      /\ \A s \in Request \ {r} : request'[s] = request[s]
      /\ wire' = wire /\ movement' = movement /\ engine' = engine /\ tx' = tx
  BY <1>1 DEF MovesOn, StateType, Pc, Idle
<1>4. ASSUME NEW s \in Request, Claims(s)'
      PROVE  Claims(s) /\ CallOf(s)' = CallOf(s) /\ (Holds(s)' => Holds(s))
  <2>1. CASE s = r
    <3>1. wire[r] # "quiet" /\ ~Holds(s)'
      BY <1>3, <1>4, <2>1 DEF MovesOn, Claims, Holds
    <3>2. request[r] # Idle
      BY <1>1, <3>1 DEF OnItsWay, Idle
    <3>3. QED
      BY <1>3, <2>1, <3>1, <3>2 DEF MovesOn, Claims, CallOf
  <2>2. CASE s # r
    BY <1>3, <1>4, <2>2 DEF Claims, Holds, CallOf
  <2>3. QED
    BY <2>1, <2>2
<1>5. ASSUME NEW s \in Request
      PROVE  OnItsWay(s)' /\ MovementOfClaim(s)' /\ AnswerTrue(s)'
  <2>1. wire[s] # "quiet" => Claims(s)' /\ KeyOf(s)' = KeyOf(s) /\ CallOf(s)' = CallOf(s)
    BY <1>3, <1>4 DEF Claims, KeyOf
  <2>2. OnItsWay(s)'
    BY <1>1, <1>3, <2>1 DEF OnItsWay, MovesOn
  <2>3. MovementOfClaim(s)'
    BY <1>1, <1>3, <1>4 DEF MovementOfClaim, KeyOf
  <2>4. AnswerTrue(s)'
    BY <1>1, <1>3, <2>1 DEF AnswerTrue, EngineOf
  <2>5. QED
    BY <2>2, <2>3, <2>4
<1>6. OneClaim'
  BY <1>4 DEF CapitalInv, OneClaim, KeyOf
<1>7. EngineTrue'
  <2>1. \A s \in Request : wire[s] \in {"ok", "error"} => CallOf(s)' = CallOf(s)
    BY <1>3, <1>4 DEF Claims
  <2>2. \A e, s : s \in Request /\ ExecutedFor(e, s) => ExecutedFor(e, s)'
    BY <1>3, <2>1 DEF ExecutedFor, KeyOf
  <2>3. QED
    BY <1>3, <2>2 DEF CapitalInv, EngineTrue
<1>8. OnePending'
  BY <1>3 DEF CapitalInv, OnePending, Pending, OnAccount
<1>9. ASSUME NEW k \in Key
      PROVE  BooksOf(k)' /\ CompletedOf(k)' /\ Cared(k)'
  <2>1. /\ Answered(k, "reused") => Answered(k, "reused")'
        /\ Answered(k, "zero") => Answered(k, "zero")'
    <3>1. ASSUME NEW s \in Request, wire[s] \notin {"quiet", "sent"}
          PROVE  wire'[s] = wire[s] /\ KeyOf(s)' = KeyOf(s)
      <4>1. Claims(s)'
        BY <1>3, <3>1 DEF Claims
      <4>2. QED
        BY <1>3, <1>4, <4>1 DEF KeyOf
    <3>2. QED
      BY <3>1, AnsweredStays
  <2>2. BooksOf(k) /\ CompletedOf(k) /\ EngineOf(k)' = EngineOf(k)
    BY <1>3 DEF CapitalInv, EngineOf
  <2>3. BooksOf(k)' /\ CompletedOf(k)'
    BY <1>3, <2>1, <2>2, BooksStay
  <2>4. Cared(k)'
    <3>1. SUFFICES ASSUME Pending(k)'
                   PROVE  \E s \in Request : /\ request'[s] # Idle /\ KeyOf(s)' = k
                                             /\ \/ Holds(s)'
                                                \/ /\ request'[s].pc = "done"
                                                   /\ request'[s].result = "lost" \/ k \in LongKey
      BY DEF Cared
    <3>2. PICK s \in Request : /\ request[s] # Idle /\ KeyOf(s) = k
                               /\ \/ Holds(s)
                                  \/ /\ request[s].pc = "done"
                                     /\ request[s].result = "lost" \/ k \in LongKey
      BY <1>3, <3>1 DEF CapitalInv, Cared, Pending, OnAccount
    <3>3. CASE s = r
      BY <1>3, <3>2, <3>3 DEF MovesOn, KeyOf, CallOf, Holds
    <3>4. CASE s # r
      BY <1>3, <3>2, <3>4 DEF KeyOf, CallOf, Holds
    <3>5. QED
      BY <3>3, <3>4
  <2>5. QED
    BY <2>3, <2>4
<1>10. QED
  BY <1>2, <1>5, <1>6, <1>7, <1>8, <1>9 DEF CapitalInv

\* The handler r inserts its movement, and the reservation of a deposit.
TakesClaim(r) ==
  /\ At(r, "insert") /\ Insertable(KeyOf(r), CallOf(r).account)
  /\ Goto(r, "call")
  /\ movement' = [movement EXCEPT ![KeyOf(r)] = NewMovement(CallOf(r))]
  /\ tx' \in Txs /\ \A x \in TxKey \ {Ldg(KeyOf(r))} : tx'[x] = tx[x]
  /\ tx'[Ldg(KeyOf(r))] = IF CallOf(r).op = "DEPOSIT"
                            THEN NewTx("TRADER_DEPOSIT", "PENDING", TraderOf(r), CallOf(r).amount)
                            ELSE NoTx
  /\ UNCHANGED <<wire, engine>>

\* Inserting a movement keeps the invariant: no handler has claimed its key, for
\* a claimed key has a movement.
LEMMA TakesClaimInv ==
  ASSUME CapitalInv, NEW r \in Request, TakesClaim(r)
  PROVE  CapitalInv'
<1> DEFINE c == CallOf(r)
           k == KeyOf(r)
           m == NewMovement(c)
<1>1. StateType /\ \A s \in Request : OnItsWay(s) /\ MovementOfClaim(s) /\ AnswerTrue(s)
  BY DEF CapitalInv
<1>2. /\ request[r].pc = "insert" /\ request[r] # Idle
      /\ request[r] \in [pc : Pc, call : Call, result : Result]
      /\ c \in Call /\ k \in Key /\ c.op \in {"DEPOSIT", "WITHDRAWAL"}
      /\ c.account \in MamAccount /\ c.amount \in Amount
      /\ movement[k] = NoMovement /\ PendingOn(c.account) = {}
  BY <1>1, Started DEF TakesClaim, At, Insertable
<1>3. /\ m \in Movement /\ m.direction = c.op /\ m.account = c.account
      /\ m.amount = c.amount /\ m.status = "PENDING"
  BY <1>2 DEF NewMovement, Movement, Statuses
<1>4. /\ movement'[k] = m /\ \A j \in Key \ {k} : movement'[j] = movement[j]
      /\ movement' \in [Key -> Movement \cup {NoMovement}]
  BY <1>1, <1>2, <1>3 DEF TakesClaim, StateType
<1> HIDE DEF c, k, m
<1>5. /\ \A s \in Request \ {r} : request'[s] = request[s]
      /\ request'[r] = [request[r] EXCEPT !.pc = "call"]
      /\ request' \in [Request -> [pc : Pc, call : Call, result : Result] \cup {Idle}]
  BY <1>1, <1>2 DEF TakesClaim, StateType, Goto, Pc
<1>6. wire' = wire /\ engine' = engine
  BY DEF TakesClaim
<1>7. StateType'
  BY <1>1, <1>4, <1>5, <1>6 DEF StateType, TakesClaim
<1>8. /\ request'[r].pc = "call" /\ request'[r] # Idle
      /\ request'[r].call = request[r].call /\ request'[r].result = request[r].result
  BY <1>2, <1>5 DEF Idle
<1>9. \A s \in Request : CallOf(s)' = CallOf(s) /\ KeyOf(s)' = KeyOf(s)
  BY <1>5, <1>8 DEF CallOf, KeyOf
<1>10. ASSUME NEW s \in Request, Claims(s)
       PROVE  s # r /\ KeyOf(s) # k
  <2>1. s # r
    BY <1>1, <1>2, <1>10 DEF OnItsWay, Claims, Holds
  <2>2. movement[KeyOf(s)].direction \in {"DEPOSIT", "WITHDRAWAL"}
    BY <1>1, <1>10, ClaimantStarted, Started DEF MovementOfClaim
  <2>3. QED
    BY <1>2, <2>1, <2>2 DEF NoMovement
<1>11. wire[r] = "quiet" /\ ~Holds(r)
  BY <1>10 DEF Claims
<1>12. ASSUME NEW s \in Request
       PROVE  OnItsWay(s)' /\ MovementOfClaim(s)' /\ AnswerTrue(s)'
  <2>1. CASE s = r
    <3>1. OnItsWay(s)' /\ AnswerTrue(s)'
      BY <1>6, <1>11, <2>1 DEF OnItsWay, AnswerTrue
    <3>2. CallOf(r)' = c /\ KeyOf(r)' = k
      BY <1>9 DEF c, k
    <3>3. MovementOfClaim(s)'
      BY <1>3, <1>4, <2>1, <3>2 DEF MovementOfClaim, c
    <3>4. QED
      BY <3>1, <3>3
  <2>2. CASE s # r
    <3>1. request'[s] = request[s]
      BY <1>5, <2>2
    <3>2. OnItsWay(s)'
      BY <1>1, <1>6, <1>9, <3>1 DEF OnItsWay
    <3>3. Claims(s) => movement'[KeyOf(s)] = movement[KeyOf(s)]
      BY <1>1, <1>4, <1>10, ClaimantStarted, Started
    <3>4. MovementOfClaim(s)' /\ AnswerTrue(s)'
      BY <1>1, <1>6, <1>9, <3>1, <3>3 DEF MovementOfClaim, AnswerTrue, Claims, Holds, EngineOf
    <3>5. QED
      BY <3>2, <3>4
  <2>3. QED
    BY <2>1, <2>2
<1>13. OneClaim'
  <2>1. \A s \in Request \ {r} : Claims(s)' = Claims(s)
    BY <1>5, <1>6 DEF Claims, Holds
  <2>2. QED
    BY <1>9, <1>10, <2>1 DEF CapitalInv, OneClaim, k
<1>14. EngineTrue'
  <2>1. \A e, s : s \in Request /\ ExecutedFor(e, s) => ExecutedFor(e, s)'
    BY <1>6, <1>9 DEF ExecutedFor
  <2>2. QED
    BY <1>6, <2>1 DEF CapitalInv, EngineTrue
<1>15. OnePending'
  <2>1. \A j \in Key : Pending(j) => j # k /\ movement[j].account # c.account
    BY <1>2 DEF Pending, PendingOn, OnAccount, NoMovement
  <2>2. \A j \in Key \ {k} : Pending(j)' = Pending(j)
    BY <1>4 DEF Pending, OnAccount
  <2>3. QED
    BY <1>2, <1>3, <1>4, <2>1, <2>2 DEF CapitalInv, OnePending
<1>16. \A j : /\ Answered(j, "reused") => Answered(j, "reused")'
              /\ Answered(j, "zero") => Answered(j, "zero")'
  BY <1>6, <1>9, AnsweredStays
<1>17. ASSUME NEW j \in Key
       PROVE  BooksOf(j)' /\ CompletedOf(j)' /\ Cared(j)'
  <2>1. CASE j = k
    <3>1. tx[Ldg(k)] = NoTx /\ tx[Pf(k)] = NoTx
      BY <1>2, <2>1 DEF CapitalInv, BooksOf, NoMovement
    <3>2. tx'[Pf(k)] = NoTx
      BY <1>2, <3>1, LedgerKeys DEF TakesClaim, k
    <3>3. BooksOf(j)'
      <4>1. tx'[Ldg(k)] = IF c.op = "DEPOSIT"
                            THEN NewTx("TRADER_DEPOSIT", "PENDING", Owner[c.account], c.amount)
                            ELSE NoTx
        BY DEF TakesClaim, TraderOf, c, k
      <4>2. HoldStatus("PENDING") = "PENDING"
        BY DEF HoldStatus, Unresolved
      <4>3. QED
        BY <1>2, <1>3, <1>4, <2>1, <3>2, <4>1, <4>2 DEF BooksOf
    <3>4. CompletedOf(j)'
      BY <1>3, <1>4, <2>1 DEF CompletedOf
    <3>5. Cared(j)'
      BY <1>8, <1>9, <2>1 DEF Cared, Holds, k
    <3>6. QED
      BY <3>3, <3>4, <3>5
  <2>2. CASE j # k
    <3>1. movement'[j] = movement[j] /\ tx'[Ldg(j)] = tx[Ldg(j)] /\ tx'[Pf(j)] = tx[Pf(j)]
      BY <1>2, <1>4, <2>2, LedgerKeys DEF TakesClaim, k
    <3>2. BooksOf(j)' /\ CompletedOf(j)'
      <4>1. BooksOf(j) /\ CompletedOf(j) /\ EngineOf(j)' = EngineOf(j)
        BY <1>6 DEF CapitalInv, EngineOf
      <4>2. QED
        BY <1>16, <3>1, <4>1, BooksStay
    <3>3. Cared(j)'
      <4>1. SUFFICES ASSUME Pending(j)
                     PROVE  \E s \in Request : /\ request'[s] # Idle /\ KeyOf(s)' = j
                                               /\ \/ Holds(s)'
                                                  \/ /\ request'[s].pc = "done"
                                                     /\ request'[s].result = "lost" \/ j \in LongKey
        BY <3>1 DEF Cared, Pending, OnAccount
      <4>2. PICK s \in Request : /\ request[s] # Idle /\ KeyOf(s) = j
                                 /\ \/ Holds(s)
                                    \/ /\ request[s].pc = "done"
                                       /\ request[s].result = "lost" \/ j \in LongKey
        BY <4>1 DEF CapitalInv, Cared
      <4>3. request'[s] = request[s]
        BY <1>2, <1>5, <4>2 DEF Holds
      <4>4. QED
        BY <1>9, <4>2, <4>3 DEF Holds
    <3>4. QED
      BY <3>2, <3>3
  <2>3. QED
    BY <2>1, <2>2
<1>18. QED
  BY <1>7, <1>12, <1>13, <1>14, <1>15, <1>17 DEF CapitalInv

\* The handler r resolves its movement, the one of the key k, or gives it up.
Resolves(r, k, status, result) ==
  /\ Holds(r) /\ KeyOf(r) = k
  /\ status \in {"COMPLETED", "FAILED", "AMBIGUOUS", "REJECTED"} /\ result \in Result
  /\ status = "FAILED" => wire[r] \in {"quiet", "rejected", "conflict"}
  /\ status = "REJECTED" => wire[r] = "negative"
  /\ SetStatus(k, status) /\ Answer(r, result)
  /\ tx' \in Txs /\ \A x \in TxKey \ {Ldg(k), Pf(k)} : tx'[x] = tx[x]
  /\ UNCHANGED <<wire, engine>>

\* Resolving a movement keeps the invariant, if the ledger says of its key what
\* the new status asks for.
LEMMA ResolvesInv ==
  ASSUME CapitalInv, NEW r \in Request, NEW k \in Key, NEW status, NEW result,
         Resolves(r, k, status, result), BooksOf(k)', CompletedOf(k)'
  PROVE  CapitalInv'
<1>1. StateType /\ \A s \in Request : OnItsWay(s) /\ MovementOfClaim(s) /\ AnswerTrue(s)
  BY DEF CapitalInv
<1>2. /\ request[r].pc # "idle" /\ request[r] # Idle
      /\ request[r] \in [pc : Pc, call : Call, result : Result]
      /\ Claims(r) /\ movement[k].status = "PENDING"
      /\ CallOf(r).op \in {"DEPOSIT", "WITHDRAWAL"}
  BY <1>1, ClaimantStarted, Started DEF Resolves, Claims, MovementOfClaim
<1>3. OnAccount(k)
  BY <1>1, <1>2 DEF Resolves, MovementOfClaim, OnAccount
<1>4. /\ movement' \in [Key -> Movement \cup {NoMovement}]
      /\ movement'[k] = [movement[k] EXCEPT !.status = status]
      /\ \A j \in Key \ {k} : movement'[j] = movement[j]
  <2>1. [movement[k] EXCEPT !.status = status] \in Movement
    BY <1>1, <1>3, MovementTyped DEF Resolves, Movement, Statuses
  <2>2. QED
    BY <1>1, <2>1 DEF Resolves, SetStatus, StateType
<1>5. /\ movement'[k].status = status /\ movement'[k].direction = movement[k].direction
      /\ movement'[k].account = movement[k].account /\ movement'[k].amount = movement[k].amount
  BY <1>1, <1>3, <1>4, MovementTyped
<1>6. /\ \A s \in Request \ {r} : request'[s] = request[s]
      /\ request'[r] = [request[r] EXCEPT !.pc = "done", !.result = result]
      /\ request' \in [Request -> [pc : Pc, call : Call, result : Result] \cup {Idle}]
  BY <1>1, <1>2 DEF Resolves, StateType, Answer, Pc
<1>7. /\ wire' = wire /\ engine' = engine
      /\ request'[r].pc = "done" /\ request'[r].call = request[r].call
  BY <1>2, <1>6 DEF Resolves
<1>8. StateType'
  BY <1>1, <1>4, <1>6, <1>7 DEF StateType, Resolves
<1>9. \A s \in Request : /\ CallOf(s)' = CallOf(s) /\ KeyOf(s)' = KeyOf(s)
                         /\ Claims(s)' => Claims(s)
                         /\ Holds(s)' => Holds(s) /\ s # r
  BY <1>2, <1>6, <1>7 DEF CallOf, KeyOf, Claims, Holds
<1>10. \A s \in Request \ {r} : Claims(s) => KeyOf(s) # k
  BY <1>2 DEF CapitalInv, OneClaim, Resolves
<1>11. ASSUME NEW s \in Request
       PROVE  OnItsWay(s)' /\ MovementOfClaim(s)' /\ AnswerTrue(s)'
  <2>1. CASE s = r
    <3>1. OnItsWay(s)'
      BY <1>1, <1>7, <1>9, <2>1 DEF OnItsWay
    <3>2. MovementOfClaim(s)'
      BY <1>1, <1>2, <1>5, <1>9, <2>1 DEF MovementOfClaim, Resolves
    <3>3. AnswerTrue(s)'
      BY <1>1, <1>5, <1>7, <1>9, <2>1 DEF AnswerTrue, EngineOf, Resolves
    <3>4. QED
      BY <3>1, <3>2, <3>3
  <2>2. CASE s # r
    <3>1. request'[s] = request[s]
      BY <1>6, <2>2
    <3>2. OnItsWay(s)'
      BY <1>1, <1>7, <1>9, <3>1 DEF OnItsWay
    <3>3. Claims(s) => movement'[KeyOf(s)] = movement[KeyOf(s)]
      BY <1>1, <1>4, <1>10, <2>2, ClaimantStarted, Started
    <3>4. MovementOfClaim(s)' /\ AnswerTrue(s)'
      BY <1>1, <1>7, <1>9, <3>1, <3>3 DEF MovementOfClaim, AnswerTrue, Claims, Holds, EngineOf
    <3>5. QED
      BY <3>2, <3>4
  <2>3. QED
    BY <2>1, <2>2
<1>12. OneClaim'
  BY <1>9 DEF CapitalInv, OneClaim
<1>13. EngineTrue'
  <2>1. \A e, s : s \in Request /\ ExecutedFor(e, s) => ExecutedFor(e, s)'
    BY <1>7, <1>9 DEF ExecutedFor
  <2>2. QED
    BY <1>7, <2>1 DEF CapitalInv, EngineTrue
<1>14. \A j \in Key : Pending(j)' => j # k /\ Pending(j)
  BY <1>4, <1>5 DEF Resolves, Pending, OnAccount
<1>15. OnePending'
  BY <1>4, <1>14 DEF CapitalInv, OnePending
<1>16. \A j : /\ Answered(j, "reused") => Answered(j, "reused")'
              /\ Answered(j, "zero") => Answered(j, "zero")'
  BY <1>7, <1>9, AnsweredStays
<1>17. ASSUME NEW j \in Key
       PROVE  BooksOf(j)' /\ CompletedOf(j)' /\ Cared(j)'
  <2>1. CASE j = k
    BY <1>14, <2>1 DEF Cared
  <2>2. CASE j # k
    <3>1. movement'[j] = movement[j] /\ tx'[Ldg(j)] = tx[Ldg(j)] /\ tx'[Pf(j)] = tx[Pf(j)]
      BY <1>4, <2>2, LedgerKeys DEF Resolves
    <3>2. BooksOf(j)' /\ CompletedOf(j)'
      <4>1. BooksOf(j) /\ CompletedOf(j) /\ EngineOf(j)' = EngineOf(j)
        BY <1>7 DEF CapitalInv, EngineOf
      <4>2. QED
        BY <1>16, <3>1, <4>1, BooksStay
    <3>3. Cared(j)'
      <4>1. SUFFICES ASSUME Pending(j)
                     PROVE  \E s \in Request : /\ request'[s] # Idle /\ KeyOf(s)' = j
                                               /\ \/ Holds(s)'
                                                  \/ /\ request'[s].pc = "done"
                                                     /\ request'[s].result = "lost" \/ j \in LongKey
        BY <1>14 DEF Cared
      <4>2. PICK s \in Request : /\ request[s] # Idle /\ KeyOf(s) = j
                                 /\ \/ Holds(s)
                                    \/ /\ request[s].pc = "done"
                                       /\ request[s].result = "lost" \/ j \in LongKey
        BY <4>1 DEF CapitalInv, Cared
      <4>3. request'[s] = request[s]
        BY <1>6, <2>2, <4>2 DEF Resolves
      <4>4. QED
        BY <1>9, <4>2, <4>3 DEF Holds
    <3>4. QED
      BY <3>2, <3>3
  <2>3. QED
    BY <2>1, <2>2
<1>18. QED
  BY <1>8, <1>11, <1>12, <1>13, <1>15, <1>17 DEF CapitalInv

\* A call leaves for the engine, under a key the engine accepts.
LEMMA SendInv ==
  ASSUME CapitalInv, NEW r \in Request, Send(r)
  PROVE  CapitalInv'
<1>1. StateType /\ \A s \in Request : OnItsWay(s) /\ MovementOfClaim(s) /\ AnswerTrue(s)
  BY DEF CapitalInv
<1>2. /\ request[r].pc = "call" /\ request[r] # Idle /\ Holds(r) /\ Claims(r)
      /\ request[r] \in [pc : Pc, call : Call, result : Result]
      /\ movement[KeyOf(r)].status = "PENDING" /\ wire[r] = "quiet"
  BY <1>1, Started DEF Send, At, Holds, Claims, MovementOfClaim, OnItsWay
<1>3. /\ \A s \in Request \ {r} : request'[s] = request[s] /\ wire'[s] = wire[s]
      /\ request'[r] = [request[r] EXCEPT !.pc = "wait"] /\ wire'[r] = "sent"
      /\ request' \in [Request -> [pc : Pc, call : Call, result : Result] \cup {Idle}]
      /\ wire' \in [Request -> Wire]
  BY <1>1, <1>2 DEF Send, StateType, Goto, Pc, Wire
<1>4. /\ movement' = movement /\ engine' = engine /\ tx' = tx
      /\ request'[r].pc = "wait" /\ request'[r].call = request[r].call /\ request'[r] # Idle
  BY <1>2, <1>3 DEF Send, ledgerVars, Idle
<1>5. StateType'
  BY <1>1, <1>3, <1>4 DEF StateType
<1>6. \A s \in Request : /\ CallOf(s)' = CallOf(s) /\ KeyOf(s)' = KeyOf(s)
                         /\ Claims(s)' = Claims(s) /\ Holds(s)' = Holds(s)
  BY <1>2, <1>3, <1>4 DEF CallOf, KeyOf, Claims, Holds
<1>7. ASSUME NEW s \in Request
      PROVE  OnItsWay(s)' /\ MovementOfClaim(s)' /\ AnswerTrue(s)'
  <2>1. OnItsWay(s)'
    BY <1>1, <1>3, <1>4, <1>6 DEF OnItsWay, Send
  <2>2. MovementOfClaim(s)'
    BY <1>1, <1>4, <1>6 DEF MovementOfClaim
  <2>3. AnswerTrue(s)'
    BY <1>1, <1>2, <1>3, <1>4, <1>6 DEF AnswerTrue, EngineOf
  <2>4. QED
    BY <2>1, <2>2, <2>3
<1>8. OneClaim'
  BY <1>6 DEF CapitalInv, OneClaim
<1>9. EngineTrue'
  <2>1. \A e, s : s \in Request /\ ExecutedFor(e, s) => ExecutedFor(e, s)'
    BY <1>2, <1>3, <1>4, <1>6 DEF ExecutedFor
  <2>2. QED
    BY <1>4, <2>1 DEF CapitalInv, EngineTrue
<1>10. OnePending'
  BY <1>4 DEF CapitalInv, OnePending, Pending, OnAccount
<1>11. ASSUME NEW k \in Key
       PROVE  BooksOf(k)' /\ CompletedOf(k)' /\ Cared(k)'
  <2>1. BooksOf(k)' /\ CompletedOf(k)'
    <3>1. /\ Answered(k, "reused") => Answered(k, "reused")'
          /\ Answered(k, "zero") => Answered(k, "zero")'
      BY <1>2, <1>3, <1>6, AnsweredStays
    <3>2. BooksOf(k) /\ CompletedOf(k) /\ EngineOf(k)' = EngineOf(k)
      BY <1>4 DEF CapitalInv, EngineOf
    <3>3. QED
      BY <1>4, <3>1, <3>2, BooksStay
  <2>2. \A s \in Request : request[s].pc = "done" => request'[s] = request[s]
    BY <1>2, <1>3
  <2>3. \A s \in Request : request[s] # Idle => request'[s] # Idle
    BY <1>3, <1>4
  <2>4. Cared(k)'
    BY <1>4, <1>6, <2>2, <2>3 DEF CapitalInv, Cared, Pending, OnAccount
  <2>5. QED
    BY <2>1, <2>4
<1>12. QED
  BY <1>5, <1>7, <1>8, <1>9, <1>10, <1>11 DEF CapitalInv

\* The engine executes the call of r under the key that travelled.
Executes(r) ==
  \E x \in Executed :
    /\ engine' = [engine EXCEPT ![Stripped[KeyOf(r)]] = x]
    /\ EngineOf(KeyOf(r)) = Untouched
    /\ x.for = KeyOf(r) /\ x.op = CallOf(r).op /\ x.account = CallOf(r).account
    /\ x.amount = CallOf(r).amount /\ (CallOf(r).op = "DEPOSIT" => x.fee = 0)

\* The call of r is answered.
Hears(r, answer) ==
  /\ wire[r] = "sent" /\ wire' = [wire EXCEPT ![r] = answer]
  /\ answer \in {"ok", "reused", "zero", "negative", "rejected", "conflict", "error"}
  /\ \/ Executes(r) /\ answer \in {"ok", "error"}
     \/ UNCHANGED engine /\ answer # "ok"
  /\ answer = "reused" => /\ EngineOf(KeyOf(r)) # Untouched
                          /\ EngineOf(KeyOf(r)).op = CallOf(r).op
                          /\ EngineOf(KeyOf(r)).account = CallOf(r).account
                          /\ EngineOf(KeyOf(r)).amount = CallOf(r).amount
  /\ UNCHANGED <<movement, request, tx>>

\* The engine never did anything for a claim that is still unanswered: it did it
\* for an answered one, and a key has one claim.
LEMMA UnansweredIsNew ==
  ASSUME CapitalInv, NEW r \in Request, wire[r] = "sent",
         EngineOf(KeyOf(r)) # Untouched
  PROVE  EngineOf(KeyOf(r)).for # KeyOf(r)
<1>1. StateType /\ OnItsWay(r) /\ Claims(r)
  BY DEF CapitalInv, Claims
<1>2. Stripped[KeyOf(r)] \in EngineKey \cup {Blank}
  BY <1>1, ClaimantStarted, Started
<1>3. PICK s \in Request : ExecutedFor(Stripped[KeyOf(r)], s)
  BY <1>2 DEF CapitalInv, EngineTrue, EngineOf
<1>4. Claims(s) /\ s # r
  BY <1>3 DEF ExecutedFor, Claims
<1>5. KeyOf(s) # KeyOf(r)
  BY <1>1, <1>4 DEF CapitalInv, OneClaim
<1>6. QED
  BY <1>3, <1>5 DEF ExecutedFor, EngineOf

\* An answer of the engine keeps the invariant, whether money moved or not.
LEMMA HearsInv ==
  ASSUME CapitalInv, NEW r \in Request, NEW answer, Hears(r, answer),
         NEW k \in Key, KeyOf(r) = k
  PROVE  CapitalInv'
<1>1. StateType /\ \A s \in Request : OnItsWay(s) /\ MovementOfClaim(s) /\ AnswerTrue(s)
  BY DEF CapitalInv
<1>2. /\ Claims(r) /\ request[r] # Idle
      /\ Stripped[k] \in EngineKey \cup {Blank} /\ Stripped[k] # Blank
  BY <1>1, ClaimantStarted, Started DEF Hears, Claims, OnItsWay
<1>3. /\ wire' \in [Request -> Wire] /\ wire'[r] = answer /\ answer \notin {"quiet", "sent"}
      /\ \A s \in Request \ {r} : wire'[s] = wire[s]
      /\ movement' = movement /\ request' = request /\ tx' = tx
  BY <1>1 DEF Hears, StateType, Wire
<1>4. /\ engine' \in [EngineKey \cup {Blank} -> Executed \cup {Untouched}]
      /\ \A e \in EngineKey \cup {Blank} :
           \/ engine'[e] = engine[e]
           \/ engine[e] = Untouched /\ ExecutedFor(e, r)'
      /\ answer = "ok" => engine'[Stripped[k]] # Untouched /\ engine'[Stripped[k]].for = k
  <2>1. CASE Executes(r) /\ answer \in {"ok", "error"}
    <3>1. PICK x \in Executed :
            /\ engine' = [engine EXCEPT ![Stripped[k]] = x] /\ EngineOf(k) = Untouched
            /\ x.for = k /\ x.op = CallOf(r).op /\ x.account = CallOf(r).account
            /\ x.amount = CallOf(r).amount /\ (CallOf(r).op = "DEPOSIT" => x.fee = 0)
      BY <2>1 DEF Executes
    <3>2. x # Untouched
      BY DEF Executed, Untouched
    <3>3. /\ engine'[Stripped[k]] = x
          /\ \A e \in (EngineKey \cup {Blank}) \ {Stripped[k]} : engine'[e] = engine[e]
          /\ engine' \in [EngineKey \cup {Blank} -> Executed \cup {Untouched}]
      BY <1>1, <1>2, <3>1 DEF StateType
    <3>4. ExecutedFor(Stripped[k], r)'
      BY <1>3, <2>1, <3>1, <3>3 DEF ExecutedFor, KeyOf, CallOf
    <3>5. ASSUME NEW e \in EngineKey \cup {Blank}
          PROVE  \/ engine'[e] = engine[e]
                 \/ engine[e] = Untouched /\ ExecutedFor(e, r)'
      <4>1. CASE e = Stripped[k]
        BY <3>1, <3>4, <4>1 DEF EngineOf, ExecutedFor
      <4>2. CASE e # Stripped[k]
        BY <3>3, <4>2
      <4>3. QED
        BY <4>1, <4>2
    <3>6. QED
      BY <3>1, <3>2, <3>3, <3>5
  <2>2. CASE UNCHANGED engine /\ answer # "ok"
    BY <1>1, <2>2 DEF StateType
  <2>3. QED
    BY <2>1, <2>2 DEF Hears
<1>5. \A s \in Request : /\ CallOf(s)' = CallOf(s) /\ KeyOf(s)' = KeyOf(s)
                         /\ Claims(s)' = Claims(s) /\ Holds(s)' = Holds(s)
                         /\ wire'[s] # "quiet" <=> wire[s] # "quiet"
  BY <1>3 DEF CallOf, KeyOf, Claims, Holds, Hears
<1>6. StateType'
  BY <1>1, <1>3, <1>4 DEF StateType
<1>7. \A j \in Key : EngineOf(j) # Untouched => EngineOf(j)' = EngineOf(j)
  <2>1. \A j \in Key : Stripped[j] \in EngineKey \cup {Blank}
    BY CapitalAssumption
  <2>2. QED
    BY <1>4, <2>1 DEF EngineOf
<1>8. ASSUME NEW s \in Request
      PROVE  OnItsWay(s)' /\ MovementOfClaim(s)' /\ AnswerTrue(s)'
  <2>1. OnItsWay(s)'
    BY <1>1, <1>3, <1>5 DEF OnItsWay
  <2>2. MovementOfClaim(s)'
    BY <1>1, <1>3, <1>5 DEF MovementOfClaim
  <2>3. CASE s = r
    <3>1. answer = "reused" => /\ EngineOf(k) # Untouched /\ EngineOf(k).for # k
                               /\ EngineOf(k).op = CallOf(r).op
                               /\ EngineOf(k).account = CallOf(r).account
                               /\ EngineOf(k).amount = CallOf(r).amount
      BY <1>2, UnansweredIsNew DEF Hears
    <3>2. answer = "reused" => /\ EngineOf(k)' # Untouched /\ EngineOf(k)'.for # k
                               /\ EngineOf(k)'.op = CallOf(s)'.op
                               /\ EngineOf(k)'.account = CallOf(s)'.account
                               /\ EngineOf(k)'.amount = CallOf(s)'.amount
      BY <1>2, <1>5, <1>7, <2>3, <3>1
    <3>3. movement'[k].status \notin {"FAILED", "REJECTED"}
      BY <1>1, <1>3 DEF AnswerTrue, Hears
    <3>4. KeyOf(s)' = k
      BY <1>5, <2>3
    <3>5. answer = "ok" => EngineOf(k)' # Untouched /\ EngineOf(k)'.for = k
      BY <1>3, <1>4, <1>5 DEF EngineOf
    <3>6. AnswerTrue(s)'
      BY <1>3, <2>3, <3>2, <3>3, <3>4, <3>5 DEF AnswerTrue, EngineOf
    <3>7. QED
      BY <2>1, <2>2, <3>6
  <2>4. CASE s # r
    <3>1. wire'[s] = wire[s]
      BY <1>3, <2>4
    <3>2. wire[s] # "quiet" => KeyOf(s) \in Key
      BY <1>1, ClaimantStarted, Started DEF Claims
    <3>3. AnswerTrue(s)'
      BY <1>1, <1>3, <1>5, <1>7, <3>1, <3>2 DEF AnswerTrue, EngineOf
    <3>4. QED
      BY <2>1, <2>2, <3>3
  <2>5. QED
    BY <2>3, <2>4
<1>9. OneClaim'
  BY <1>5 DEF CapitalInv, OneClaim
<1>10. EngineTrue'
  <2>1. SUFFICES ASSUME NEW e \in EngineKey \cup {Blank}, engine'[e] # Untouched
                 PROVE  \E s \in Request : ExecutedFor(e, s)'
    BY DEF EngineTrue
  <2>2. CASE engine[e] # Untouched
    <3>1. PICK s \in Request : ExecutedFor(e, s)
      BY <2>2 DEF CapitalInv, EngineTrue
    <3>2. s # r /\ engine'[e] = engine[e]
      BY <1>4, <2>2, <3>1 DEF Hears, ExecutedFor
    <3>3. ExecutedFor(e, s)'
      BY <1>3, <1>5, <3>1, <3>2 DEF ExecutedFor
    <3>4. QED
      BY <3>3
  <2>3. CASE engine[e] = Untouched
    BY <1>4, <2>1, <2>3
  <2>4. QED
    BY <2>2, <2>3
<1>11. OnePending'
  BY <1>3 DEF CapitalInv, OnePending, Pending, OnAccount
<1>12. ASSUME NEW j \in Key
       PROVE  BooksOf(j)' /\ CompletedOf(j)' /\ Cared(j)'
  <2>1. /\ Answered(j, "reused") => Answered(j, "reused")'
        /\ Answered(j, "zero") => Answered(j, "zero")'
    BY <1>3, <1>5, AnsweredStays DEF Hears
  <2>2. BooksOf(j) /\ CompletedOf(j)
    BY DEF CapitalInv
  <2>3. BooksOf(j)' /\ CompletedOf(j)'
    BY <1>3, <1>7, <2>1, <2>2, BooksStay
  <2>4. Cared(j)'
    BY <1>3, <1>5 DEF CapitalInv, Cared, Pending, OnAccount
  <2>5. QED
    BY <2>3, <2>4
<1>13. QED
  BY <1>6, <1>8, <1>9, <1>10, <1>11, <1>12 DEF CapitalInv

\* The MASTER account is funded: no claim has the key.
LEMMA FundKeepsInv ==
  ASSUME CapitalInv, NEW k \in Key, NEW a \in Amount, Fund(k, a)
  PROVE  CapitalInv'
<1> DEFINE m == [direction |-> "FUNDING", status |-> "COMPLETED", amount |-> a]
<1>1. StateType /\ \A s \in Request : OnItsWay(s) /\ MovementOfClaim(s) /\ AnswerTrue(s)
  BY DEF CapitalInv
<1>2. /\ request' = request /\ wire' = wire /\ engine' = engine
      /\ movement[k] = NoMovement /\ m \in Movement
      /\ m.direction = "FUNDING" /\ m.status = "COMPLETED" /\ m.amount = a
  BY DEF Fund, Movement
<1>3. /\ movement'[k] = m /\ \A j \in Key \ {k} : movement'[j] = movement[j]
      /\ movement' \in [Key -> Movement \cup {NoMovement}]
  BY <1>1, <1>2 DEF Fund, StateType
<1> HIDE DEF m
<1>4. /\ tx' \in Txs /\ tx'[Ldg(k)] = NewTx("MASTER_ACCOUNT_FUNDING", "POSTED", NoTrader, a)
      /\ \A x \in TxKey \ {Ldg(k)} : tx'[x] = tx[x]
  <2>1. NewTx("MASTER_ACCOUNT_FUNDING", "POSTED", NoTrader, a) \in Transaction
    BY NewTxType DEF TxKind, TxStatus
  <2>2. QED
    BY <1>1, <2>1, LedgerKeys DEF Fund, FundMasterAccount, StateType, Txs
<1>5. StateType'
  BY <1>1, <1>2, <1>3, <1>4 DEF StateType
<1>6. \A s \in Request : /\ CallOf(s)' = CallOf(s) /\ KeyOf(s)' = KeyOf(s)
                         /\ Claims(s)' = Claims(s) /\ Holds(s)' = Holds(s)
  BY <1>2 DEF CallOf, KeyOf, Claims, Holds
<1>7. \A s \in Request : Claims(s) => KeyOf(s) \in Key /\ KeyOf(s) # k
  BY <1>1, <1>2, ClaimantStarted, Started DEF MovementOfClaim, NoMovement
<1>8. ASSUME NEW s \in Request
      PROVE  OnItsWay(s)' /\ MovementOfClaim(s)' /\ AnswerTrue(s)'
  <2>1. Claims(s) => movement'[KeyOf(s)] = movement[KeyOf(s)]
    BY <1>3, <1>7
  <2>2. QED
    BY <1>1, <1>2, <1>6, <2>1
       DEF OnItsWay, MovementOfClaim, AnswerTrue, EngineOf, Claims
<1>9. OneClaim'
  BY <1>6 DEF CapitalInv, OneClaim
<1>10. EngineTrue'
  BY <1>2, <1>6 DEF CapitalInv, EngineTrue, ExecutedFor
<1>11. \A j \in Key : Pending(j)' => j # k /\ Pending(j)
  BY <1>2, <1>3 DEF Pending, OnAccount
<1>12. OnePending'
  BY <1>3, <1>11 DEF CapitalInv, OnePending
<1>13. ASSUME NEW j \in Key
       PROVE  BooksOf(j)' /\ CompletedOf(j)' /\ Cared(j)'
  <2>1. CASE j = k
    <3>1. tx'[Pf(k)] = NoTx
      BY <1>2, <1>4, LedgerKeys DEF CapitalInv, BooksOf, NoMovement
    <3>2. BooksOf(j)' /\ CompletedOf(j)'
      BY <1>2, <1>3, <1>4, <2>1, <3>1 DEF BooksOf, CompletedOf, OnAccount
    <3>3. QED
      BY <1>11, <2>1, <3>2 DEF Cared
  <2>2. CASE j # k
    <3>1. movement'[j] = movement[j] /\ tx'[Ldg(j)] = tx[Ldg(j)] /\ tx'[Pf(j)] = tx[Pf(j)]
      BY <1>3, <1>4, <2>2, LedgerKeys
    <3>2. BooksOf(j)' /\ CompletedOf(j)'
      <4>1. /\ Answered(j, "reused") => Answered(j, "reused")'
            /\ Answered(j, "zero") => Answered(j, "zero")'
        BY <1>2, <1>6, AnsweredStays
      <4>2. BooksOf(j) /\ CompletedOf(j) /\ EngineOf(j)' = EngineOf(j)
        BY <1>2 DEF CapitalInv, EngineOf
      <4>3. QED
        BY <3>1, <4>1, <4>2, BooksStay
    <3>3. Cared(j)'
      BY <1>2, <1>6, <1>11 DEF CapitalInv, Cared
    <3>4. QED
      BY <3>2, <3>3
  <2>3. QED
    BY <2>1, <2>2
<1>14. QED
  BY <1>5, <1>8, <1>9, <1>10, <1>12, <1>13 DEF CapitalInv

-----------------------------------------------------------------------------
(* The actions *)

\* A handler that moves on or answers is the handler it was, elsewhere.
LEMMA MovedHandler ==
  ASSUME StateType, NEW r \in Request, request[r] # Idle, NEW pc \in Pc, NEW result \in Result
  PROVE  /\ [request[r] EXCEPT !.pc = pc] \in [pc : Pc, call : Call, result : Result]
         /\ [request[r] EXCEPT !.pc = pc].pc = pc
         /\ [request[r] EXCEPT !.pc = pc].call = CallOf(r)
         /\ [request[r] EXCEPT !.pc = pc, !.result = result]
              \in [pc : Pc, call : Call, result : Result]
         /\ [request[r] EXCEPT !.pc = pc, !.result = result].pc = pc
         /\ [request[r] EXCEPT !.pc = pc, !.result = result].call = CallOf(r)
         /\ [request[r] EXCEPT !.pc = pc, !.result = result].result = result
<1>1. request[r] \in [pc : Pc, call : Call, result : Result]
  BY DEF StateType
<1>2. QED
  BY <1>1 DEF CallOf

\* Goes on without a claim.
LEMMA GotoInv ==
  ASSUME CapitalInv, NEW r \in Request, NEW pc \in {"guard", "insert"},
         request[r].pc \in {"lookup", "guard"}, Goto(r, pc),
         UNCHANGED <<tx, movement, wire, engine>>
  PROVE  CapitalInv'
<1>1. StateType /\ request[r] # Idle /\ pc \in Pc /\ "none" \in Result
  BY DEF CapitalInv, Idle, Pc, Result
<1>2. MovesOn(r, [request[r] EXCEPT !.pc = pc])
  BY <1>1, MovedHandler DEF MovesOn, Goto, Holds
<1>3. QED
  BY <1>2, MovesOnInv

\* Answers, and gives up a claim only when it dies or cannot book.
LEMMA AnswerInv ==
  ASSUME CapitalInv, NEW r \in Request, NEW result \in Result,
         request[r].pc \notin {"idle", "done"}, Answer(r, result),
         Holds(r) => result = "lost" \/ KeyOf(r) \in LongKey,
         UNCHANGED <<tx, movement, wire, engine>>
  PROVE  CapitalInv'
<1>1. StateType /\ request[r] # Idle /\ "done" \in Pc
  BY DEF CapitalInv, Idle, Pc
<1> DEFINE n == [request[r] EXCEPT !.pc = "done", !.result = result]
<1>2. request' = [request EXCEPT ![r] = n]
  BY <1>1 DEF Answer, StateType
<1>3. /\ n \in [pc : Pc, call : Call, result : Result]
      /\ n.pc = "done" /\ n.call = CallOf(r) /\ n.result = result
  BY <1>1, MovedHandler
<1> HIDE DEF n
<1>4. MovesOn(r, n)
  BY <1>2, <1>3 DEF MovesOn
<1>5. QED
  BY <1>4, MovesOnInv

\* A call that starts.
LEMMA StartInv ==
  ASSUME CapitalInv, NEW r \in Request, NEW c \in Call, Start(r, c)
  PROVE  CapitalInv'
<1> DEFINE n == [pc |-> "lookup", call |-> c, result |-> "none"]
<1>1. StateType /\ request[r].pc = "idle" /\ request[r] = Idle
  BY NotIdle DEF CapitalInv, Start, At
<1>2. n \in [pc : Pc, call : Call, result : Result] /\ n.pc = "lookup"
  BY DEF Pc, Result
<1>3. MovesOn(r, n)
  BY <1>1, <1>2 DEF MovesOn, Start, Holds, ledgerVars
<1> HIDE DEF n
<1>4. QED
  BY <1>3, MovesOnInv

\* The lookup of the key changes nothing but the handler.
LEMMA LookupInv ==
  ASSUME CapitalInv, NEW r \in Request, Lookup(r)
  PROVE  CapitalInv'
<1>1. /\ request[r].pc = "lookup" /\ ~Holds(r) /\ "existing" \in Result
      /\ UNCHANGED <<tx, movement, wire, engine>>
      /\ Answer(r, "existing") \/ Goto(r, "guard")
  BY DEF Lookup, At, Holds, Result, ledgerVars
<1>2. QED
  BY <1>1, AnswerInv, GotoInv

\* The guards change nothing but the handler.
LEMMA GuardInv ==
  ASSUME CapitalInv, NEW r \in Request, Guard(r)
  PROVE  CapitalInv'
<1>1. /\ request[r].pc = "guard" /\ ~Holds(r) /\ "refused" \in Result
      /\ UNCHANGED <<tx, movement, wire, engine>>
      /\ Answer(r, "refused") \/ Goto(r, "insert")
  BY DEF Guard, At, Holds, Result, ledgerVars
<1>2. QED
  BY <1>1, AnswerInv, GotoInv

\* The row of a deposit and its reservation take the key, or nothing is written.
LEMMA InsertDepositInv ==
  ASSUME CapitalInv, NEW r \in Request, InsertDeposit(r)
  PROVE  CapitalInv'
<1>1. StateType /\ request[r].pc = "insert" /\ ~Holds(r)
  BY DEF CapitalInv, InsertDeposit, At, Holds
<1>2. /\ KeyOf(r) \in Key /\ CallOf(r).amount \in Amount /\ TraderOf(r) \in Trader
  BY <1>1, Started
<1>3. CASE /\ Insertable(KeyOf(r), CallOf(r).account) /\ KeyOf(r) \notin LongKey
           /\ CreateDepositHold(Ldg(KeyOf(r)), TraderOf(r), CallOf(r).amount)
           /\ movement' = [movement EXCEPT ![KeyOf(r)] = NewMovement(CallOf(r))]
           /\ Goto(r, "call")
  <2>1. NewTx("TRADER_DEPOSIT", "PENDING", TraderOf(r), CallOf(r).amount) \in Transaction
    BY <1>2, NewTxType DEF TxKind, TxStatus
  <2>2. Ldg(KeyOf(r)) \in TxKey /\ tx \in Txs
    BY <1>1, <1>2, LedgerKeys DEF StateType
  <2>3. tx' = [tx EXCEPT ![Ldg(KeyOf(r))] =
                 NewTx("TRADER_DEPOSIT", "PENDING", TraderOf(r), CallOf(r).amount)]
    BY <1>3 DEF CreateDepositHold
  <2>4. TakesClaim(r)
    BY <1>1, <1>3, <2>1, <2>2, <2>3 DEF TakesClaim, InsertDeposit, Txs
  <2>5. QED
    BY <2>4, TakesClaimInv
<1>4. CASE /\ UNCHANGED <<ledgerVars, movement>>
           /\ Answer(r, "refused") \/ Answer(r, "error")
  <2>1. "refused" \in Result /\ "error" \in Result /\ UNCHANGED <<tx, movement, wire, engine>>
    BY <1>4 DEF Result, InsertDeposit, ledgerVars
  <2>2. QED
    BY <1>1, <1>4, <2>1, AnswerInv
<1>5. CASE Insertable(KeyOf(r), CallOf(r).account) /\ KeyOf(r) \notin LongKey
  BY <1>3, <1>4, <1>5 DEF InsertDeposit, KeyOf
<1>6. CASE ~(Insertable(KeyOf(r), CallOf(r).account) /\ KeyOf(r) \notin LongKey)
  BY <1>3, <1>4, <1>6 DEF InsertDeposit, KeyOf
<1>7. QED
  BY <1>5, <1>6

\* The row of a withdrawal takes the key, or nothing is written.
LEMMA InsertWithdrawalInv ==
  ASSUME CapitalInv, NEW r \in Request, InsertWithdrawal(r)
  PROVE  CapitalInv'
<1>1. StateType /\ request[r].pc = "insert" /\ ~Holds(r)
  BY DEF CapitalInv, InsertWithdrawal, At, Holds
<1>2. KeyOf(r) \in Key /\ UNCHANGED <<tx, wire, engine>>
  BY <1>1, Started DEF InsertWithdrawal, ledgerVars
<1>3. CASE /\ Insertable(KeyOf(r), CallOf(r).account)
           /\ movement' = [movement EXCEPT ![KeyOf(r)] = NewMovement(CallOf(r))]
           /\ Goto(r, "call")
  <2>1. tx[Ldg(KeyOf(r))] = NoTx
    BY <1>2, <1>3 DEF CapitalInv, BooksOf, Insertable, NoMovement
  <2>2. TakesClaim(r)
    BY <1>1, <1>2, <1>3, <2>1 DEF TakesClaim, InsertWithdrawal, StateType
  <2>3. QED
    BY <2>2, TakesClaimInv
<1>4. CASE UNCHANGED movement /\ Answer(r, "error")
  <2>1. "error" \in Result
    BY DEF Result
  <2>2. QED
    BY <1>1, <1>2, <1>4, <2>1, AnswerInv
<1>5. CASE Insertable(KeyOf(r), CallOf(r).account)
  BY <1>3, <1>5 DEF InsertWithdrawal, KeyOf
<1>6. CASE ~Insertable(KeyOf(r), CallOf(r).account)
  BY <1>4, <1>6 DEF InsertWithdrawal, KeyOf
<1>7. QED
  BY <1>5, <1>6

\* A withdrawal whose key the ledger cannot hold ends with an error.
LEMMA TooLongInv ==
  ASSUME CapitalInv, NEW r \in Request, WithdrawTooLong(r)
  PROVE  CapitalInv'
<1>1. /\ request[r].pc = "wait" /\ "error" \in Result /\ KeyOf(r) \in LongKey
      /\ Answer(r, "error") /\ UNCHANGED <<tx, movement, wire, engine>>
  BY DEF WithdrawTooLong, At, Result, ledgerVars
<1>2. QED
  BY <1>1, AnswerInv

\* A handler that is lost leaves what it wrote.
LEMMA AbandonInv ==
  ASSUME CapitalInv, NEW r \in Request, Abandon(r)
  PROVE  CapitalInv'
<1>1. /\ request[r].pc \notin {"idle", "done"} /\ "lost" \in Result
      /\ Answer(r, "lost") /\ UNCHANGED <<tx, movement, wire, engine>>
  BY DEF Abandon, Result, ledgerVars
<1>2. QED
  BY <1>1, AnswerInv

\* What a handler at work knows: its movement is PENDING, a deposit is reserved
\* and a withdrawal is not in the ledger.
LEMMA Working ==
  ASSUME CapitalInv, NEW r \in Request, Holds(r), NEW k \in Key, KeyOf(r) = k
  PROVE  /\ movement[k].direction = CallOf(r).op /\ movement[k].status = "PENDING"
         /\ movement[k].account = CallOf(r).account /\ movement[k].amount = CallOf(r).amount
         /\ CallOf(r).op \in {"DEPOSIT", "WITHDRAWAL"} /\ CallOf(r).amount \in Amount
         /\ TraderOf(r) \in Trader /\ Owner[movement[k].account] = TraderOf(r)
         /\ CallOf(r).op = "DEPOSIT" =>
              tx[Ldg(k)] = NewTx("TRADER_DEPOSIT", "PENDING", TraderOf(r), CallOf(r).amount)
         /\ CallOf(r).op = "WITHDRAWAL" => tx[Ldg(k)] = NoTx
         /\ tx[Pf(k)] = NoTx
<1>1. StateType /\ MovementOfClaim(r) /\ Claims(r)
  BY DEF CapitalInv, Claims
<1>2. /\ CallOf(r).op \in {"DEPOSIT", "WITHDRAWAL"} /\ CallOf(r).amount \in Amount
      /\ TraderOf(r) \in Trader
  BY <1>1, Started DEF Holds
<1>3. /\ movement[k].direction = CallOf(r).op /\ movement[k].status = "PENDING"
      /\ movement[k].account = CallOf(r).account /\ movement[k].amount = CallOf(r).amount
  BY <1>1 DEF MovementOfClaim
<1>4. Owner[movement[k].account] = TraderOf(r)
  BY <1>3 DEF TraderOf
<1>5. BooksOf(k) /\ ~BookedWithdrawal(k) /\ HoldStatus("PENDING") = "PENDING"
  BY <1>3 DEF CapitalInv, BookedWithdrawal, HoldStatus, Unresolved
<1>6. QED
  BY <1>2, <1>3, <1>4, <1>5 DEF BooksOf

\* A status that is written changes nothing else of the movement.
LEMMA StatusWritten ==
  ASSUME StateType, NEW k \in Key, OnAccount(k), NEW status, SetStatus(k, status)
  PROVE  /\ movement'[k].status = status /\ movement'[k].direction = movement[k].direction
         /\ movement'[k].account = movement[k].account
         /\ movement'[k].amount = movement[k].amount
BY MovementTyped DEF StateType, SetStatus

\* An answered deposit is committed: its reservation was open.
LEMMA DepositSettleInv ==
  ASSUME CapitalInv, NEW r \in Request, DepositSettle(r), NEW k \in Key, KeyOf(r) = k
  PROVE  CapitalInv'
<1>1. /\ StateType /\ OnItsWay(r) /\ AnswerTrue(r) /\ Holds(r) /\ CallOf(r).op = "DEPOSIT"
      /\ wire[r] \in {"ok", "reused"} /\ SetStatus(k, "COMPLETED") /\ Answer(r, "created")
      /\ CommitDeposit(Ldg(k)) /\ UNCHANGED <<wire, engine>>
  BY DEF CapitalInv, DepositSettle, At, Holds
<1> DEFINE hold == NewTx("TRADER_DEPOSIT", "PENDING", TraderOf(r), CallOf(r).amount)
           paid == NewTx("TRADER_DEPOSIT", "POSTED", TraderOf(r), CallOf(r).amount)
<1>2. /\ tx[Ldg(k)] = hold /\ tx[Pf(k)] = NoTx
      /\ movement[k].direction = "DEPOSIT" /\ OnAccount(k)
      /\ Owner[movement[k].account] = TraderOf(r) /\ movement[k].amount = CallOf(r).amount
      /\ TraderOf(r) \in Trader /\ CallOf(r).amount \in Amount
  BY <1>1, Working DEF OnAccount
<1>3. hold.status = "PENDING" /\ [hold EXCEPT !.status = "POSTED"] = paid
  BY DEF NewTx
<1>4. paid \in Transaction
  BY <1>2, NewTxType DEF TxKind, TxStatus
<1> HIDE DEF hold, paid
<1>5. tx' = [tx EXCEPT ![Ldg(k)] = paid]
  BY <1>1, <1>2, <1>3 DEF CommitDeposit
<1>6. /\ tx' \in Txs /\ tx'[Ldg(k)] = paid
      /\ \A x \in TxKey \ {Ldg(k), Pf(k)} : tx'[x] = tx[x]
      /\ tx'[Pf(k)] = NoTx
  BY <1>1, <1>2, <1>4, <1>5, LedgerKeys DEF StateType, Txs
<1>7. /\ movement'[k].status = "COMPLETED" /\ movement'[k].direction = "DEPOSIT"
      /\ movement'[k].account = movement[k].account
      /\ movement'[k].amount = movement[k].amount
  BY <1>1, <1>2, StatusWritten
<1>8. BooksOf(k)'
  <2>1. HoldStatus("COMPLETED") = "POSTED"
    BY DEF HoldStatus, Unresolved
  <2>2. paid = NewTx("TRADER_DEPOSIT", HoldStatus("COMPLETED"),
                     Owner[movement'[k].account], movement'[k].amount)
    BY <1>2, <1>7, <2>1 DEF paid
  <2>3. QED
    BY <1>2, <1>6, <1>7, <2>2 DEF BooksOf
<1>9. CompletedOf(k)'
  <2>1. EngineOf(k) # Untouched /\ Stripped[k] # Blank
    BY <1>1 DEF OnItsWay, AnswerTrue
  <2>2. /\ EngineOf(k).op = "DEPOSIT" /\ EngineOf(k).account = movement[k].account
        /\ EngineOf(k).amount = movement[k].amount
        /\ EngineOf(k).for = k \/ Answered(k, "reused")'
    <3>1. CASE wire[r] = "ok"
      <4>1. Stripped[k] \in EngineKey \cup {Blank} /\ EngineOf(k).for = k
        BY <1>1, <3>1, CapitalAssumption DEF AnswerTrue
      <4>2. QED
        BY <1>2, <2>1, <4>1, MovementOfMove DEF EngineOf
    <3>2. CASE wire[r] = "reused"
      <4>1. movement[k].account = CallOf(r).account /\ movement[k].amount = CallOf(r).amount
        BY <1>1, Working
      <4>2. wire'[r] = "reused" /\ KeyOf(r)' = k
        BY <1>1, <3>2 DEF Answer, StateType, Holds, KeyOf, CallOf, Idle
      <4>3. QED
        BY <1>1, <3>2, <4>1, <4>2 DEF AnswerTrue, Answered
    <3>3. QED
      BY <1>1, <3>1, <3>2
  <2>3. QED
    BY <1>1, <1>7, <2>1, <2>2 DEF CompletedOf, EngineOf
<1>10. Resolves(r, k, "COMPLETED", "created")
  BY <1>1, <1>6 DEF Resolves, Result
<1>11. QED
  BY <1>8, <1>9, <1>10, ResolvesInv

\* A refused deposit gives its reservation back.
LEMMA DepositRejectInv ==
  ASSUME CapitalInv, NEW r \in Request, DepositReject(r), NEW k \in Key, KeyOf(r) = k
  PROVE  CapitalInv'
<1>1. /\ StateType /\ Holds(r) /\ CallOf(r).op = "DEPOSIT"
      /\ wire[r] \in {"quiet", "rejected", "conflict"}
      /\ SetStatus(k, "FAILED") /\ Answer(r, "refused")
      /\ ReleaseDeposit(Ldg(k)) /\ UNCHANGED <<wire, engine>>
  BY DEF CapitalInv, DepositReject, Refused, At, Holds, OnItsWay
<1> DEFINE hold == NewTx("TRADER_DEPOSIT", "PENDING", TraderOf(r), CallOf(r).amount)
           back == NewTx("TRADER_DEPOSIT", "FAILED", TraderOf(r), CallOf(r).amount)
<1>2. /\ tx[Ldg(k)] = hold /\ tx[Pf(k)] = NoTx
      /\ movement[k].direction = "DEPOSIT" /\ OnAccount(k)
      /\ Owner[movement[k].account] = TraderOf(r) /\ movement[k].amount = CallOf(r).amount
      /\ TraderOf(r) \in Trader /\ CallOf(r).amount \in Amount
  BY <1>1, Working DEF OnAccount
<1>3. hold.status = "PENDING" /\ [hold EXCEPT !.status = "FAILED"] = back
  BY DEF NewTx
<1>4. back \in Transaction
  BY <1>2, NewTxType DEF TxKind, TxStatus
<1> HIDE DEF hold, back
<1>5. tx' = [tx EXCEPT ![Ldg(k)] = back]
  BY <1>1, <1>2, <1>3 DEF ReleaseDeposit
<1>6. /\ tx' \in Txs /\ tx'[Ldg(k)] = back
      /\ \A x \in TxKey \ {Ldg(k), Pf(k)} : tx'[x] = tx[x]
      /\ tx'[Pf(k)] = NoTx
  BY <1>1, <1>2, <1>4, <1>5, LedgerKeys DEF StateType, Txs
<1>7. /\ movement'[k].status = "FAILED" /\ movement'[k].direction = "DEPOSIT"
      /\ movement'[k].account = movement[k].account
      /\ movement'[k].amount = movement[k].amount
  BY <1>1, <1>2, StatusWritten
<1>8. BooksOf(k)'
  <2>1. HoldStatus("FAILED") = "FAILED"
    BY DEF HoldStatus, Unresolved
  <2>2. back = NewTx("TRADER_DEPOSIT", HoldStatus("FAILED"),
                     Owner[movement'[k].account], movement'[k].amount)
    BY <1>2, <1>7, <2>1 DEF back
  <2>3. QED
    BY <1>2, <1>6, <1>7, <2>2 DEF BooksOf
<1>9. CompletedOf(k)'
  BY <1>7 DEF CompletedOf
<1>10. Resolves(r, k, "FAILED", "refused")
  BY <1>1, <1>6 DEF Resolves, Result
<1>11. QED
  BY <1>8, <1>9, <1>10, ResolvesInv

\* A movement that is resolved without the ledger: a withdrawal that is refused,
\* and anything that is given up.
LEMMA QuietlyInv ==
  ASSUME CapitalInv, NEW r \in Request, Holds(r), NEW k \in Key, KeyOf(r) = k,
         NEW status \in {"FAILED", "AMBIGUOUS", "REJECTED"}, NEW result \in Result,
         status = "REJECTED" => wire[r] = "negative" /\ CallOf(r).op = "WITHDRAWAL",
         status = "FAILED" => /\ wire[r] \in {"quiet", "rejected", "conflict"}
                              /\ CallOf(r).op = "WITHDRAWAL",
         SetStatus(k, status), Answer(r, result), UNCHANGED <<tx, wire, engine>>
  PROVE  CapitalInv'
<1>1. StateType
  BY DEF CapitalInv
<1>2. OnAccount(k)
  BY Working DEF OnAccount
<1>3. /\ movement'[k].status = status /\ movement'[k].direction = movement[k].direction
      /\ movement'[k].account = movement[k].account
      /\ movement'[k].amount = movement[k].amount
  BY <1>1, <1>2, StatusWritten
<1>4. BooksOf(k)'
  <2>1. CASE CallOf(r).op = "DEPOSIT"
    <3>1. /\ status = "AMBIGUOUS" /\ HoldStatus("AMBIGUOUS") = "PENDING"
          /\ movement'[k].direction = "DEPOSIT"
      BY <1>3, <2>1, Working DEF HoldStatus, Unresolved
    <3>2. /\ tx'[Ldg(k)] = NewTx("TRADER_DEPOSIT", HoldStatus("AMBIGUOUS"),
                                 Owner[movement'[k].account], movement'[k].amount)
          /\ tx'[Pf(k)] = NoTx
      BY <1>3, <2>1, <3>1, Working
    <3>3. QED
      BY <1>3, <3>1, <3>2 DEF BooksOf
  <2>2. CASE CallOf(r).op = "WITHDRAWAL"
    <3>1. tx'[Ldg(k)] = NoTx /\ tx'[Pf(k)] = NoTx /\ movement'[k].direction = "WITHDRAWAL"
      BY <1>3, <2>2, Working
    <3>2. QED
      BY <3>1 DEF BooksOf
  <2>3. QED
    BY <2>1, <2>2, Working
<1>5. CompletedOf(k)'
  BY <1>3 DEF CompletedOf
<1>6. Resolves(r, k, status, result)
  BY <1>1 DEF Resolves, StateType
<1>7. QED
  BY <1>4, <1>5, <1>6, ResolvesInv

\* A refused withdrawal.
LEMMA WithdrawRejectInv ==
  ASSUME CapitalInv, NEW r \in Request, WithdrawReject(r), NEW k \in Key, KeyOf(r) = k
  PROVE  CapitalInv'
<1>1. /\ Holds(r) /\ CallOf(r).op = "WITHDRAWAL" /\ "refused" \in Result
      /\ wire[r] \in {"quiet", "rejected", "conflict"}
      /\ SetStatus(k, "FAILED") /\ Answer(r, "refused") /\ UNCHANGED <<tx, wire, engine>>
  BY DEF CapitalInv, WithdrawReject, Refused, At, Holds, OnItsWay, Result, ledgerVars
<1>2. QED
  BY <1>1, QuietlyInv

\* A withdrawal that moved nothing.
LEMMA WithdrawEmptyInv ==
  ASSUME CapitalInv, NEW r \in Request, WithdrawEmpty(r), NEW k \in Key, KeyOf(r) = k
  PROVE  CapitalInv'
<1>1. /\ Holds(r) /\ CallOf(r).op = "WITHDRAWAL" /\ "created" \in Result
      /\ wire[r] = "negative"
      /\ SetStatus(k, "REJECTED") /\ Answer(r, "created") /\ UNCHANGED <<tx, wire, engine>>
  BY DEF WithdrawEmpty, At, Holds, Result, ledgerVars
<1>2. QED
  BY <1>1, QuietlyInv

\* A movement that is given up as AMBIGUOUS.
LEMMA UncertainInv ==
  ASSUME CapitalInv, NEW r \in Request, Uncertain(r), NEW k \in Key, KeyOf(r) = k
  PROVE  CapitalInv'
<1>1. /\ Holds(r) /\ "uncertain" \in Result
      /\ SetStatus(k, "AMBIGUOUS") /\ Answer(r, "uncertain") /\ UNCHANGED <<tx, wire, engine>>
  BY DEF Uncertain, At, Holds, Result, ledgerVars
<1>2. QED
  BY <1>1, QuietlyInv

\* A withdrawal the engine did not debit for this key: no ledger entry.
LEMMA WithdrawReusedInv ==
  ASSUME CapitalInv, NEW r \in Request, WithdrawReused(r), NEW k \in Key, KeyOf(r) = k
  PROVE  CapitalInv'
<1>1. /\ StateType /\ OnItsWay(r) /\ AnswerTrue(r) /\ Holds(r) /\ CallOf(r).op = "WITHDRAWAL"
      /\ wire[r] = "reused" /\ SetStatus(k, "COMPLETED") /\ Answer(r, "created")
      /\ UNCHANGED <<tx, wire, engine>>
  BY DEF CapitalInv, WithdrawReused, At, Holds, ledgerVars
<1>2. /\ tx[Ldg(k)] = NoTx /\ tx[Pf(k)] = NoTx /\ OnAccount(k)
      /\ movement[k].direction = "WITHDRAWAL"
  BY <1>1, Working DEF OnAccount
<1>3. movement'[k].status = "COMPLETED" /\ movement'[k].direction = "WITHDRAWAL"
  BY <1>1, <1>2, StatusWritten
<1>4. BooksOf(k)'
  BY <1>1, <1>2, <1>3 DEF BooksOf
<1>5. CompletedOf(k)'
  <2>1. wire'[r] = "reused" /\ KeyOf(r)' = k
    BY <1>1 DEF Answer, StateType, Holds, KeyOf, CallOf, Idle
  <2>2. QED
    BY <1>1, <1>3, <2>1 DEF CompletedOf, OnItsWay, AnswerTrue, EngineOf, Answered
<1>6. Resolves(r, k, "COMPLETED", "created")
  BY <1>1 DEF Resolves, Result, StateType
<1>7. QED
  BY <1>4, <1>5, <1>6, ResolvesInv

\* The fee of a withdrawal that is settled: none, if the engine answered a zero.
Charged(r) == IF wire[r] = "zero" THEN 0 ELSE EngineOf(KeyOf(r)).fee

\* What the engine did for the answer ok, and what the settlement leaves in the
\* ledger: the withdrawal, and the fee if there was one.
LEMMA WithdrawBooks ==
  ASSUME CapitalInv, NEW r \in Request, WithdrawSettle(r), NEW k \in Key, KeyOf(r) = k
  PROVE  /\ wire[r] \in {"ok", "zero"}
         /\ wire[r] = "ok" => /\ EngineOf(k) # Untouched /\ EngineOf(k).for = k
                              /\ Stripped[k] # Blank
         /\ Charged(r) \in Amount \cup {0}
         /\ tx[Ldg(k)] = NoTx /\ tx[Pf(k)] = NoTx
         /\ tx' \in Txs
         /\ tx'[Ldg(k)] = NewTx("TRADER_WITHDRAWAL", "POSTED", TraderOf(r), CallOf(r).amount)
         /\ tx'[Pf(k)] = FeeTx(TraderOf(r), Charged(r))
         /\ \A x \in TxKey \ {Ldg(k), Pf(k)} : tx'[x] = tx[x]
<1> DEFINE f == Charged(r)
           moved == NewTx("TRADER_WITHDRAWAL", "POSTED", TraderOf(r), CallOf(r).amount)
           charged == NewTx("PERF_FEE", "POSTED", TraderOf(r), f)
<1>1. /\ StateType /\ OnItsWay(r) /\ AnswerTrue(r) /\ Holds(r) /\ CallOf(r).op = "WITHDRAWAL"
      /\ wire[r] \in {"ok", "zero"}
  BY DEF CapitalInv, WithdrawSettle, At, Holds
<1>2. wire[r] = "ok" => /\ EngineOf(k) # Untouched /\ EngineOf(k).for = k
                        /\ Stripped[k] # Blank
  BY <1>1 DEF AnswerTrue, OnItsWay
<1>3. f \in Amount \cup {0}
  <2>1. CASE wire[r] = "ok"
    <3>1. EngineOf(k) \in Executed
      BY <1>1, <1>2, <2>1, CapitalAssumption DEF StateType, EngineOf
    <3>2. QED
      BY <2>1, <3>1, CapitalAssumption DEF Executed, Charged
  <2>2. CASE wire[r] = "zero"
    BY <2>2 DEF Charged
  <2>3. QED
    BY <1>1, <2>1, <2>2
<1>4. /\ tx[Ldg(k)] = NoTx /\ tx[Pf(k)] = NoTx
      /\ TraderOf(r) \in Trader /\ CallOf(r).amount \in Amount
  BY <1>1, Working
<1>5. moved \in Transaction /\ (f \in Amount => charged \in Transaction)
  BY <1>4, NewTxType DEF TxKind, TxStatus
<1>6. tx[Ldg(k)].status # "POSTED" /\ ~Exists(Ldg(k)) /\ ~Exists(Pf(k))
  BY <1>4 DEF Exists, NoTx
<1>7. /\ Posted(Ldg(k), "TRADER_WITHDRAWAL", TraderOf(r), CallOf(r).amount) = moved
      /\ Posted(Pf(k), "PERF_FEE", TraderOf(r), f) = charged
  BY <1>6 DEF Posted
<1>8. tx \in Txs /\ Ldg(k) \in TxKey /\ Pf(k) \in TxKey /\ Ldg(k) # Pf(k)
  BY <1>1, LedgerKeys DEF StateType
<1>9. \/ f = 0 /\ PostWithdrawal(Ldg(k), TraderOf(r), CallOf(r).amount)
      \/ f > 0 /\ PostWithdrawalAndFee(Ldg(k), Pf(k), TraderOf(r), CallOf(r).amount, f)
  BY DEF WithdrawSettle, Charged
<1> HIDE DEF f, moved, charged
<1>10. CASE f = 0
  <2>1. PostWithdrawal(Ldg(k), TraderOf(r), CallOf(r).amount)
    BY <1>9, <1>10
  <2>2. tx' = [tx EXCEPT ![Ldg(k)] = moved]
    BY <1>6, <1>7, <2>1 DEF PostWithdrawal
  <2>3. /\ tx' \in Txs /\ tx'[Ldg(k)] = moved /\ tx'[Pf(k)] = NoTx
        /\ \A x \in TxKey \ {Ldg(k), Pf(k)} : tx'[x] = tx[x]
    BY <1>4, <1>5, <1>8, <2>2 DEF Txs
  <2>4. QED
    BY <1>1, <1>2, <1>3, <1>4, <1>10, <2>3 DEF FeeTx, moved, f
<1>11. CASE f # 0
  <2>1. PostWithdrawalAndFee(Ldg(k), Pf(k), TraderOf(r), CallOf(r).amount, f) /\ f \in Amount
    BY <1>3, <1>9, <1>11
  <2>2. tx' = [tx EXCEPT ![Ldg(k)] = moved, ![Pf(k)] = charged]
    BY <1>7, <2>1 DEF PostWithdrawalAndFee
  <2>3. /\ tx' \in Txs /\ tx'[Ldg(k)] = moved /\ tx'[Pf(k)] = charged
        /\ \A x \in TxKey \ {Ldg(k), Pf(k)} : tx'[x] = tx[x]
    BY <1>4, <1>5, <1>8, <2>1, <2>2 DEF Txs
  <2>4. QED
    BY <1>1, <1>2, <1>3, <1>4, <1>11, <2>3 DEF FeeTx, moved, charged, f
<1>12. QED
  BY <1>10, <1>11

\* A withdrawal that was executed is booked, with its fee; one that was answered
\* with a zero is booked without.
LEMMA WithdrawSettleInv ==
  ASSUME CapitalInv, NEW r \in Request, WithdrawSettle(r), NEW k \in Key, KeyOf(r) = k
  PROVE  CapitalInv'
<1>1. /\ StateType /\ Holds(r) /\ CallOf(r).op = "WITHDRAWAL" /\ wire[r] \in {"ok", "zero"}
      /\ SetStatus(k, "COMPLETED") /\ Answer(r, "created") /\ UNCHANGED <<wire, engine>>
  BY DEF CapitalInv, WithdrawSettle, At, Holds
<1>2. /\ OnAccount(k) /\ movement[k].direction = "WITHDRAWAL"
      /\ Owner[movement[k].account] = TraderOf(r) /\ movement[k].amount = CallOf(r).amount
  BY <1>1, Working DEF OnAccount
<1>3. /\ movement'[k].status = "COMPLETED" /\ movement'[k].direction = "WITHDRAWAL"
      /\ movement'[k].account = movement[k].account
      /\ movement'[k].amount = movement[k].amount
  BY <1>1, <1>2, StatusWritten
<1>4. EngineOf(k)' = EngineOf(k)
  BY <1>1 DEF EngineOf
<1>5. BookedWithdrawal(k)'
  <2>1. CASE wire[r] = "ok"
    <3>1. /\ EngineOf(k) # Untouched /\ EngineOf(k).for = k /\ Stripped[k] # Blank
          /\ Charged(r) = EngineOf(k).fee /\ tx'[Pf(k)] = FeeTx(TraderOf(r), Charged(r))
      BY <2>1, WithdrawBooks DEF Charged
    <3>2. MovedWithdrawal(k)'
      BY <1>2, <1>3, <1>4, <3>1 DEF MovedWithdrawal
    <3>3. QED
      BY <1>2, <1>3, <3>2, WithdrawBooks DEF BookedWithdrawal
  <2>2. CASE wire[r] = "zero"
    <3>1. wire'[r] = "zero" /\ KeyOf(r)' = k
      BY <1>1, <2>2 DEF Answer, StateType, Holds, KeyOf, CallOf, Idle
    <3>2. Answered(k, "zero")'
      BY <3>1 DEF Answered
    <3>3. tx'[Pf(k)] = NoTx
      BY <2>2, WithdrawBooks DEF Charged, FeeTx
    <3>4. QED
      BY <1>2, <1>3, <3>2, <3>3, WithdrawBooks DEF BookedWithdrawal
  <2>3. QED
    BY <1>1, <2>1, <2>2
<1>6. BooksOf(k)'
  BY <1>3, <1>5 DEF BooksOf
<1>7. CompletedOf(k)'
  <2> DEFINE moved == NewTx("TRADER_WITHDRAWAL", "POSTED", TraderOf(r), CallOf(r).amount)
  <2>1. tx'[Ldg(k)] # NoTx
    <3>1. moved # NoTx
      BY DEF NewTx, NoTx
    <3>2. tx'[Ldg(k)] = moved
      BY WithdrawBooks
    <3> HIDE DEF moved
    <3>3. QED
      BY <3>1, <3>2
  <2>2. QED
    BY <1>3, <2>1 DEF CompletedOf
<1>8. Resolves(r, k, "COMPLETED", "created")
  BY <1>1, WithdrawBooks DEF Resolves, Result
<1>9. QED
  BY <1>6, <1>7, <1>8, ResolvesInv

\* The engine moves the money.
LEMMA EngineExecuteInv ==
  ASSUME CapitalInv, NEW r \in Request, EngineExecute(r), NEW k \in Key, KeyOf(r) = k
  PROVE  CapitalInv'
<1> DEFINE c == CallOf(r)
<1>1. StateType /\ wire[r] = "sent" /\ EngineOf(k) = Untouched /\ c.key = k
      /\ UNCHANGED <<movement, request, tx>>
  BY DEF CapitalInv, EngineExecute, KeyOf, ledgerVars
<1>2. PICK fee \in (IF c.op = "WITHDRAWAL" THEN Fee \cup {0} ELSE {0}) :
        engine' = [engine EXCEPT ![Stripped[k]] =
                     [state |-> "executed", for |-> k, op |-> c.op,
                      account |-> c.account, amount |-> c.amount, fee |-> fee]]
  BY <1>1 DEF EngineExecute
<1>3. PICK answer \in {"ok", "error"} : wire' = [wire EXCEPT ![r] = answer]
  BY DEF EngineExecute
<1>4. Claims(r) /\ c.op \in {"DEPOSIT", "WITHDRAWAL"} /\ c.account \in MamAccount
      /\ c.amount \in Amount
  BY <1>1, ClaimantStarted, Started DEF CapitalInv, Claims
<1> DEFINE x == [state |-> "executed", for |-> k, op |-> c.op,
                 account |-> c.account, amount |-> c.amount, fee |-> fee]
<1>5. x \in Executed
  BY <1>2, <1>4 DEF Executed
<1>6. /\ x.for = k /\ x.op = c.op /\ x.account = c.account /\ x.amount = c.amount
      /\ c.op = "DEPOSIT" => x.fee = 0
  BY <1>2
<1> HIDE DEF x
<1>7. Executes(r)
  BY <1>1, <1>2, <1>5, <1>6 DEF Executes, x
<1>8. Hears(r, answer)
  BY <1>1, <1>3, <1>7 DEF Hears
<1>9. QED
  BY <1>8, HearsInv

\* The engine knows the key.
LEMMA EngineRepeatInv ==
  ASSUME CapitalInv, NEW r \in Request, EngineRepeat(r), NEW k \in Key, KeyOf(r) = k
  PROVE  CapitalInv'
<1>1. /\ wire[r] = "sent" /\ EngineOf(k) # Untouched
      /\ UNCHANGED <<movement, request, tx, engine>>
  BY DEF EngineRepeat, KeyOf, ledgerVars
<1>2. PICK answer \in {"reused", "conflict"} :
        /\ wire' = [wire EXCEPT ![r] = answer]
        /\ answer = "reused" => /\ EngineOf(k).op = CallOf(r).op
                                /\ EngineOf(k).account = CallOf(r).account
                                /\ EngineOf(k).amount = CallOf(r).amount
  BY DEF EngineRepeat, KeyOf
<1>3. Hears(r, answer)
  BY <1>1, <1>2 DEF Hears
<1>4. QED
  BY <1>3, HearsInv

\* The engine accepts a withdrawal and moves nothing.
LEMMA EngineEmptyInv ==
  ASSUME CapitalInv, NEW r \in Request, EngineEmpty(r), NEW k \in Key, KeyOf(r) = k
  PROVE  CapitalInv'
<1>1. wire[r] = "sent" /\ UNCHANGED <<movement, request, tx, engine>>
  BY DEF EngineEmpty, ledgerVars
<1>2. PICK answer \in {"zero", "negative"} : wire' = [wire EXCEPT ![r] = answer]
  BY DEF EngineEmpty
<1>3. Hears(r, answer)
  BY <1>1, <1>2 DEF Hears
<1>4. QED
  BY <1>3, HearsInv

\* The engine refuses or fails.
LEMMA EngineRefuseInv ==
  ASSUME CapitalInv, NEW r \in Request, EngineRefuse(r), NEW k \in Key, KeyOf(r) = k
  PROVE  CapitalInv'
<1>1. wire[r] = "sent" /\ UNCHANGED <<movement, request, tx, engine>>
  BY DEF EngineRefuse, ledgerVars
<1>2. PICK answer \in {"rejected", "conflict", "error"} : wire' = [wire EXCEPT ![r] = answer]
  BY DEF EngineRefuse
<1>3. Hears(r, answer)
  BY <1>1, <1>2 DEF Hears
<1>4. QED
  BY <1>3, HearsInv

\* The invariant holds at the start.
LEMMA CapitalInitInv == Init => CapitalInv
<1> SUFFICES ASSUME Init PROVE CapitalInv
  OBVIOUS
<1>1. /\ \A x \in TxKey : tx[x] = NoTx
      /\ \A k \in Key : movement[k] = NoMovement
      /\ \A r \in Request : request[r] = Idle /\ wire[r] = "quiet"
      /\ \A e \in EngineKey \cup {Blank} : engine[e] = Untouched
  BY DEF Init, LedgerInit
<1>2. StateType
  BY DEF Init, LedgerInit, StateType, Txs, Wire
<1>3. \A r \in Request : ~Claims(r)
  BY <1>1 DEF Claims, Holds, Idle
<1>4. \A k \in Key : ~OnAccount(k)
  BY <1>1 DEF OnAccount, NoMovement
<1>5. \A k \in Key : BooksOf(k) /\ CompletedOf(k) /\ Cared(k)
  BY <1>1, <1>4, LedgerKeys DEF BooksOf, CompletedOf, Cared, Pending, NoMovement
<1>6. \A r \in Request : OnItsWay(r) /\ MovementOfClaim(r) /\ AnswerTrue(r)
  BY <1>1, <1>3 DEF OnItsWay, MovementOfClaim, AnswerTrue
<1>7. OneClaim /\ EngineTrue /\ OnePending
  BY <1>1, <1>3, <1>4 DEF OneClaim, EngineTrue, OnePending, Pending
<1>8. QED
  BY <1>2, <1>5, <1>6, <1>7 DEF CapitalInv

\* The key of a handler at work, and of a call that left.
LEMMA ClaimedKey ==
  ASSUME CapitalInv, NEW r \in Request, Claims(r)
  PROVE  KeyOf(r) \in Key
BY ClaimantStarted, Started DEF CapitalInv

\* A step that writes other keys of the ledger only keeps the invariant.
LEMMA ElsewhereInv ==
  ASSUME CapitalInv, UNCHANGED <<movement, request, wire, engine>>,
         tx' \in Txs, \A x \in Ours : tx'[x] = tx[x]
  PROVE  CapitalInv'
<1>1. /\ UNCHANGED <<movement, request, wire, engine>> /\ tx' \in Txs
      /\ \A k \in Key : tx'[Ldg(k)] = tx[Ldg(k)] /\ tx'[Pf(k)] = tx[Pf(k)]
  BY DEF Ours, Ldg, Pf
<1>2. \A r \in Request : /\ CallOf(r)' = CallOf(r) /\ KeyOf(r)' = KeyOf(r)
                         /\ Claims(r)' = Claims(r) /\ Holds(r)' = Holds(r)
  BY <1>1 DEF CallOf, KeyOf, Claims, Holds
<1>3. /\ StateType'
      /\ \A r \in Request : OnItsWay(r)' /\ MovementOfClaim(r)' /\ AnswerTrue(r)'
      /\ OneClaim' /\ EngineTrue' /\ OnePending'
  BY <1>1, <1>2 DEF CapitalInv, StateType, OnItsWay, MovementOfClaim, AnswerTrue, OneClaim,
     EngineTrue, ExecutedFor, OnePending, Pending, OnAccount, EngineOf
<1>4. ASSUME NEW k \in Key
      PROVE  BooksOf(k)' /\ CompletedOf(k)' /\ Cared(k)'
  <2>1. BooksOf(k) /\ CompletedOf(k) /\ EngineOf(k)' = EngineOf(k) /\ Cared(k)
    BY <1>1 DEF CapitalInv, EngineOf
  <2>2. /\ Answered(k, "reused") => Answered(k, "reused")'
        /\ Answered(k, "zero") => Answered(k, "zero")'
    BY <1>1, <1>2, AnsweredStays
  <2>3. BooksOf(k)' /\ CompletedOf(k)'
    BY <1>1, <2>1, <2>2, BooksStay
  <2>4. Cared(k)'
    BY <1>1, <1>2, <2>1 DEF Cared, Pending, OnAccount
  <2>5. QED
    BY <2>3, <2>4
<1>5. QED
  BY <1>3, <1>4 DEF CapitalInv

\* Every step keeps the invariant.
LEMMA CapitalStepInv == CapitalInv /\ [Next]_vars => CapitalInv'
<1> SUFFICES ASSUME CapitalInv, [Next]_vars PROVE CapitalInv'
  OBVIOUS
<1>1. CASE UNCHANGED vars
  <2>1. tx' \in Txs
    BY <1>1 DEF vars, CapitalInv, StateType
  <2>2. QED
    BY <1>1, <2>1, ElsewhereInv DEF vars
<1>2. ASSUME NEW r \in Request, Handle(r)
      PROVE  CapitalInv'
  <2>1. CASE Lookup(r) \/ Guard(r) \/ InsertDeposit(r) \/ InsertWithdrawal(r) \/ Send(r)
             \/ WithdrawTooLong(r)
    BY <2>1, LookupInv, GuardInv, InsertDepositInv, InsertWithdrawalInv, SendInv, TooLongInv
  <2>2. CASE DepositSettle(r) \/ DepositReject(r) \/ WithdrawSettle(r) \/ WithdrawEmpty(r)
             \/ WithdrawReused(r) \/ WithdrawReject(r) \/ Uncertain(r)
    <3>1. KeyOf(r) \in Key
      <4>1. Holds(r)
        BY <2>2 DEF Holds, At, DepositSettle, DepositReject, WithdrawSettle, WithdrawEmpty,
           WithdrawReused, WithdrawReject, Uncertain, Refused
      <4>2. QED
        BY <4>1, ClaimedKey DEF Claims
    <3>2. QED
      BY <2>2, <3>1, DepositSettleInv, DepositRejectInv, WithdrawSettleInv, WithdrawEmptyInv,
         WithdrawReusedInv, WithdrawRejectInv, UncertainInv
  <2>3. QED
    BY <1>2, <2>1, <2>2 DEF Handle
<1>3. ASSUME NEW r \in Request, Engine(r)
      PROVE  CapitalInv'
  <2>1. wire[r] = "sent"
    BY <1>3 DEF Engine, EngineExecute, EngineRepeat, EngineEmpty, EngineRefuse
  <2>2. KeyOf(r) \in Key
    BY <2>1, ClaimedKey DEF Claims
  <2>3. QED
    BY <1>3, <2>2, EngineExecuteInv, EngineRepeatInv, EngineEmptyInv, EngineRefuseInv
       DEF Engine
<1>4. QED
  BY <1>1, <1>2, <1>3, FundKeepsInv, StartInv, AbandonInv DEF Next

\* The invariant holds in every reachable state.
THEOREM CapitalInvariant == Spec => []CapitalInv
BY CapitalInitInv, CapitalStepInv, PTL DEF Spec

-----------------------------------------------------------------------------
(* The callers keep the obligations of the ledger *)

\* Every step is a step of the ledger, or leaves it alone: what a withdrawal
\* posts is under keys nothing else has used.
LEMMA LedgerStep == CapitalInv /\ [Next]_vars => [LedgerNext]_ledgerVars
<1> SUFFICES ASSUME CapitalInv, [Next]_vars PROVE [LedgerNext]_ledgerVars
  OBVIOUS
<1>1. CASE UNCHANGED vars
  BY <1>1 DEF vars, ledgerVars
<1>2. ASSUME NEW k \in Key, NEW a \in Amount, Fund(k, a)
      PROVE  LedgerNext
  BY <1>2, LedgerKeys DEF Fund, LedgerNext
<1>3. ASSUME NEW r \in Request, InsertDeposit(r)
      PROVE  [LedgerNext]_ledgerVars
  <2>1. /\ KeyOf(r) \in Key /\ CallOf(r).amount \in Amount /\ TraderOf(r) \in Trader
    BY <1>3, Started DEF CapitalInv, InsertDeposit, At
  <2>2. CASE CreateDepositHold(Ldg(KeyOf(r)), TraderOf(r), CallOf(r).amount)
    BY <2>1, <2>2, LedgerKeys DEF LedgerNext
  <2>3. QED
    BY <1>3, <2>2 DEF InsertDeposit, KeyOf
<1>4. ASSUME NEW r \in Request, DepositSettle(r) \/ DepositReject(r)
      PROVE  LedgerNext
  <2>1. KeyOf(r) \in Key
    <3>1. Claims(r)
      BY <1>4 DEF Claims, Holds, At, DepositSettle, DepositReject, Refused
    <3>2. QED
      BY <3>1, ClaimedKey
  <2>2. CommitDeposit(Ldg(KeyOf(r))) \/ ReleaseDeposit(Ldg(KeyOf(r)))
    BY <1>4 DEF DepositSettle, DepositReject
  <2>3. QED
    BY <2>1, <2>2, LedgerKeys DEF LedgerNext
<1>5. ASSUME NEW r \in Request, WithdrawSettle(r)
      PROVE  LedgerNext
  <2>1. Holds(r)
    BY <1>5 DEF Holds, At, WithdrawSettle
  <2>2. KeyOf(r) \in Key
    BY <2>1, ClaimedKey DEF Claims
  <2> DEFINE k == KeyOf(r)
             f == Charged(r)
  <2>3. CallOf(r).amount \in Amount /\ TraderOf(r) \in Trader
    BY <2>1, <2>2, Working
  <2>4. f \in Amount \cup {0} /\ tx[Ldg(k)] = NoTx /\ tx[Pf(k)] = NoTx
    BY <1>5, <2>2, WithdrawBooks
  <2>5. Ldg(k) \in TxKey /\ Pf(k) \in TxKey /\ Ldg(k) # Pf(k)
    BY <2>2, LedgerKeys
  <2>6. Unreserved(Ldg(k)) /\ Unreserved(Pf(k))
    BY <2>4 DEF Unreserved, NoTx
  <2>7. \/ PostWithdrawal(Ldg(k), TraderOf(r), CallOf(r).amount)
        \/ f > 0 /\ PostWithdrawalAndFee(Ldg(k), Pf(k), TraderOf(r), CallOf(r).amount, f)
    BY <1>5 DEF WithdrawSettle, Charged
  <2> HIDE DEF k, f
  <2>8. CASE PostWithdrawal(Ldg(k), TraderOf(r), CallOf(r).amount)
    BY <2>3, <2>5, <2>6, <2>8 DEF LedgerNext
  <2>9. CASE f > 0 /\ PostWithdrawalAndFee(Ldg(k), Pf(k), TraderOf(r), CallOf(r).amount, f)
    <3>1. f \in Amount
      BY <2>4, <2>9
    <3>2. QED
      BY <2>3, <2>5, <2>6, <2>9, <3>1 DEF LedgerNext
  <2>10. QED
    BY <2>7, <2>8, <2>9
<1>6. ASSUME NEW r \in Request,
             \/ \E c \in Call : Start(r, c)
             \/ Lookup(r) \/ Guard(r) \/ InsertWithdrawal(r) \/ Send(r) \/ WithdrawTooLong(r)
             \/ WithdrawEmpty(r) \/ WithdrawReused(r) \/ WithdrawReject(r) \/ Uncertain(r)
             \/ Engine(r) \/ Abandon(r)
      PROVE  UNCHANGED ledgerVars
  BY <1>6 DEF Start, Lookup, Guard, InsertWithdrawal, Send, WithdrawTooLong, WithdrawEmpty,
     WithdrawReused, WithdrawReject, Uncertain, Engine, EngineExecute, EngineRepeat, EngineEmpty,
     EngineRefuse, Abandon
<1>7. QED
  BY <1>1, <1>2, <1>3, <1>4, <1>5, <1>6 DEF Next, Handle

\* The deposits and withdrawals of any number of concurrent requests use the
\* ledger as it asks to be used, whatever they, the engine and the crashes do.
THEOREM CapitalImplementsLedger == Spec => ImplementsLedger
<1>1. Init => LedgerInit
  BY DEF Init
<1>2. QED
  BY <1>1, LedgerStep, CapitalInvariant, PTL DEF Spec, ImplementsLedger, LedgerSpec

\* The ledger's own invariant holds under the requests.
THEOREM LedgerUnderRequests == Spec => []LedgerInv
BY CapitalImplementsLedger, InvariantHolds, PTL DEF ImplementsLedger

-----------------------------------------------------------------------------
(* What the invariant says *)

\* At most one movement of an account is PENDING.
LEMMA OneInFlightMeaning == CapitalInv => OneInFlight
<1> SUFFICES ASSUME CapitalInv, NEW acc \in MamAccount
             PROVE  Cardinality(PendingOn(acc)) <= 1
  BY DEF OneInFlight
<1>1. \A j, k \in PendingOn(acc) : j = k
  BY DEF CapitalInv, OnePending, Pending, PendingOn
<1>2. CASE PendingOn(acc) = {}
  BY <1>2, FS_EmptySet
<1>3. CASE PendingOn(acc) # {}
  <2>1. PICK k : PendingOn(acc) = {k}
    BY <1>1, <1>3
  <2>2. Cardinality({k}) = 1
    BY FS_Singleton
  <2>3. QED
    BY <2>1, <2>2
<1>4. QED
  BY <1>2, <1>3

\* A key has one claim, and what has left is claimed for ever.
LEMMA SentOnceMeaning == CapitalInv => SentOnce
BY DEF CapitalInv, OneClaim, Claims, SentOnce

\* The books of a key say what its movement says.
LEMMA HoldMeaning == CapitalInv => HoldFollowsMovement
<1> SUFFICES ASSUME CapitalInv, NEW k \in Key
             PROVE  CASE movement[k].direction = "DEPOSIT" ->
                           tx[Ldg(k)].status =
                             (CASE movement[k].status \in Unresolved -> "PENDING"
                                [] movement[k].status = "COMPLETED" -> "POSTED"
                                [] movement[k].status = "FAILED" -> "FAILED")
                      [] movement[k].direction = "WITHDRAWAL" ->
                           movement[k].status # "COMPLETED" => tx[Ldg(k)] = NoTx
                      [] movement[k].direction = "FUNDING" -> tx[Ldg(k)].status = "POSTED"
                      [] OTHER -> tx[Ldg(k)] = NoTx /\ tx[Pf(k)] = NoTx
  BY DEF HoldFollowsMovement
<1>1. BooksOf(k) /\ StateType
  BY DEF CapitalInv
<1>2. CASE movement[k].direction = "DEPOSIT"
  <2>1. movement[k].status \in Statuses \ {"REJECTED"}
    BY <1>1, <1>2, MovementTyped DEF OnAccount, BooksOf
  <2>2. tx[Ldg(k)].status = HoldStatus(movement[k].status)
    BY <1>1, <1>2 DEF BooksOf, NewTx
  <2>3. HoldStatus(movement[k].status) =
          (CASE movement[k].status \in Unresolved -> "PENDING"
             [] movement[k].status = "COMPLETED" -> "POSTED"
             [] movement[k].status = "FAILED" -> "FAILED")
    BY <2>1 DEF HoldStatus, Unresolved, Statuses
  <2>4. QED
    BY <1>2, <2>2, <2>3
<1>3. CASE movement[k].direction = "WITHDRAWAL"
  BY <1>1, <1>3 DEF BooksOf, BookedWithdrawal
<1>4. CASE movement[k].direction = "FUNDING"
  BY <1>1, <1>4 DEF BooksOf, NewTx
<1>5. CASE movement[k].direction \notin {"DEPOSIT", "WITHDRAWAL", "FUNDING"}
  <2>1. movement[k].direction = "NONE"
    BY <1>1, <1>5, MovementTyped DEF OnAccount
  <2>2. tx[Ldg(k)] = NoTx /\ tx[Pf(k)] = NoTx
    BY <1>1, <2>1 DEF BooksOf
  <2>3. QED
    BY <1>5, <2>2
<1>6. QED
  BY <1>2, <1>3, <1>4, <1>5

\* What is FAILED or REJECTED has not moved, and no call for it is on its way.
LEMMA FailedMeaning == CapitalInv => FailedNeverMoves
<1> SUFFICES ASSUME CapitalInv, NEW k \in Key, movement[k].status \in {"FAILED", "REJECTED"}
             PROVE  ~MovedFor(k) /\ ~MayStillMove(k)
  BY DEF FailedNeverMoves
<1>1. ~MovedFor(k)
  BY MovementOfMove DEF MovedFor
<1>2. ~MayStillMove(k)
  BY DEF MayStillMove, CapitalInv, AnswerTrue
<1>3. QED
  BY <1>1, <1>2

\* Who cares for a PENDING movement.
LEMMA PendingMeaning == CapitalInv => PendingHasHandler
<1> SUFFICES ASSUME CapitalInv, NEW k \in Key \ LongKey, OnAccount(k),
                    movement[k].status = "PENDING"
             PROVE  \E r \in Request : /\ request[r] # Idle /\ KeyOf(r) = k
                                       /\ \/ request[r].pc \in {"call", "wait"}
                                          \/ request[r].result = "lost"
  BY DEF PendingHasHandler
<1>1. Cared(k) /\ Pending(k)
  BY DEF CapitalInv, Pending
<1>2. QED
  BY <1>1 DEF Cared, Holds

\* What is booked was moved, with the fee, or the answer said otherwise.
LEMMA BookedMeaning == CapitalInv => BookedWasMoved
<1> SUFFICES ASSUME CapitalInv, NEW k \in Key \ Imagined, OnAccount(k),
                    tx[Ldg(k)].status = "POSTED"
             PROVE  LET e == EngineOf(k)
                    IN  /\ e # Untouched /\ (e.for # k => k \in Echoed)
                        /\ e.op = movement[k].direction /\ e.account = movement[k].account
                        /\ e.amount = tx[Ldg(k)].amount /\ tx[Ldg(k)].trader = Owner[e.account]
                        /\ tx[Pf(k)].amount = e.fee
  BY DEF BookedWasMoved
<1>1. BooksOf(k) /\ CompletedOf(k) /\ StateType
  BY DEF CapitalInv
<1>2. Stripped[k] \in EngineKey \cup {Blank}
  BY CapitalAssumption
<1>3. CASE movement[k].direction = "DEPOSIT"
  <2>1. /\ tx[Ldg(k)] = NewTx("TRADER_DEPOSIT", HoldStatus(movement[k].status),
                              Owner[movement[k].account], movement[k].amount)
        /\ tx[Pf(k)] = NoTx
    BY <1>1, <1>3 DEF BooksOf
  <2>2. movement[k].status = "COMPLETED"
    <3>1. HoldStatus(movement[k].status) = "POSTED"
      BY <2>1 DEF NewTx
    <3>2. QED
      BY <3>1 DEF HoldStatus
  <2>3. /\ EngineOf(k) # Untouched /\ EngineOf(k).op = "DEPOSIT"
        /\ EngineOf(k).account = movement[k].account
        /\ EngineOf(k).amount = movement[k].amount
        /\ EngineOf(k).for = k \/ Answered(k, "reused")
    BY <1>1, <1>3, <2>2 DEF CompletedOf
  <2>4. EngineOf(k).for # k => k \in Echoed
    BY <1>3, <2>2, <2>3 DEF Echoed, CompletedOn
  <2>5. EngineOf(k).fee = 0
    <3>1. PICK r \in Request : ExecutedFor(Stripped[k], r)
      BY <1>2, <2>3 DEF CapitalInv, EngineTrue, EngineOf
    <3>2. QED
      BY <2>3, <3>1 DEF ExecutedFor, EngineOf
  <2>6. QED
    BY <1>3, <2>1, <2>3, <2>4, <2>5 DEF NewTx, NoTx
<1>4. CASE movement[k].direction = "WITHDRAWAL"
  <2>1. BookedWithdrawal(k)
    BY <1>1, <1>4 DEF BooksOf, NoTx
  <2>2. ~Answered(k, "zero")
    BY <1>4, <2>1 DEF Imagined, CompletedOn, BookedWithdrawal
  <2>3. /\ EngineOf(k) # Untouched /\ EngineOf(k).for = k
        /\ tx[Pf(k)] = FeeTx(Owner[movement[k].account], EngineOf(k).fee)
    BY <2>1, <2>2 DEF BookedWithdrawal, MovedWithdrawal
  <2>4. /\ EngineOf(k).op = movement[k].direction
        /\ EngineOf(k).account = movement[k].account
        /\ EngineOf(k).amount = movement[k].amount
    BY <1>2, <2>3, MovementOfMove DEF EngineOf
  <2>5. tx[Pf(k)].amount = EngineOf(k).fee
    BY <2>3 DEF FeeTx, NewTx, NoTx
  <2>6. QED
    BY <2>1, <2>3, <2>4, <2>5 DEF BookedWithdrawal, NewTx
<1>5. QED
  BY <1>3, <1>4 DEF OnAccount

\* Two operations are never in flight on one account.
THEOREM OneAtATime == Spec => []OneInFlight
BY CapitalInvariant, OneInFlightMeaning, PTL

\* No key is sent to the engine by two requests.
THEOREM KeysTravelOnce == Spec => []SentOnce
BY CapitalInvariant, SentOnceMeaning, PTL

\* The reservation of a deposit says what its movement says, and a withdrawal is
\* in the ledger only when it is COMPLETED.
THEOREM HoldsFollowMovements == Spec => []HoldFollowsMovement
BY CapitalInvariant, HoldMeaning, PTL

\* A FAILED or REJECTED movement has not moved and cannot move any more, however
\* late the engine acts on what it was sent.
THEOREM FailedIsSafe == Spec => []FailedNeverMoves
BY CapitalInvariant, FailedMeaning, PTL

\* A PENDING movement has a handler at work or dead, if its key fits the ledger.
THEOREM PendingIsCaredFor == Spec => []PendingHasHandler
BY CapitalInvariant, PendingMeaning, PTL

\* What is in the books was executed by the engine with the movement's account,
\* amount and fee, and for that movement; but for a deposit that the engine answered
\* as the repetition of another one, and a withdrawal it answered with a zero.
THEOREM BookedIsMoved == Spec => []BookedWasMoved
BY CapitalInvariant, BookedMeaning, PTL

-----------------------------------------------------------------------------
(* What a step may do to a movement *)

\* A movement stays, or its status is resolved.
Final(k) ==
  movement[k] # NoMovement =>
    \/ movement'[k] = movement[k]
    \/ /\ movement[k].status = "PENDING"
       /\ movement'[k] = [movement[k] EXCEPT !.status = movement'[k].status]

\* A new movement takes the place of none.
LEMMA NewIsFinal ==
  ASSUME StateType, NEW j \in Key, movement[j] = NoMovement, NEW m,
         movement' = [movement EXCEPT ![j] = m], NEW k \in Key
  PROVE  Final(k)
BY DEF Final, StateType

\* A handler writes the status of the movement it inserted, which is PENDING.
LEMMA StatusIsFinal ==
  ASSUME CapitalInv, NEW r \in Request, Holds(r), NEW j \in Key, KeyOf(r) = j, NEW status,
         SetStatus(j, status), NEW k \in Key
  PROVE  Final(k)
<1>1. StateType /\ OnAccount(j) /\ movement[j].status = "PENDING"
  BY Working DEF CapitalInv, OnAccount
<1>2. /\ movement'[j] = [movement[j] EXCEPT !.status = status]
      /\ \A i \in Key \ {j} : movement'[i] = movement[i]
  BY <1>1 DEF StateType, SetStatus
<1>3. movement'[j].status = status
  BY <1>1, StatusWritten
<1>4. QED
  BY <1>1, <1>2, <1>3 DEF Final

\* Every step leaves what was resolved alone.
LEMMA FinalStep ==
  ASSUME CapitalInv, [Next]_vars, NEW k \in Key
  PROVE  Final(k)
<1>1. CASE UNCHANGED vars
  BY <1>1 DEF vars, Final
<1>2. ASSUME NEW j \in Key, NEW a \in Amount, Fund(j, a)
      PROVE  Final(k)
  BY <1>2, NewIsFinal DEF Fund, CapitalInv
<1>3. ASSUME NEW r \in Request, InsertDeposit(r) \/ InsertWithdrawal(r)
      PROVE  Final(k)
  <2>1. KeyOf(r) \in Key
    BY <1>3, Started DEF CapitalInv, InsertDeposit, InsertWithdrawal, At
  <2>2. \/ UNCHANGED movement
        \/ /\ movement[KeyOf(r)] = NoMovement
           /\ movement' = [movement EXCEPT ![KeyOf(r)] = NewMovement(CallOf(r))]
    BY <1>3 DEF InsertDeposit, InsertWithdrawal, Insertable, KeyOf
  <2>3. CASE UNCHANGED movement
    BY <2>3 DEF Final
  <2>4. QED
    BY <2>1, <2>2, <2>3, NewIsFinal DEF CapitalInv
<1>4. ASSUME NEW r \in Request,
             \/ DepositSettle(r) \/ DepositReject(r) \/ WithdrawSettle(r) \/ WithdrawEmpty(r)
             \/ WithdrawReused(r) \/ WithdrawReject(r) \/ Uncertain(r)
      PROVE  Final(k)
  <2>1. Holds(r)
    BY <1>4 DEF Holds, At, DepositSettle, DepositReject, WithdrawSettle, WithdrawEmpty,
       WithdrawReused, WithdrawReject, Uncertain, Refused
  <2>2. KeyOf(r) \in Key
    BY <2>1, ClaimedKey DEF Claims
  <2>3. PICK status : SetStatus(KeyOf(r), status)
    BY <1>4 DEF DepositSettle, DepositReject, WithdrawSettle, WithdrawEmpty, WithdrawReused,
       WithdrawReject, Uncertain
  <2>4. QED
    BY <2>1, <2>2, <2>3, StatusIsFinal
<1>5. ASSUME NEW r \in Request,
             \/ \E c \in Call : Start(r, c)
             \/ Lookup(r) \/ Guard(r) \/ Send(r) \/ WithdrawTooLong(r) \/ Engine(r) \/ Abandon(r)
      PROVE  Final(k)
  <2>1. UNCHANGED movement
    BY <1>5 DEF Start, Lookup, Guard, Send, WithdrawTooLong, Engine, EngineExecute,
       EngineRepeat, EngineEmpty, EngineRefuse, Abandon
  <2>2. QED
    BY <2>1 DEF Final
<1>6. QED
  BY <1>1, <1>2, <1>3, <1>4, <1>5 DEF Next, Handle

\* No late answer, retry or second handler rewrites a movement that was resolved
\* or given up, and a PENDING one changes its status only.
THEOREM ResolvedIsFinal == Spec => MovementFinal
<1>1. CapitalInv /\ [Next]_vars =>
        [\A k \in Key :
           movement[k] # NoMovement =>
             \/ movement'[k] = movement[k]
             \/ /\ movement[k].status = "PENDING"
                /\ movement'[k] = [movement[k] EXCEPT !.status = movement'[k].status]]_movement
  BY FinalStep DEF Final
<1>2. QED
  BY <1>1, CapitalInvariant, PTL DEF Spec, MovementFinal

\* Type correctness.
THEOREM CapitalTypeCorrect == Spec => []CapitalTypeOK
<1>1. CapitalInv /\ LedgerInv => CapitalTypeOK
  BY InvMeaning DEF CapitalInv, StateType, CapitalTypeOK
<1>2. QED
  BY <1>1, CapitalInvariant, LedgerUnderRequests, PTL

-----------------------------------------------------------------------------
(* The books and the engine *)

\* A sum is at most another one when its members are sent to members of the
\* other one with the same amount, no two to the same; it is the same sum when
\* each member of the other one is reached.
SentInto(T, S, T2, S2, m) ==
  /\ \A e \in S : m[e] \in S2 /\ T2[m[e]].amount = T[e].amount
  /\ \A d, e \in S : m[d] = m[e] => d = e

Onto(S, S2, m) == \A x \in S2 : \E e \in S : m[e] = x

\* Members sent to different members of the same amount make at most the same sum.
LEMMA SumInto ==
  ASSUME NEW T, NEW S, NEW T2, NEW S2, NEW m, SentInto(T, S, T2, S2, m),
         IsFiniteSet(UnitsIn(T2, S2))
  PROVE  /\ IsFiniteSet(UnitsIn(T, S)) /\ Sum(T, S) <= Sum(T2, S2)
         /\ Onto(S, S2, m) => Sum(T, S) = Sum(T2, S2)
<1> DEFINE A == UnitsIn(T, S)
           B == UnitsIn(T2, S2)
           f == [p \in A |-> <<m[p[1]], p[2]>>]
<1>1. \A p \in A : p[1] \in S /\ p[2] \in 1 .. T[p[1]].amount /\ p = <<p[1], p[2]>>
  BY UnitsInMembers
<1>2. ASSUME NEW p \in A
      PROVE  f[p] \in B
  <2>1. p[1] \in S /\ p[2] \in 1 .. T2[m[p[1]]].amount /\ m[p[1]] \in S2
    BY <1>1 DEF SentInto
  <2>2. QED
    BY <2>1, UnitsInMembers
<1>3. ASSUME NEW p \in A, NEW q \in A, f[p] = f[q]
      PROVE  p = q
  <2>1. m[p[1]] = m[q[1]] /\ p[2] = q[2]
    BY <1>3
  <2>2. p[1] = q[1]
    BY <1>1, <2>1 DEF SentInto
  <2>3. QED
    BY <1>1, <2>1, <2>2
<1>4. f \in Injection(A, B)
  BY <1>2, <1>3 DEF Injection, IsInjective
<1>5. /\ IsFiniteSet(A) /\ Cardinality(A) <= Cardinality(B)
      /\ f \in Surjection(A, B) => Cardinality(A) = Cardinality(B)
  BY <1>4, FS_Injection
<1>6. ASSUME Onto(S, S2, m)
      PROVE  f \in Surjection(A, B)
  <2>1. ASSUME NEW q \in B
        PROVE  \E p \in A : f[p] = q
    <3>1. PICK x \in S2 : \E i \in 1 .. T2[x].amount : q = <<x, i>>
      BY UnitsInMembers
    <3>2. PICK i \in 1 .. T2[x].amount : q = <<x, i>>
      BY <3>1
    <3>3. PICK e \in S : m[e] = x
      BY <1>6 DEF Onto
    <3>4. T2[x].amount = T[e].amount
      BY <3>3 DEF SentInto
    <3>5. <<e, i>> \in A
      BY <3>2, <3>3, <3>4, UnitsInMembers
    <3>6. f[<<e, i>>] = q
      BY <3>2, <3>3, <3>5
    <3>7. QED
      BY <3>5, <3>6
  <2>2. QED
    BY <1>2, <2>1 DEF Surjection
<1>7. QED
  BY <1>5, <1>6 DEF Sum

\* What the engine did under its keys has finitely many units, so that its sums
\* are numbers.
Moves == {e \in EngineKey : engine[e] # Untouched}
MovesFinite == IsFiniteSet(UnitsIn(engine, Moves))

\* Every step writes the two transactions of a movement, or none.
LEMMA OthersStep ==
  ASSUME CapitalInv, [Next]_vars
  PROVE  \A x \in TxKey \ Ours : tx'[x] = tx[x]
<1> DEFINE Others == TxKey \ Ours
<1>1. \A k \in Key : Ldg(k) \notin Others /\ Pf(k) \notin Others
  BY DEF Ldg, Pf, Ours
<1>2. SUFFICES \A x \in Others : tx'[x] = tx[x]
  OBVIOUS
<1> HIDE DEF Others
<1>3. tx \in Txs /\ Others \subseteq TxKey
  BY DEF CapitalInv, StateType, Others
<1>4. CASE UNCHANGED vars
  BY <1>4 DEF vars
<1>5. ASSUME NEW k \in Key, NEW a \in Amount, Fund(k, a)
      PROVE  \A x \in Others : tx'[x] = tx[x]
  BY <1>1, <1>3, <1>5 DEF Fund, FundMasterAccount, Txs
<1>6. ASSUME NEW r \in Request, InsertDeposit(r)
      PROVE  \A x \in Others : tx'[x] = tx[x]
  <2>1. KeyOf(r) \in Key
    BY <1>6, Started DEF CapitalInv, InsertDeposit, At
  <2>2. CreateDepositHold(Ldg(KeyOf(r)), TraderOf(r), CallOf(r).amount) \/ UNCHANGED tx
    BY <1>6 DEF InsertDeposit, KeyOf, ledgerVars
  <2>3. QED
    BY <1>1, <1>3, <2>1, <2>2 DEF CreateDepositHold, Txs
<1>7. ASSUME NEW r \in Request, DepositSettle(r) \/ DepositReject(r)
      PROVE  \A x \in Others : tx'[x] = tx[x]
  <2>1. KeyOf(r) \in Key
    <3>1. Claims(r)
      BY <1>7 DEF Claims, Holds, At, DepositSettle, DepositReject, Refused
    <3>2. QED
      BY <3>1, ClaimedKey
  <2>2. CommitDeposit(Ldg(KeyOf(r))) \/ ReleaseDeposit(Ldg(KeyOf(r)))
    BY <1>7 DEF DepositSettle, DepositReject
  <2>3. QED
    BY <1>1, <1>3, <2>1, <2>2 DEF CommitDeposit, ReleaseDeposit, Txs, ledgerVars
<1>8. ASSUME NEW r \in Request, WithdrawSettle(r)
      PROVE  \A x \in Others : tx'[x] = tx[x]
  <2>1. KeyOf(r) \in Key
    <3>1. Claims(r)
      BY <1>8 DEF Claims, Holds, At, WithdrawSettle
    <3>2. QED
      BY <3>1, ClaimedKey
  <2>2. \A x \in TxKey \ {Ldg(KeyOf(r)), Pf(KeyOf(r))} : tx'[x] = tx[x]
    BY <1>8, <2>1, WithdrawBooks
  <2>3. QED
    BY <1>1, <1>3, <2>1, <2>2
<1>9. ASSUME NEW r \in Request,
             \/ \E c \in Call : Start(r, c)
             \/ Lookup(r) \/ Guard(r) \/ InsertWithdrawal(r) \/ Send(r) \/ WithdrawTooLong(r)
             \/ WithdrawEmpty(r) \/ WithdrawReused(r) \/ WithdrawReject(r) \/ Uncertain(r)
             \/ Engine(r) \/ Abandon(r)
      PROVE  UNCHANGED tx
  BY <1>9 DEF Start, Lookup, Guard, InsertWithdrawal, Send, WithdrawTooLong, WithdrawEmpty,
     WithdrawReused, WithdrawReject, Uncertain, Engine, EngineExecute, EngineRepeat, EngineEmpty,
     EngineRefuse, Abandon, ledgerVars
<1>10. QED
  BY <1>4, <1>5, <1>6, <1>7, <1>8, <1>9 DEF Next, Handle

\* The engine does one thing at a time.
LEMMA MovesFiniteStep ==
  ASSUME CapitalInv, MovesFinite, [Next]_vars
  PROVE  MovesFinite'
<1>1. StateType
  BY DEF CapitalInv
<1>2. CASE UNCHANGED engine
  BY <1>2 DEF MovesFinite, Moves
<1>3. ASSUME NEW r \in Request, EngineExecute(r)
      PROVE  MovesFinite'
  <2> DEFINE a == CallOf(r).amount
             e == Stripped[KeyOf(r)]
  <2>1. wire[r] = "sent" /\ KeyOf(r) = CallOf(r).key
    BY <1>3 DEF EngineExecute, KeyOf
  <2>2. a \in Nat /\ e \in EngineKey \cup {Blank}
    BY <2>1, ClaimantStarted, Started, AmountAssumption DEF CapitalInv, Claims
  <2>3. PICK fee : engine' = [engine EXCEPT ![e] =
                     [state |-> "executed", for |-> KeyOf(r), op |-> CallOf(r).op,
                      account |-> CallOf(r).account, amount |-> a, fee |-> fee]]
    BY <1>3, <2>1 DEF EngineExecute
  <2>4. /\ engine'[e].amount = a
        /\ \A d \in EngineKey \ {e} : engine'[d] = engine[d]
    BY <1>1, <2>2, <2>3 DEF StateType
  <2> HIDE DEF a, e
  <2>5. UnitsIn(engine', Moves') \subseteq UnitsIn(engine, Moves) \cup ({e} \X (1 .. a))
    <3>1. ASSUME NEW p \in UnitsIn(engine', Moves')
          PROVE  p \in UnitsIn(engine, Moves) \cup ({e} \X (1 .. a))
      <4>1. PICK d \in Moves' : \E i \in 1 .. engine'[d].amount : p = <<d, i>>
        BY <3>1, UnitsInMembers
      <4>2. CASE d = e
        BY <2>4, <4>1, <4>2
      <4>3. CASE d # e
        <5>1. d \in Moves /\ engine'[d] = engine[d]
          BY <2>4, <4>1, <4>3 DEF Moves
        <5>2. QED
          BY <4>1, <5>1, UnitsInMembers
      <4>4. QED
        BY <4>2, <4>3
    <3>2. QED
      BY <3>1
  <2>6. IsFiniteSet({e} \X (1 .. a))
    BY <2>2, UnitsOfOne
  <2>7. IsFiniteSet(UnitsIn(engine', Moves'))
    BY <2>5, <2>6, FS_Union, FS_Subset DEF MovesFinite
  <2>8. QED
    BY <2>7 DEF MovesFinite, UnitsIn
<1>4. UNCHANGED engine \/ \E r \in Request : EngineExecute(r)
  BY DEF Next, Handle, Engine, Fund, Start, Lookup, Guard, InsertDeposit, InsertWithdrawal, Send,
     EngineRepeat, EngineEmpty, EngineRefuse, DepositSettle, DepositReject, WithdrawSettle,
     WithdrawTooLong, WithdrawEmpty, WithdrawReused, WithdrawReject, Uncertain, Abandon, vars
<1>5. QED
  BY <1>2, <1>3, <1>4

\* At the start it did nothing.
LEMMA MovesInitially == Init => MovesFinite
<1> SUFFICES ASSUME Init PROVE MovesFinite
  OBVIOUS
<1>1. Moves = {}
  BY DEF Init, Moves
<1>2. UnitsIn(engine, Moves) = {}
  BY <1>1 DEF UnitsIn
<1>3. QED
  BY <1>2, FS_EmptySet DEF MovesFinite

\* Nothing but movements is in the ledger, and what the engine moved is a number.
LEMMA BooksInvariant == Spec => [](OnlyMovements /\ MovesFinite)
<1>1. Init => OnlyMovements /\ MovesFinite
  BY MovesInitially DEF Init, LedgerInit, OnlyMovements
<1>2. CapitalInv /\ (OnlyMovements /\ MovesFinite) /\ [Next]_vars
        => (OnlyMovements /\ MovesFinite)'
  BY OthersStep, MovesFiniteStep DEF OnlyMovements
<1>3. QED
  BY <1>1, <1>2, CapitalInvariant, PTL DEF Spec

ResolvedKeys == Key \ UnresolvedKeys

\* What is in the books under our keys.
OurBooked(kind) == BookedIn(tx, kind) \cap Ours

\* The ledger key of what the engine did.
BookOf == [e \in EngineKey |-> Ldg(engine[e].for)]

\* No two moves have one ledger key.
LEMMA BookOfOne ==
  ASSUME CapitalInv, NEW d \in Moves, NEW e \in Moves, BookOf[d] = BookOf[e]
  PROVE  d = e
<1>1. /\ engine[d].for \in Key /\ d = Stripped[engine[d].for]
      /\ engine[e].for \in Key /\ e = Stripped[engine[e].for]
  BY MovementOfMove DEF Moves
<1>2. Ldg(engine[d].for) = Ldg(engine[e].for)
  BY DEF BookOf, Moves
<1>3. QED
  BY <1>1, <1>2, LedgerKeys

\* A transaction of capital under one of our keys is the one of a movement.
LEMMA BookIsMovement ==
  ASSUME CapitalInv, NEW x \in Ours,
         tx[x].kind \in {"TRADER_DEPOSIT", "TRADER_WITHDRAWAL"}
  PROVE  \E k \in Key : /\ x = Ldg(k) /\ BooksOf(k)
                        /\ movement[k].direction = IF tx[x].kind = "TRADER_DEPOSIT"
                                                     THEN "DEPOSIT" ELSE "WITHDRAWAL"
<1>1. tx[x] # NoTx
  BY DEF NoTx
<1>2. PICK k \in Key : x = Ldg(k) \/ x = Pf(k)
  BY DEF Ours, Ldg, Pf
<1>3. BooksOf(k) /\ StateType
  BY DEF CapitalInv
<1>4. movement[k].direction \in {"DEPOSIT", "WITHDRAWAL", "FUNDING", "NONE"}
  BY <1>3, MovementTyped DEF OnAccount
<1>5. x # Pf(k)
  <2>1. ASSUME x = Pf(k) PROVE FALSE
    <3>1. movement[k].direction = "WITHDRAWAL" /\ BookedWithdrawal(k)
      BY <1>1, <1>3, <2>1 DEF BooksOf
    <3>2. tx[x] = NoTx \/ tx[x].kind = "PERF_FEE"
      BY <2>1, <3>1 DEF BookedWithdrawal, MovedWithdrawal, FeeTx, NewTx
    <3>3. QED
      BY <1>1, <3>2
  <2>2. QED
    BY <2>1
<1>6. /\ movement[k].direction = "DEPOSIT" => tx[Ldg(k)].kind = "TRADER_DEPOSIT"
      /\ movement[k].direction = "FUNDING" => tx[Ldg(k)].kind = "MASTER_ACCOUNT_FUNDING"
      /\ movement[k].direction = "NONE" => tx[Ldg(k)] = NoTx
      /\ movement[k].direction = "WITHDRAWAL" =>
           tx[Ldg(k)] = NoTx \/ tx[Ldg(k)].kind = "TRADER_WITHDRAWAL"
  BY <1>3 DEF BooksOf, BookedWithdrawal, NewTx
<1>7. QED
  BY <1>1, <1>2, <1>3, <1>4, <1>5, <1>6

\* The ledger keys of movements.
Books(K) == {Ldg(k) : k \in K}

\* What is booked, one move under each key, or without a move, makes the sum of
\* the moves and of what is booked without.
LEMMA BooksOfMoves ==
  ASSUME CapitalInv, FiniteIn(tx), NEW S \in SUBSET Moves, NEW S2 \in SUBSET TxKey,
         NEW E \in SUBSET S2,
         \A e \in S : BookOf[e] \in S2 \ E /\ tx[BookOf[e]].amount = engine[e].amount,
         \A x \in S2 \ E : \E e \in S : BookOf[e] = x
  PROVE  Sum(tx, S2) = Sum(engine, S) + Sum(tx, E) /\ Sum(tx, E) \in Nat
<1> DEFINE D == S2 \ E
<1>1. D \cap E = {} /\ D \cup E = S2 /\ D \in SUBSET TxKey /\ E \in SUBSET TxKey
  OBVIOUS
<1>2. \A d, e \in S : BookOf[d] = BookOf[e] => d = e
  BY BookOfOne
<1>3. SentInto(engine, S, tx, D, BookOf) /\ Onto(S, D, BookOf)
  BY <1>2 DEF SentInto, Onto
<1> HIDE DEF D
<1>4. IsFiniteSet(UnitsIn(tx, D)) /\ IsFiniteSet(UnitsIn(tx, E))
  BY <1>1, SumIsNat
<1>5. Sum(engine, S) = Sum(tx, D)
  BY <1>3, <1>4, SumInto
<1>6. Agree(tx, tx, D)
  BY DEF Agree
<1>7. Sum(tx, D \cup E) = Sum(tx, D) + Sum(tx, E) /\ Sum(tx, E) \in Nat
  BY ONLY <1>1, <1>4, <1>6, SumJoin
<1>8. QED
  BY <1>1, <1>5, <1>7

\* What was moved for a resolved withdrawal is booked, and nothing else but what
\* was answered with a zero.
LEMMA ResolvedWithdrawals ==
  ASSUME CapitalInv, FiniteIn(tx)
  PROVE  /\ Sum(tx, OurBooked(WITHDRAWAL)) = Sum(engine, Moved("WITHDRAWAL", ResolvedKeys))
                                             + Sum(tx, Books(Imagined))
         /\ Sum(tx, Books(Imagined)) \in Nat
<1> DEFINE S == Moved("WITHDRAWAL", ResolvedKeys)
           S2 == OurBooked(WITHDRAWAL)
           E == Books(Imagined)
<1>1. S \in SUBSET Moves /\ S2 \in SUBSET TxKey /\ StateType
  BY DEF Moved, Moves, OurBooked, BookedIn, CapitalInv
<1>2. ASSUME NEW e \in S
      PROVE  BookOf[e] \in S2 \ E /\ tx[BookOf[e]].amount = engine[e].amount
  <2> DEFINE k == engine[e].for
  <2>1. /\ k \in Key /\ e = Stripped[k] /\ movement[k].direction = "WITHDRAWAL"
        /\ OnAccount(k) /\ movement[k].amount = engine[e].amount
        /\ movement[k].status \notin {"FAILED", "REJECTED"} /\ k \notin UnresolvedKeys
        /\ engine[e] # Untouched /\ e \in EngineKey
    BY <1>1, MovementOfMove DEF Moved, ResolvedKeys, Moves
  <2>2. MovedFor(k) /\ EngineOf(k).for = k
    BY <2>1 DEF MovedFor, EngineOf
  <2>3. BookOf[e] = Ldg(k)
    BY <2>1 DEF BookOf
  <2> HIDE DEF k
  <2>4. movement[k].status = "COMPLETED"
    BY <1>1, <2>1, MovementTyped DEF Statuses, UnresolvedKeys, Unresolved
  <2>5. BookedWithdrawal(k)
    BY <2>1, <2>2, <2>4 DEF CapitalInv, BooksOf, CompletedOf
  <2>6. Ldg(k) \in TxKey /\ Ldg(k) \in Ours
    BY <2>1, LedgerKeys DEF Ours, Ldg
  <2>7. Ldg(k) \notin E
    BY <2>1, <2>2, LedgerKeys, OneAnswer DEF Books, Imagined, CompletedOn
  <2>8. QED
    BY <2>1, <2>3, <2>5, <2>6, <2>7
       DEF BookedWithdrawal, OurBooked, BookedIn, NewTx, WITHDRAWAL
<1>3. ASSUME NEW x \in S2 \ E
      PROVE  \E e \in S : BookOf[e] = x
  <2>1. x \in Ours /\ tx[x].kind = "TRADER_WITHDRAWAL"
    BY DEF OurBooked, BookedIn, WITHDRAWAL
  <2>2. PICK k \in Key : x = Ldg(k) /\ BooksOf(k) /\ movement[k].direction = "WITHDRAWAL"
    BY <2>1, BookIsMovement
  <2>3. BookedWithdrawal(k)
    BY <2>1, <2>2 DEF BooksOf, NoTx
  <2>4. MovedWithdrawal(k)
    BY <2>2, <2>3 DEF BookedWithdrawal, Books, Imagined, CompletedOn
  <2>5. Stripped[k] \in EngineKey /\ engine[Stripped[k]] # Untouched /\ engine[Stripped[k]].for = k
    BY <2>4, CapitalAssumption DEF MovedWithdrawal, EngineOf
  <2>6. engine[Stripped[k]].op = "WITHDRAWAL"
    BY <2>2, <2>5, MovementOfMove
  <2>7. k \in ResolvedKeys
    BY <2>3 DEF BookedWithdrawal, ResolvedKeys, UnresolvedKeys, Unresolved
  <2>8. Stripped[k] \in S /\ BookOf[Stripped[k]] = x
    BY <2>2, <2>5, <2>6, <2>7 DEF Moved, BookOf
  <2>9. QED
    BY <2>8
<1>4. E \in SUBSET S2
  <2>1. ASSUME NEW k \in Imagined
        PROVE  Ldg(k) \in S2
    <3>1. /\ k \in Key /\ movement[k].direction = "WITHDRAWAL" /\ OnAccount(k)
          /\ movement[k].status = "COMPLETED" /\ Answered(k, "zero")
      BY DEF Imagined, CompletedOn, OnAccount
    <3>2. BookedWithdrawal(k)
      BY <3>1, OneAnswer DEF CapitalInv, BooksOf, CompletedOf
    <3>3. Ldg(k) \in TxKey /\ Ldg(k) \in Ours
      BY <3>1, LedgerKeys DEF Ours, Ldg
    <3>4. QED
      BY <3>2, <3>3 DEF BookedWithdrawal, OurBooked, BookedIn, NewTx, WITHDRAWAL
  <2>2. QED
    BY <2>1 DEF Books
<1> HIDE DEF S, S2, E
<1>5. Sum(tx, S2) = Sum(engine, S) + Sum(tx, E) /\ Sum(tx, E) \in Nat
  BY <1>1, <1>2, <1>3, <1>4, BooksOfMoves
<1>6. QED
  BY <1>5 DEF S, S2, E

\* What was moved for a resolved deposit is booked, and nothing else but what was
\* answered as the repetition of another deposit.
LEMMA ResolvedDeposits ==
  ASSUME CapitalInv, FiniteIn(tx)
  PROVE  /\ Sum(tx, OurBooked(DEPOSIT)) = Sum(engine, Moved("DEPOSIT", ResolvedKeys))
                                          + Sum(tx, Books(Echoed))
         /\ Sum(tx, Books(Echoed)) \in Nat
<1> DEFINE S == Moved("DEPOSIT", ResolvedKeys)
           S2 == OurBooked(DEPOSIT)
           E == Books(Echoed)
<1>1. S \in SUBSET Moves /\ S2 \in SUBSET TxKey /\ StateType
  BY DEF Moved, Moves, OurBooked, BookedIn, CapitalInv
<1>2. ASSUME NEW k \in Key, movement[k].direction = "DEPOSIT", movement[k].status = "COMPLETED"
      PROVE  Ldg(k) \in S2 /\ tx[Ldg(k)].amount = movement[k].amount
  <2>1. tx[Ldg(k)] = NewTx("TRADER_DEPOSIT", "POSTED", Owner[movement[k].account],
                           movement[k].amount)
    BY <1>2 DEF CapitalInv, BooksOf, HoldStatus, Unresolved
  <2>2. Ldg(k) \in TxKey /\ Ldg(k) \in Ours
    BY LedgerKeys DEF Ours, Ldg
  <2>3. QED
    BY <2>1, <2>2 DEF OurBooked, BookedIn, NewTx, DEPOSIT
<1>3. ASSUME NEW e \in S
      PROVE  BookOf[e] \in S2 \ E /\ tx[BookOf[e]].amount = engine[e].amount
  <2> DEFINE k == engine[e].for
  <2>1. /\ k \in Key /\ movement[k].direction = "DEPOSIT"
        /\ OnAccount(k) /\ movement[k].amount = engine[e].amount
        /\ movement[k].status \notin {"FAILED", "REJECTED"} /\ k \notin UnresolvedKeys
        /\ engine[e] # Untouched /\ e \in EngineKey
    BY <1>1, MovementOfMove DEF Moved, ResolvedKeys, Moves
  <2>2. BookOf[e] = Ldg(k) /\ MovedFor(k)
    BY <2>1 DEF BookOf, MovedFor
  <2> HIDE DEF k
  <2>3. movement[k].status = "COMPLETED"
    BY <1>1, <2>1, MovementTyped DEF Statuses, UnresolvedKeys, Unresolved
  <2>4. Ldg(k) \notin E
    BY <2>1, <2>2, LedgerKeys, OneAnswer DEF Books, Echoed, CompletedOn
  <2>5. QED
    BY <1>2, <2>1, <2>2, <2>3, <2>4
<1>4. ASSUME NEW x \in S2 \ E
      PROVE  \E e \in S : BookOf[e] = x
  <2>1. x \in Ours /\ tx[x].kind = "TRADER_DEPOSIT" /\ tx[x].status = "POSTED"
    BY DEF OurBooked, BookedIn, DEPOSIT
  <2>2. PICK k \in Key : x = Ldg(k) /\ BooksOf(k) /\ movement[k].direction = "DEPOSIT"
    BY <2>1, BookIsMovement
  <2>3. HoldStatus(movement[k].status) = "POSTED"
    BY <2>1, <2>2 DEF BooksOf, NewTx
  <2>4. movement[k].status = "COMPLETED" /\ k \in ResolvedKeys
    BY <2>3 DEF HoldStatus, ResolvedKeys, UnresolvedKeys, Unresolved
  <2>5. ~Answered(k, "reused")
    BY <2>2, <2>4 DEF Books, Echoed, CompletedOn
  <2>6. /\ Stripped[k] # Blank /\ EngineOf(k) # Untouched
        /\ EngineOf(k).op = "DEPOSIT" /\ EngineOf(k).for = k
    BY <2>2, <2>4, <2>5 DEF CapitalInv, CompletedOf, OnAccount
  <2>7. Stripped[k] \in EngineKey
    BY <2>6, CapitalAssumption
  <2>8. Stripped[k] \in S /\ BookOf[Stripped[k]] = x
    BY <2>2, <2>4, <2>6, <2>7 DEF Moved, BookOf, EngineOf
  <2>9. QED
    BY <2>8
<1>5. E \in SUBSET S2
  BY <1>2 DEF Books, Echoed, CompletedOn
<1> HIDE DEF S, S2, E
<1>6. Sum(tx, S2) = Sum(engine, S) + Sum(tx, E) /\ Sum(tx, E) \in Nat
  BY <1>1, <1>3, <1>4, <1>5, BooksOfMoves
<1>7. QED
  BY <1>6 DEF S, S2, E

\* What was moved for an unresolved deposit is still reserved.
LEMMA UnresolvedDeposits ==
  ASSUME CapitalInv, FiniteIn(tx)
  PROVE  Sum(engine, Moved("DEPOSIT", UnresolvedKeys)) <= Sum(tx, HeldIn(tx))
<1> DEFINE S == Moved("DEPOSIT", UnresolvedKeys)
           S2 == HeldIn(tx)
<1>1. S \subseteq Moves /\ StateType
  BY DEF Moved, Moves, CapitalInv
<1>2. ASSUME NEW e \in S
      PROVE  BookOf[e] \in S2 /\ tx[BookOf[e]].amount = engine[e].amount
  <2> DEFINE k == engine[e].for
  <2>1. /\ k \in Key /\ movement[k].direction = "DEPOSIT"
        /\ movement[k].amount = engine[e].amount
        /\ movement[k].status \in Unresolved /\ e \in EngineKey
    BY <1>1, MovementOfMove DEF Moved, UnresolvedKeys, Moves
  <2>2. BookOf[e] = Ldg(k) /\ Ldg(k) \in TxKey
    BY <2>1, LedgerKeys DEF BookOf
  <2> HIDE DEF k
  <2>3. tx[Ldg(k)] = NewTx("TRADER_DEPOSIT", "PENDING", Owner[movement[k].account],
                           movement[k].amount)
    <3>1. HoldStatus(movement[k].status) = "PENDING"
      BY <2>1 DEF HoldStatus, Unresolved
    <3>2. BooksOf(k)
      BY <2>1 DEF CapitalInv
    <3>3. tx[Ldg(k)] = NewTx("TRADER_DEPOSIT", HoldStatus(movement[k].status),
                             Owner[movement[k].account], movement[k].amount)
      BY <2>1, <3>2 DEF BooksOf
    <3>4. QED
      BY <3>1, <3>3
  <2>4. QED
    BY <2>1, <2>2, <2>3 DEF HeldIn, NewTx
<1>3. \A d, e \in S : BookOf[d] = BookOf[e] => d = e
  BY <1>1, BookOfOne
<1>4. IsFiniteSet(UnitsIn(tx, S2))
  BY SumIsNat DEF HeldIn
<1> HIDE DEF S, S2
<1>5. SentInto(engine, S, tx, S2, BookOf)
  BY <1>2, <1>3 DEF SentInto
<1>6. Sum(engine, S) <= Sum(tx, S2)
  BY <1>4, <1>5, SumInto
<1>7. QED
  BY <1>6 DEF S, S2

\* What the engine moved, it moved for a resolved or for an unresolved movement.
LEMMA MovedSplits ==
  ASSUME CapitalInv, MovesFinite, NEW op
  PROVE  /\ EngineTotal(Moved(op, Key)) = Sum(engine, Moved(op, ResolvedKeys))
                                          + Sum(engine, Moved(op, UnresolvedKeys))
         /\ EngineTotal(Moved(op, UnresolvedKeys)) = Sum(engine, Moved(op, UnresolvedKeys))
         /\ Sum(engine, Moved(op, ResolvedKeys)) \in Nat
         /\ Sum(engine, Moved(op, UnresolvedKeys)) \in Nat
<1> DEFINE A == UnitsIn(engine, Moved(op, ResolvedKeys))
           B == UnitsIn(engine, Moved(op, UnresolvedKeys))
           C == UnitsIn(engine, Moved(op, Key))
<1>1. \A M : EngineTotal(M) = Sum(engine, M)
  BY DEF EngineTotal, Sum, UnitsIn
<1>2. A \subseteq UnitsIn(engine, Moves) /\ B \subseteq UnitsIn(engine, Moves)
  BY DEF UnitsIn, Moved, Moves
<1>3. IsFiniteSet(A) /\ IsFiniteSet(B)
  BY <1>2, FS_Subset DEF MovesFinite
<1>4. C = A \cup B
  <2>1. Moved(op, Key) = Moved(op, ResolvedKeys) \cup Moved(op, UnresolvedKeys)
    BY DEF Moved, ResolvedKeys, UnresolvedKeys
  <2>2. QED
    BY <2>1 DEF UnitsIn
<1>5. A \cap B = {}
  <2>1. Moved(op, ResolvedKeys) \cap Moved(op, UnresolvedKeys) = {}
    BY DEF Moved, ResolvedKeys
  <2>2. QED
    BY <2>1 DEF UnitsIn
<1> DEFINE a == Cardinality(A)
           b == Cardinality(B)
           n == Cardinality(A \cap B)
<1>6. a \in Nat /\ b \in Nat /\ n = 0
  BY <1>3, <1>5, FS_CardinalityType, FS_EmptySet
<1>7. Cardinality(A \cup B) = a + b - n
  BY <1>3, FS_Union
<1>8. a + b - n = a + b
  <2> HIDE DEF a, b, n
  <2>1. QED
    BY <1>6
<1>9. Sum(engine, Moved(op, Key)) = a + b
  BY <1>4, <1>7, <1>8, Zenon DEF Sum
<1>10. a = Sum(engine, Moved(op, ResolvedKeys)) /\ b = Sum(engine, Moved(op, UnresolvedKeys))
  BY DEF Sum
<1>11. QED
  BY <1>1, <1>6, <1>9, <1>10

\* What the books say of the cash, from the sums of both sides.
LEMMA BooksMeaning ==
  ASSUME CapitalInv, LedgerInv, OnlyMovements, MovesFinite
  PROVE  NeverOverdrawn /\ BooksFollowEngine
<1> DEFINE wr == Sum(engine, Moved("WITHDRAWAL", ResolvedKeys))
           wu == Sum(engine, Moved("WITHDRAWAL", UnresolvedKeys))
           dr == Sum(engine, Moved("DEPOSIT", ResolvedKeys))
           du == Sum(engine, Moved("DEPOSIT", UnresolvedKeys))
           funded == Total(Booked("MASTER_ACCOUNT_FUNDING"))
           wb == Total(Booked("TRADER_WITHDRAWAL"))
           db == Total(Booked("TRADER_DEPOSIT"))
           held == Total(Held)
           echoed == BookTotal(Echoed)
           imagined == BookTotal(Imagined)
<1>1. FiniteIn(tx) /\ TxInv(tx)
  BY DEF LedgerInv, Inv, TxInv
<1>2. /\ funded = Sum(tx, BookedIn(tx, FUNDING)) /\ wb = Sum(tx, BookedIn(tx, WITHDRAWAL))
      /\ db = Sum(tx, BookedIn(tx, DEPOSIT)) /\ held = Sum(tx, HeldIn(tx))
      /\ echoed = Sum(tx, Books(Echoed)) /\ imagined = Sum(tx, Books(Imagined))
  BY DEF Total, UnitsOf, Units, Booked, Held, Sum, UnitsIn, BookedIn, HeldIn, BookTotal, Books,
     FUNDING, WITHDRAWAL, DEPOSIT
<1>3. funded \in Nat /\ wb \in Nat /\ db \in Nat /\ held \in Nat
  BY <1>1, <1>2, BookedIsNat, HeldIsNat
<1>4. wr \in Nat /\ wu \in Nat /\ dr \in Nat /\ du \in Nat
  BY MovedSplits
<1>5. /\ wb = wr + imagined /\ imagined \in Nat
      /\ db = dr + echoed /\ echoed \in Nat /\ du <= held
  <2>1. OurBooked(WITHDRAWAL) = BookedIn(tx, WITHDRAWAL) /\ OurBooked(DEPOSIT) = BookedIn(tx, DEPOSIT)
    BY DEF OurBooked, BookedIn, OnlyMovements, NoTx
  <2>2. QED
    BY <1>1, <1>2, <2>1, ResolvedWithdrawals, ResolvedDeposits, UnresolvedDeposits
<1>6. balance[MASTER] = funded + wb - db /\ held <= balance[MASTER]
  BY InvMeaning DEF BooksMatch, HoldsMatch, Solvent
<1>7. /\ EngineTotal(Moved("WITHDRAWAL", Key)) = wr + wu
      /\ EngineTotal(Moved("DEPOSIT", Key)) = dr + du
      /\ EngineTotal(Moved("WITHDRAWAL", UnresolvedKeys)) = wu
      /\ EngineTotal(Moved("DEPOSIT", UnresolvedKeys)) = du
  BY MovedSplits
<1>8. Cash = funded + (wr + wu) - (dr + du)
  BY <1>7 DEF Cash
<1> HIDE DEF wr, wu, dr, du, funded, wb, db, held, echoed, imagined
<1>9. NeverOverdrawn
  BY <1>3, <1>4, <1>5, <1>6, <1>8 DEF NeverOverdrawn, imagined
<1>10. BooksFollowEngine
  BY <1>3, <1>4, <1>5, <1>6, <1>7, <1>8 DEF BooksFollowEngine, echoed, imagined
<1>11. QED
  BY <1>9, <1>10

\* The engine never sends out money the MASTER account was not funded with, or
\* credited with for a withdrawal answered with a zero, although the books do not
\* know what became of an uncertain call.
THEOREM CashNeverOverdrawn == Spec => []NeverOverdrawn
BY CapitalInvariant, LedgerUnderRequests, BooksInvariant, BooksMeaning, PTL

\* The books are wrong about the cash by the unresolved movements, by the deposits
\* answered as a repetition and by the withdrawals answered with a zero, and by
\* nothing else, whatever was lost.
THEOREM BooksFollowTheEngine == Spec => []BooksFollowEngine
BY CapitalInvariant, LedgerUnderRequests, BooksInvariant, BooksMeaning, PTL

-----------------------------------------------------------------------------
(* Regularization: the invariant *)

\* The rows of the past of an account that are in its history.
PastOf(acc) == {Past[x] : x \in {y \in happened : Past[y].account = acc}}

SweepType ==
  /\ happened \in SUBSET DOMAIN Past /\ IsFiniteSet(happened)
  /\ sweep \in [Sweep -> SweepRunning \cup {SweepIdle}]

\* A sweep has read rows that this service did not make: EXTERNAL ones, or all of
\* an account that has no movement here.
ReadsPast(s) == sweep[s] # SweepIdle => sweep[s].rows \subseteq PastOf(sweep[s].account)
RebuildsAlone(acc) == Rebuilding(acc) => \A k \in Key : OnAccount(k) => movement[k].account # acc

\* The transaction that regularizes a row.
PastTx(row) == NewTx(KindOf(row), "POSTED", Owner[row.account], row.amount)

\* Beside the movements, the ledger has only rows that happened.
LedgerOfPast ==
  \A x \in TxKey \ Ours :
    tx[x] = NoTx \/ \E y \in happened : x = Reg(Past[y]) /\ tx[x] = PastTx(Past[y])

SweepInv ==
  /\ SweepType /\ LedgerOfPast
  /\ \A s \in Sweep : ReadsPast(s)
  /\ \A acc \in MamAccount : RebuildsAlone(acc)

-----------------------------------------------------------------------------
(* Sums of rows *)

\* The rows that happened, and as a table, so that their sums are sums of LedgerProofs.
Rows == {Past[y] : y \in happened}
RowTable == [row \in Rows |-> row]

\* What a row is, and that its key in the ledger is its own.
LEMMA RowFacts ==
  ASSUME SweepType, NEW row \in Rows
  PROVE  /\ row.id \in happened /\ row = Past[row.id]
         /\ row.account \in MamAccount /\ row.amount \in Amount /\ row.amount \in Nat
         /\ row.incoming \in BOOLEAN /\ Owner[row.account] \in Trader
         /\ Reg(row) \in TxKey \ Ours /\ Past[Reg(row)[2]] = row
<1>1. PICK y \in happened : row = Past[y]
  BY DEF Rows
<1>2. row \in Row /\ row.id = y /\ y \in DOMAIN Past
  BY <1>1, RegularizationAssumption DEF SweepType
<1>3. row.account \in MamAccount /\ row.amount \in Amount /\ row.incoming \in BOOLEAN
  BY <1>2 DEF Row
<1>4. row.amount \in Nat /\ Owner[row.account] \in Trader
  BY <1>3, AmountAssumption, CapitalAssumption
<1>5. Reg(row) = <<"regularize", y>>
  BY <1>2 DEF Reg
<1>6. Reg(row) \in TxKey \ Ours
  BY <1>2, <1>5, RegularizationAssumption DEF Ours
<1>7. QED
  BY <1>1, <1>2, <1>3, <1>4, <1>5, <1>6

\* Rows are finitely many, and so are their units.
LEMMA RowsAreFinite ==
  ASSUME SweepType, NEW R \in SUBSET Rows
  PROVE  /\ IsFiniteSet(R) /\ IsFiniteSet(UnitsIn(RowTable, R))
         /\ RowsTotal(R) = Sum(RowTable, R) /\ RowsTotal(R) \in Nat
<1>1. IsFiniteSet(R)
  <2> DEFINE f == [row \in R |-> row.id]
  <2>1. f \in Injection(R, happened)
    <3>1. f \in [R -> happened]
      BY RowFacts
    <3>2. \A p, q \in R : f[p] = f[q] => p = q
      BY RowFacts
    <3>3. QED
      BY <3>1, <3>2 DEF Injection, IsInjective
  <2>2. IsFiniteSet(happened)
    BY DEF SweepType
  <2> HIDE DEF f
  <2>3. QED
    BY <2>1, <2>2, FS_Injection
<1> DEFINE U == {{row} \X (1 .. row.amount) : row \in R}
<1>2. IsFiniteSet(U)
  <2> DEFINE f == [row \in R |-> {row} \X (1 .. row.amount)]
  <2>1. f \in Surjection(R, U)
    BY DEF Surjection
  <2> HIDE DEF f, U
  <2>2. QED
    BY <1>1, <2>1, FS_Surjection
<1>3. ASSUME NEW row \in R
      PROVE  IsFiniteSet({row} \X (1 .. row.amount))
  <2>1. row.amount \in Nat
    BY RowFacts
  <2>2. QED
    BY <2>1, UnitsOfOne
<1>4. IsFiniteSet(UNION U)
  <2>1. \A u \in U : IsFiniteSet(u)
    BY <1>3
  <2> HIDE DEF U
  <2>2. QED
    BY <1>2, <2>1, FS_UNION
<1>5. UnitsIn(RowTable, R) = UNION U
  BY DEF UnitsIn, RowTable
<1>6. RowsTotal(R) = Sum(RowTable, R)
  BY <1>5 DEF RowsTotal, Sum
<1>7. Sum(RowTable, R) \in Nat
  BY <1>4, <1>5, FS_CardinalityType DEF Sum
<1>8. QED
  BY <1>1, <1>4, <1>5, <1>6, <1>7

\* Sums of different rows, and of one.
LEMMA RowsJoin ==
  ASSUME SweepType, NEW R \in SUBSET Rows, NEW S \in SUBSET Rows, R \cap S = {}
  PROVE  RowsTotal(R \cup S) = RowsTotal(R) + RowsTotal(S)
<1>1. /\ IsFiniteSet(UnitsIn(RowTable, R)) /\ IsFiniteSet(UnitsIn(RowTable, S))
      /\ RowsTotal(R) = Sum(RowTable, R) /\ RowsTotal(S) = Sum(RowTable, S)
      /\ RowsTotal(R \cup S) = Sum(RowTable, R \cup S)
  BY RowsAreFinite
<1>2. Agree(RowTable, RowTable, R)
  BY DEF Agree
<1>3. Sum(RowTable, R \cup S) = Sum(RowTable, R) + Sum(RowTable, S)
  BY <1>1, <1>2, SumJoin
<1>4. QED
  BY <1>1, <1>3

\* The sum of one row.
LEMMA OneRow ==
  ASSUME SweepType, NEW row \in Rows
  PROVE  RowsTotal({row}) = row.amount
<1>1. row.amount \in Nat
  BY RowFacts
<1>2. UNION {{r} \X (1 .. r.amount) : r \in {row}} = {row} \X (1 .. row.amount)
  OBVIOUS
<1>3. QED
  BY <1>1, <1>2, UnitsOfOne DEF RowsTotal

\* Some of the rows make at most the sum of all.
LEMMA RowsWithin ==
  ASSUME SweepType, NEW R \in SUBSET Rows, NEW S \in SUBSET R
  PROVE  RowsTotal(S) <= RowsTotal(R)
<1> DEFINE Q == R \ S
<1>1. Q \in SUBSET Rows /\ S \in SUBSET Rows /\ S \cap Q = {} /\ S \cup Q = R
  OBVIOUS
<1> HIDE DEF Q
<1>2. RowsTotal(S \cup Q) = RowsTotal(S) + RowsTotal(Q)
  BY <1>1, RowsJoin
<1>3. RowsTotal(S) \in Nat /\ RowsTotal(Q) \in Nat
  BY <1>1, RowsAreFinite
<1>4. RowsTotal(S \cup Q) = RowsTotal(R)
  BY <1>1
<1>5. QED
  BY <1>2, <1>3, <1>4

\* The rows that a set of ledger keys books, one under each, make the same sum.
LEMMA RowsBooked ==
  ASSUME SweepType, NEW R \in SUBSET Rows, NEW T, NEW K,
         \A row \in R : Reg(row) \in K /\ T[Reg(row)].amount = row.amount,
         \A k \in K : \E row \in R : k = Reg(row)
  PROVE  IsFiniteSet(UnitsIn(T, K)) /\ Sum(T, K) = RowsTotal(R)
<1> DEFINE m == [k \in K |-> Past[k[2]]]
<1>1. ASSUME NEW k \in K
      PROVE  m[k] \in R /\ k = Reg(m[k]) /\ RowTable[m[k]].amount = T[k].amount
  <2>1. PICK row \in R : k = Reg(row)
    OBVIOUS
  <2>2. Past[Reg(row)[2]] = row
    BY RowFacts
  <2>3. QED
    BY <2>1, <2>2 DEF RowTable
<1>2. \A row \in R : Reg(row) \in K /\ m[Reg(row)] = row
  BY RowFacts
<1> HIDE DEF m
<1>3. SentInto(T, K, RowTable, R, m)
  BY <1>1 DEF SentInto
<1>4. Onto(K, R, m)
  BY <1>2 DEF Onto
<1>5. IsFiniteSet(UnitsIn(RowTable, R)) /\ RowsTotal(R) = Sum(RowTable, R)
  BY RowsAreFinite
<1>6. QED
  BY <1>3, <1>4, <1>5, SumInto

\* A set of numbers below n has a last one.
LEMMA LastOf ==
  ASSUME NEW n \in Nat, NEW I \in SUBSET (1 .. n), I # {}
  PROVE  \E i \in I : \A j \in I : j <= i
<1> DEFINE D == {m \in Nat : \E i \in I : i + m = n}
<1>1. PICK m \in D : \A k \in D : <<k, m>> \notin OpToRel(<, Nat)
  <2>1. D \subseteq Nat /\ D # {}
    <3>1. PICK i \in I : TRUE
      OBVIOUS
    <3>2. n - i \in D
      BY <3>1
    <3>3. QED
      BY <3>2
  <2>2. QED
    BY <2>1, WFMin, NatLessThanWellFounded, Zenon
<1>2. m \in Nat /\ (\E i \in I : i + m = n) /\ \A k \in Nat : (\E i \in I : i + k = n) => ~(k < m)
  BY <1>1, Zenon DEF OpToRel
<1>3. PICK i \in I : i + m = n
  BY <1>2
<1>4. \A j \in I : j <= i
  <2>1. \A j \in I : n - j \in Nat /\ j + (n - j) = n
    OBVIOUS
  <2>2. QED
    BY <1>2, <1>3, <2>1
<1>5. QED
  BY <1>4

\* When every incoming row finds its amount available, in the order of the page,
\* the rows together take no more than what is available: after the last incoming
\* row only money that comes back is left.
LEMMA AffordableTogether ==
  ASSUME SweepType, NEW R \in SUBSET Rows, NEW page \in Orders(R), Affordable(page),
         Available \in Nat
  PROVE  Net(R) <= Available
<1> DEFINE n == Cardinality(R)
           I == {i \in 1 .. n : page[i].incoming}
<1>1. n \in Nat
  BY RowsAreFinite, FS_CardinalityType
<1>2. /\ page \in [1 .. n -> R]
      /\ \A i, j \in 1 .. n : page[i] = page[j] => i = j
      /\ \A row \in R : \E i \in 1 .. n : page[i] = row
  BY DEF Orders, Bijection, Injection, Surjection, IsInjective
<1> HIDE DEF n
<1>3. /\ RowsTotal(Incoming(R)) \in Nat /\ RowsTotal(Outgoing(R)) \in Nat
      /\ Incoming(R) \in SUBSET Rows /\ Outgoing(R) \in SUBSET Rows
  <2>1. Incoming(R) \in SUBSET Rows /\ Outgoing(R) \in SUBSET Rows
    BY DEF Incoming, Outgoing
  <2>2. QED
    BY <2>1, RowsAreFinite
<1>4. CASE I = {}
  <2>1. Incoming(R) = {}
    BY <1>2, <1>4 DEF Incoming
  <2>2. RowsTotal({}) = 0
    BY FS_EmptySet DEF RowsTotal
  <2>3. QED
    BY <1>3, <2>1, <2>2 DEF Net
<1>5. CASE I # {}
  <2>1. PICK i \in I : \A j \in I : j <= i
    <3>1. I \in SUBSET (1 .. n)
      OBVIOUS
    <3> HIDE DEF I
    <3>2. QED
      BY <1>1, <1>5, <3>1, LastOf
  <2> DEFINE row == page[i]
             B == {page[j] : j \in 1 .. i - 1}
  <2>2. i \in 1 .. n /\ row \in R /\ row \in Rows /\ row.incoming
    BY <1>2, <2>1
  <2>3. B \in SUBSET R
    BY <1>1, <1>2, <2>2
  <2>4. Incoming(R) = Incoming(B) \cup {row}
    <3>1. \A r \in Incoming(R) : r \in Incoming(B) \/ r = row
      <4>1. TAKE r \in Incoming(R)
      <4>2. PICK j \in 1 .. n : page[j] = r
        BY <1>2 DEF Incoming
      <4>3. j \in I /\ j <= i
        BY <2>1, <4>2 DEF Incoming
      <4>4. j = i \/ j \in 1 .. i - 1
        BY <1>1, <2>2, <4>2, <4>3
      <4>5. QED
        BY <4>2, <4>4 DEF Incoming
    <3>2. QED
      BY <2>2, <2>3, <3>1 DEF Incoming
  <2>5. row \notin B
    BY <1>1, <1>2, <2>2
  <2>6. Available - Net(B) >= row.amount
    <3>1. i \in DOMAIN page
      BY <1>2, <2>2
    <3>2. QED
      BY <2>2, <3>1 DEF Affordable
  <2> HIDE DEF row, B, I
  <2>7. /\ Incoming(B) \in SUBSET Rows /\ Outgoing(B) \in SUBSET Outgoing(R)
        /\ Incoming(B) \cap {row} = {} /\ {row} \in SUBSET Rows
        /\ Outgoing(B) \in SUBSET Rows
    BY <2>2, <2>3, <2>5 DEF Incoming, Outgoing
  <2>8. RowsTotal(Incoming(R)) = RowsTotal(Incoming(B)) + RowsTotal({row})
    BY <2>4, <2>7, RowsJoin
  <2>9. RowsTotal({row}) = row.amount /\ row.amount \in Nat
    BY <2>2, OneRow, RowFacts
  <2>10. RowsTotal(Outgoing(B)) <= RowsTotal(Outgoing(R))
    BY <1>3, <2>7, RowsWithin
  <2>11. RowsTotal(Incoming(B)) \in Nat /\ RowsTotal(Outgoing(B)) \in Nat
    BY <2>7, RowsAreFinite
  <2>12. QED
    BY <1>3, <2>6, <2>8, <2>9, <2>10, <2>11 DEF Net
<1>6. QED
  BY <1>4, <1>5

-----------------------------------------------------------------------------
(* The steps of a sweep *)

\* What a sweep posts, in terms of the ledger alone.
LEMMA SweepPosts ==
  ASSUME CapitalInv, SweepInv, NEW s \in Sweep, SweepAt(s, "post"),
         NEW t, t = Owner[sweep[s].account], PostRows(Todo(s), t)
  PROVE  /\ Todo(s) \in SUBSET Rows /\ sweep[s].account \in MamAccount /\ t \in Trader
         /\ \A row \in Todo(s) : /\ row.account = sweep[s].account
                                 /\ Reg(row) \in TxKey \ Ours /\ tx[Reg(row)] = NoTx
                                 /\ tx'[Reg(row)] = PastTx(row)
         /\ tx' \in Txs
         /\ \A x \in TxKey : (\A row \in Todo(s) : Reg(row) # x) => tx'[x] = tx[x]
<1>1. /\ SweepType /\ LedgerOfPast /\ ReadsPast(s) /\ tx \in Txs
      /\ sweep[s] \in SweepRunning \cup {SweepIdle}
  BY DEF SweepInv, SweepType, CapitalInv, StateType
<1>2. sweep[s] # SweepIdle /\ sweep[s] \in SweepRunning
  BY <1>1 DEF SweepAt, SweepIdle
<1>3. sweep[s].account \in MamAccount /\ t \in Trader
  BY <1>2, CapitalAssumption DEF SweepRunning
<1>4. ASSUME NEW row \in Todo(s)
      PROVE  /\ row \in Rows /\ row.account = sweep[s].account
             /\ tx[Reg(row)].status # "POSTED"
  BY <1>1, <1>2 DEF Todo, ReadsPast, PastOf, Rows
<1>5. ASSUME NEW row \in Todo(s)
      PROVE  Reg(row) \in TxKey \ Ours /\ tx[Reg(row)] = NoTx
  <2>1. Reg(row) \in TxKey \ Ours
    BY <1>1, <1>4, RowFacts
  <2>2. \A y \in happened : tx[Reg(row)] # PastTx(Past[y])
    BY <1>4 DEF PastTx, NewTx
  <2>3. QED
    BY <1>1, <2>1, <2>2 DEF LedgerOfPast
<1>6. /\ \A x \in TxKey : (\A row \in Todo(s) : Reg(row) # x) => tx'[x] = tx[x]
      /\ DOMAIN tx' = TxKey /\ tx' = [x \in TxKey |-> tx'[x]]
  BY DEF PostRows
<1>7. ASSUME NEW row \in Todo(s)
      PROVE  tx'[Reg(row)] = PastTx(row)
  <2> DEFINE k == Reg(row)
             r == CHOOSE x \in Todo(s) : Reg(x) = k
  <2>1. k \in TxKey
    BY <1>5
  <2>2. r \in Todo(s) /\ Reg(r) = k
    OBVIOUS
  <2>3. r = row
    BY <1>1, <1>4, <2>2, RowFacts
  <2>4. tx'[k] = Posted(k, KindOf(r), t, r.amount)
    BY <2>1 DEF PostRows
  <2>5. Posted(k, KindOf(row), t, row.amount) = PastTx(row)
    BY <1>4, <1>5 DEF Posted, Exists, PastTx
  <2> HIDE DEF r, k
  <2>6. QED
    BY <2>3, <2>4, <2>5 DEF k
<1>8. tx' \in Txs
  <2>1. \A row \in Todo(s) : PastTx(row) \in Transaction
    <3>1. ASSUME NEW row \in Todo(s) PROVE PastTx(row) \in Transaction
      <4>1. row.amount \in Amount /\ Owner[row.account] \in Trader
        BY <1>1, <1>4, RowFacts
      <4>2. QED
        BY <4>1 DEF PastTx, NewTx, KindOf, Transaction, TxKind, TxStatus
    <3>2. QED
      BY <3>1
  <2>2. \A x \in TxKey : tx'[x] \in Transaction \cup {NoTx}
    BY <1>1, <1>6, <1>7, <2>1 DEF Txs
  <2>3. QED
    BY <1>6, <2>2 DEF Txs
<1>9. QED
  BY <1>3, <1>4, <1>5, <1>6, <1>7, <1>8

\* The batch keeps the ledger's invariant: MASTER can still pay what it reserved.
LEMMA SweepPostsLedger ==
  ASSUME CapitalInv, LedgerInv, SweepInv, NEW s \in Sweep, SweepAt(s, "post"),
         NEW t, t = Owner[sweep[s].account], PostRows(Todo(s), t),
         NEW page \in Orders(Todo(s)), Affordable(page)
  PROVE  LedgerInv'
<1> DEFINE R == Todo(s)
           K == {Reg(row) : row \in R}
           i == RowsTotal(Incoming(R))
           o == RowsTotal(Outgoing(R))
<1>1. /\ R \in SUBSET Rows /\ t \in Trader /\ tx' \in Txs
      /\ \A row \in R : /\ row.account = sweep[s].account
                        /\ Reg(row) \in TxKey \ Ours /\ tx[Reg(row)] = NoTx
                        /\ tx'[Reg(row)] = PastTx(row)
      /\ \A x \in TxKey : (\A row \in R : Reg(row) # x) => tx'[x] = tx[x]
  BY SweepPosts
<1>2. SweepType /\ Inv(tx, balance, pendingDebit)
  BY DEF SweepInv, LedgerInv
<1>3. /\ balance' = [balance EXCEPT ![MASTER] = @ - Net(R), ![t] = @ + Net(R)]
      /\ pendingDebit' = pendingDebit
  BY DEF PostRows
<1>4. Net(R) <= Available
  <2>1. Available \in Nat
    <3>1. balance[MASTER] \in Int /\ pendingDebit \in Int /\ pendingDebit <= balance[MASTER]
      BY <1>2, Accounts DEF Inv, HoldInv
    <3>2. QED
      BY <3>1 DEF Available
  <2> HIDE DEF R
  <2>2. R = Todo(s)
    BY DEF R
  <2>3. QED
    BY <1>1, <1>2, <2>1, <2>2, AffordableTogether
<1>5. ASSUME NEW row \in R
      PROVE  /\ tx'[Reg(row)].status = "POSTED" /\ tx'[Reg(row)].trader = t
             /\ tx'[Reg(row)].amount = row.amount
             /\ tx'[Reg(row)].kind = IF row.incoming THEN DEPOSIT ELSE WITHDRAWAL
  <2> DEFINE x == tx'[Reg(row)]
  <2>1. x = NewTx(KindOf(row), "POSTED", Owner[row.account], row.amount)
        /\ Owner[row.account] = t
    BY <1>1 DEF PastTx
  <2> HIDE DEF x
  <2>2. x.status = "POSTED" /\ x.trader = t /\ x.amount = row.amount /\ x.kind = KindOf(row)
    BY <2>1 DEF NewTx
  <2>3. QED
    BY <2>2 DEF x, KindOf, DEPOSIT, WITHDRAWAL
<1> HIDE DEF R
<1>6. Incoming(R) \in SUBSET Rows /\ Outgoing(R) \in SUBSET Rows
  BY <1>1 DEF Incoming, Outgoing
<1>7. IsFiniteSet(UnitsIn(tx', K))
  <2>1. /\ \A row \in R : Reg(row) \in K /\ tx'[Reg(row)].amount = row.amount
        /\ \A k \in K : \E row \in R : k = Reg(row)
    BY <1>5
  <2> HIDE DEF K
  <2>2. QED
    BY ONLY <1>1, <1>2, <2>1, RowsBooked
<1>8. K \in SUBSET TxKey /\ PostsAll(tx, K, tx')
  BY <1>1, <1>5, <1>7 DEF PostsAll
<1>9. i \in Nat /\ i = Sum(tx', KindIn(tx', K, DEPOSIT))
  <2> DEFINE Q == KindIn(tx', K, DEPOSIT)
             I == Incoming(R)
  <2>1. /\ \A row \in I : Reg(row) \in Q /\ tx'[Reg(row)].amount = row.amount
        /\ \A k \in Q : \E row \in I : k = Reg(row)
    BY <1>5 DEF KindIn, Incoming, DEPOSIT, WITHDRAWAL
  <2> HIDE DEF Q, I, K
  <2>2. I \in SUBSET Rows
    BY <1>6 DEF I
  <2>3. Sum(tx', Q) = RowsTotal(I)
    BY ONLY <1>2, <2>1, <2>2, RowsBooked
  <2>4. RowsTotal(I) \in Nat
    BY ONLY <1>2, <2>2, RowsAreFinite
  <2>5. QED
    BY <2>3, <2>4 DEF Q, I
<1>10. o \in Nat /\ o = Sum(tx', KindIn(tx', K, WITHDRAWAL))
  <2> DEFINE Q == KindIn(tx', K, WITHDRAWAL)
             O == Outgoing(R)
  <2>1. /\ \A row \in O : Reg(row) \in Q /\ tx'[Reg(row)].amount = row.amount
        /\ \A k \in Q : \E row \in O : k = Reg(row)
    BY <1>5 DEF KindIn, Outgoing, DEPOSIT, WITHDRAWAL
  <2> HIDE DEF Q, O, K
  <2>2. O \in SUBSET Rows
    BY <1>6 DEF O
  <2>3. Sum(tx', Q) = RowsTotal(O)
    BY ONLY <1>2, <2>1, <2>2, RowsBooked
  <2>4. RowsTotal(O) \in Nat
    BY ONLY <1>2, <2>2, RowsAreFinite
  <2>5. QED
    BY <2>3, <2>4 DEF Q, O
<1>11. \A k \in K : tx'[k].trader = t /\ tx'[k].kind \in {DEPOSIT, WITHDRAWAL}
  BY <1>5
<1>12. Net(R) = i - o
  BY DEF Net
<1> HIDE DEF K, i, o
<1>13. /\ balance' \in [LedgerAccount -> Int]
       /\ balance'[MASTER] = balance[MASTER] - i + o /\ balance'[t] = balance[t] + i - o
       /\ \A c \in LedgerAccount \ {MASTER, t} : balance'[c] = balance[c]
  BY <1>1, <1>2, <1>3, <1>9, <1>10, <1>12, Accounts DEF Inv
<1>14. pendingDebit <= balance'[MASTER]
  <2>1. balance[MASTER] \in Int /\ pendingDebit \in Int
    BY <1>2, Accounts DEF Inv
  <2>2. QED
    BY <1>4, <1>9, <1>10, <1>12, <1>13, <2>1 DEF Available
<1>15. Inv(tx', balance', pendingDebit)
  BY ONLY <1>1, <1>2, <1>8, <1>9, <1>10, <1>11, <1>13, <1>14, BatchStep
<1>16. QED
  BY <1>3, <1>15 DEF LedgerInv

\* The steps of one sweep.
SweepMoves(s) == Requested(s) \/ CountLocal(s) \/ ListRows(s) \/ Post(s) \/ AbandonSweep(s)

\* A step of a sweep keeps the invariants of the movements and of the ledger.
LEMMA SweepKeepsCapital ==
  ASSUME CapitalInv, LedgerInv, SweepInv, NEW s \in Sweep, SweepMoves(s)
  PROVE  CapitalInv' /\ LedgerInv' /\ UNCHANGED <<movement, engine, happened>>
         /\ \A x \in Ours : x \in TxKey => tx'[x] = tx[x]
<1>1. CASE UNCHANGED vars /\ UNCHANGED happened
  BY <1>1, CapitalStepInv DEF vars, LedgerInv
<1>2. CASE Post(s) /\ UNCHANGED ledgerVars
  <2>1. UNCHANGED vars /\ UNCHANGED happened
    BY <1>2 DEF Post, vars, ledgerVars
  <2>2. QED
    BY <1>1, <2>1
<1>3. CASE Post(s) /\ ~UNCHANGED ledgerVars
  <2> DEFINE t == Owner[sweep[s].account]
  <2>1. PICK page \in Orders(Todo(s)) : Affordable(page) /\ PostRows(Todo(s), t)
    BY <1>3 DEF Post
  <2>2. SweepAt(s, "post") /\ UNCHANGED <<movement, request, wire, engine, happened>>
    BY <1>3 DEF Post
  <2> HIDE DEF t
  <2>3. /\ tx' \in Txs
        /\ \A row \in Todo(s) : Reg(row) \in TxKey \ Ours
        /\ \A x \in TxKey : (\A row \in Todo(s) : Reg(row) # x) => tx'[x] = tx[x]
    BY <2>1, <2>2, SweepPosts DEF t
  <2>4. \A x \in Ours : x \in TxKey /\ tx'[x] = tx[x]
    BY <2>3, CapitalAssumption DEF Ours
  <2>5. CapitalInv'
    BY <2>2, <2>3, <2>4, ElsewhereInv
  <2>6. LedgerInv'
    BY <2>1, <2>2, SweepPostsLedger DEF t
  <2>7. QED
    BY <2>2, <2>4, <2>5, <2>6
<1>4. CASE ~Post(s)
  <2>1. UNCHANGED vars /\ UNCHANGED happened
    BY <1>4 DEF SweepMoves, Requested, StartSweep, CountLocal, ListRows, AbandonSweep
  <2>2. QED
    BY <1>1, <2>1
<1>5. QED
  BY <1>2, <1>3, <1>4

\* A sweep keeps rows that this service did not make: the engine's executions are
\* not EXTERNAL, and an account that is being rebuilt has none.
LEMMA ListReads ==
  ASSUME CapitalInv, SweepInv, NEW s \in Sweep, ListRows(s)
  PROVE  \E R \in SUBSET PastOf(sweep[s].account) :
           sweep' = [sweep EXCEPT ![s] = [sweep[s] EXCEPT !.pc = "post", !.rows = R]]
<1> DEFINE acc == sweep[s].account
<1>1. PICK page \in SUBSET History(acc) :
        sweep' = [sweep EXCEPT ![s].pc = "post",
                    ![s].rows = {row \in page : row.type = "EXTERNAL" \/ sweep[s].internal}]
  BY DEF ListRows
<1> DEFINE R == {row \in page : row.type = "EXTERNAL" \/ sweep[s].internal}
<1>2. sweep[s] # SweepIdle /\ sweep[s] \in SweepRunning /\ acc \in MamAccount
  <2>1. sweep[s] # SweepIdle /\ sweep[s] \in SweepRunning
    BY DEF SweepInv, SweepType, ListRows, SweepAt, SweepIdle
  <2>2. QED
    BY <2>1 DEF SweepRunning
<1>3. sweep[s].internal => Executions(acc) = {}
  <2>1. SUFFICES ASSUME sweep[s].internal, NEW e \in EngineKey, engine[e] # Untouched,
                        engine[e].account = acc
                 PROVE  FALSE
    BY DEF Executions
  <2>2. PICK k \in Key : OnAccount(k) /\ movement[k].account = acc
    BY <2>1, MovementOfMove
  <2>3. Rebuilding(acc)
    BY <1>2, <2>1 DEF Rebuilding, ListRows, SweepAt
  <2>4. QED
    BY <1>2, <2>2, <2>3 DEF SweepInv, RebuildsAlone
<1>4. \A row \in Executions(acc) : row.type = "OWN"
  BY DEF Executions
<1>5. R \in SUBSET PastOf(acc)
  BY <1>3, <1>4 DEF History, PastOf
<1>6. sweep' = [sweep EXCEPT ![s].pc = "post", ![s].rows = R]
  BY <1>1
<1> HIDE DEF R
<1>7. sweep' = [sweep EXCEPT ![s] = [sweep[s] EXCEPT !.pc = "post", !.rows = R]]
  BY <1>2, <1>6 DEF SweepInv, SweepType
<1>8. QED
  BY <1>5, <1>7

\* The local state of a sweep after a step of it.
LEMMA SweepTypeStep ==
  ASSUME CapitalInv, SweepInv, NEW s \in Sweep, SweepMoves(s), UNCHANGED happened
  PROVE  /\ SweepType' /\ \A r \in Sweep \ {s} : sweep'[r] = sweep[r]
         /\ sweep'[s] # SweepIdle /\ sweep'[s] \in SweepRunning
<1>1. SweepType
  BY DEF SweepInv
<1>2. SUFFICES \E n \in SweepRunning : sweep' = [sweep EXCEPT ![s] = n]
  <2>1. \A n \in SweepRunning : n # SweepIdle
    BY DEF SweepRunning, SweepIdle
  <2>2. QED
    BY <1>1, <2>1 DEF SweepType
<1>3. CASE Requested(s)
  <2>1. PICK acc \in MamAccount, internal \in BOOLEAN : StartSweep(s, acc, internal)
    BY <1>3 DEF Requested
  <2>2. QED
    BY <2>1 DEF StartSweep, SweepRunning
<1>4. CASE ~Requested(s)
  <2>1. sweep[s].pc # "idle"
    BY <1>4 DEF SweepMoves, CountLocal, ListRows, Post, AbandonSweep, SweepAt
  <2>2. sweep[s] \in SweepRunning
    BY <1>1, <2>1 DEF SweepType, SweepIdle
  <2>3. CASE CountLocal(s)
    BY <2>2, <2>3 DEF CountLocal, SweepAnswer, SweepGoto, SweepRunning
  <2>4. CASE ListRows(s)
    <3>1. PICK R \in SUBSET PastOf(sweep[s].account) :
            sweep' = [sweep EXCEPT ![s] = [sweep[s] EXCEPT !.pc = "post", !.rows = R]]
      BY <2>4, ListReads
    <3>2. R \in SUBSET Row
      BY <1>1, RegularizationAssumption DEF SweepType, PastOf
    <3>3. [sweep[s] EXCEPT !.pc = "post", !.rows = R] \in SweepRunning
      BY <2>2, <3>2 DEF SweepRunning
    <3>4. QED
      BY <3>1, <3>3
  <2>5. CASE Post(s)
    BY <2>2, <2>5 DEF Post, SweepAnswer, SweepRunning
  <2>6. CASE AbandonSweep(s)
    BY <2>2, <2>6 DEF AbandonSweep, SweepAnswer, SweepRunning
  <2>7. QED
    BY <1>4, <2>3, <2>4, <2>5, <2>6 DEF SweepMoves
<1>5. QED
  BY <1>3, <1>4

\* A sweep posts rows that happened.
LEMMA LedgerOfPastStep ==
  ASSUME CapitalInv, SweepInv, NEW s \in Sweep, SweepMoves(s), UNCHANGED happened
  PROVE  LedgerOfPast'
<1>1. LedgerOfPast
  BY DEF SweepInv
<1>2. \A row : PastTx(row)' = PastTx(row)
  BY DEF PastTx
<1>3. CASE UNCHANGED tx
  BY <1>1, <1>2, <1>3 DEF LedgerOfPast
<1>4. CASE ~UNCHANGED tx
  <2> DEFINE t == Owner[sweep[s].account]
  <2>1. Post(s)
    BY <1>4 DEF SweepMoves, Requested, StartSweep, CountLocal, ListRows, AbandonSweep, vars
  <2>2. SweepAt(s, "post") /\ PostRows(Todo(s), t)
    BY <1>4, <2>1 DEF Post, ledgerVars
  <2> HIDE DEF t
  <2>3. /\ Todo(s) \in SUBSET Rows
        /\ \A row \in Todo(s) : tx'[Reg(row)] = PastTx(row)
        /\ \A x \in TxKey : (\A row \in Todo(s) : Reg(row) # x) => tx'[x] = tx[x]
    BY <2>2, SweepPosts DEF t
  <2>4. ASSUME NEW x \in TxKey \ Ours
        PROVE  tx'[x] = NoTx \/ \E y \in happened : x = Reg(Past[y]) /\ tx'[x] = PastTx(Past[y])
    <3>1. CASE \E row \in Todo(s) : Reg(row) = x
      <4>1. PICK row \in Todo(s) : Reg(row) = x
        BY <3>1
      <4>2. PICK y \in happened : row = Past[y]
        BY <2>3, <4>1 DEF Rows
      <4>3. QED
        BY <2>3, <4>1, <4>2
    <3>2. CASE \A row \in Todo(s) : Reg(row) # x
      BY <1>1, <2>3, <3>2 DEF LedgerOfPast
    <3>3. QED
      BY <3>1, <3>2
  <2>5. QED
    BY <1>2, <2>4 DEF LedgerOfPast
<1>5. QED
  BY <1>3, <1>4

\* A sweep keeps its own invariant.
LEMMA SweepInvStep ==
  ASSUME CapitalInv, SweepInv, NEW s \in Sweep, SweepMoves(s), UNCHANGED <<movement, happened>>
  PROVE  SweepInv'
<1>1. /\ SweepType' /\ \A r \in Sweep \ {s} : sweep'[r] = sweep[r]
      /\ sweep'[s] # SweepIdle /\ sweep'[s] \in SweepRunning
  BY SweepTypeStep
<1>2. LedgerOfPast'
  BY LedgerOfPastStep
<1>3. SweepType /\ \A acc : PastOf(acc)' = PastOf(acc)
  BY DEF SweepInv, PastOf
<1>4. \/ sweep'[s].rows = {} /\ (sweep'[s].internal => sweep'[s].pc = "count")
      \/ /\ sweep[s] # SweepIdle /\ sweep'[s].account = sweep[s].account
         /\ sweep'[s].internal = sweep[s].internal
         /\ sweep'[s].rows \subseteq PastOf(sweep[s].account)
         /\ \/ sweep'[s].pc = "done"
            \/ sweep'[s].pc = "post" /\ sweep[s].pc = "list"
            \/ \A k \in Key : OnAccount(k) => movement[k].account # sweep[s].account
  <2>1. CASE Requested(s)
    <3>1. PICK acc \in MamAccount, internal \in BOOLEAN : StartSweep(s, acc, internal)
      BY <2>1 DEF Requested
    <3>2. sweep'[s] = [pc |-> IF internal THEN "count" ELSE "list", rows |-> {},
                       account |-> acc, internal |-> internal, result |-> "none"]
      BY <1>3, <3>1 DEF StartSweep, SweepType
    <3>3. QED
      BY <3>2
  <2>2. ASSUME ~Requested(s)
        PROVE  sweep[s] # SweepIdle /\ sweep[s] \in SweepRunning
               /\ sweep[s].rows \subseteq PastOf(sweep[s].account)
    <3>1. sweep[s].pc # "idle"
      BY <2>2 DEF SweepMoves, CountLocal, ListRows, Post, AbandonSweep, SweepAt
    <3>2. QED
      BY <3>1 DEF SweepInv, SweepType, SweepIdle, ReadsPast
  <2>3. CASE ~Requested(s) /\ ListRows(s)
    <3>1. PICK R \in SUBSET PastOf(sweep[s].account) :
            sweep' = [sweep EXCEPT ![s] = [sweep[s] EXCEPT !.pc = "post", !.rows = R]]
      BY <2>3, ListReads
    <3>2. sweep'[s] = [sweep[s] EXCEPT !.pc = "post", !.rows = R]
      BY <1>3, <3>1 DEF SweepType
    <3>3. QED
      BY <2>2, <2>3, <3>2 DEF ListRows, SweepAt, SweepRunning
  <2>4. CASE ~Requested(s) /\ (Post(s) \/ AbandonSweep(s))
    <3>1. PICK result : SweepAnswer(s, result)
      BY <2>4 DEF Post, AbandonSweep
    <3>2. sweep'[s] = [sweep[s] EXCEPT !.pc = "done", !.result = result]
      BY <1>3, <3>1 DEF SweepAnswer, SweepType
    <3>3. QED
      BY <2>2, <2>4, <3>2 DEF SweepRunning
  <2>5. CASE ~Requested(s) /\ CountLocal(s)
    <3>1. CASE SweepAnswer(s, "refused")
      <4>1. sweep'[s] = [sweep[s] EXCEPT !.pc = "done", !.result = "refused"]
        BY <1>3, <3>1 DEF SweepAnswer, SweepType
      <4>2. QED
        BY <2>2, <2>5, <4>1 DEF SweepRunning
    <3>2. CASE ~SweepAnswer(s, "refused")
      <4>1. /\ \A k \in Key : OnAccount(k) => movement[k].account # sweep[s].account
            /\ sweep'[s] = [sweep[s] EXCEPT !.pc = "list"]
        BY <1>3, <2>5, <3>2 DEF CountLocal, SweepGoto, SweepType
      <4>2. QED
        BY <2>2, <2>5, <4>1 DEF SweepRunning
    <3>3. QED
      BY <3>1, <3>2
  <2>6. QED
    BY <2>1, <2>3, <2>4, <2>5 DEF SweepMoves
<1>5. \A r \in Sweep : ReadsPast(r)'
  <2>1. ReadsPast(s)'
    BY <1>3, <1>4 DEF ReadsPast
  <2>2. ASSUME NEW r \in Sweep \ {s} PROVE ReadsPast(r)'
    BY <1>1, <1>3 DEF SweepInv, ReadsPast
  <2>3. QED
    BY <2>1, <2>2
<1>6. ASSUME NEW acc \in MamAccount
      PROVE  RebuildsAlone(acc)'
  <2>1. SUFFICES ASSUME Rebuilding(acc)', NEW k \in Key, OnAccount(k)
                 PROVE  movement[k].account # acc
    BY DEF RebuildsAlone, OnAccount
  <2>2. PICK r \in Sweep : /\ sweep'[r] # SweepIdle /\ sweep'[r].account = acc
                           /\ sweep'[r].internal /\ sweep'[r].pc \in {"list", "post"}
    BY <2>1 DEF Rebuilding
  <2>3. RebuildsAlone(acc)
    BY DEF SweepInv
  <2>4. CASE r # s
    <3>1. Rebuilding(acc)
      BY <1>1, <2>2, <2>4 DEF Rebuilding
    <3>2. QED
      BY <2>1, <2>3, <3>1 DEF RebuildsAlone
  <2>5. CASE r = s
    <3>1. \/ sweep[s] # SweepIdle /\ sweep[s].account = acc /\ sweep[s].internal
             /\ sweep[s].pc = "list"
          \/ movement[k].account # acc
      BY <1>4, <2>1, <2>2, <2>5
    <3>2. QED
      BY <2>1, <2>3, <3>1 DEF RebuildsAlone, Rebuilding
  <2>6. QED
    BY <2>4, <2>5
<1>7. QED
  BY <1>1, <1>2, <1>5, <1>6 DEF SweepInv

\* Capital moves by another way: the history grows, and what was read stays in it.
LEMMA HappenInv ==
  ASSUME SweepInv, NEW x \in DOMAIN Past, Happen(x)
  PROVE  SweepInv'
<1>1. /\ happened' = happened \cup {x} /\ sweep' = sweep /\ movement' = movement /\ tx' = tx
  BY DEF Happen, vars
<1>2. SweepType'
  <2>1. IsFiniteSet(happened')
    BY <1>1, FS_AddElement DEF SweepInv, SweepType
  <2>2. QED
    BY <1>1, <2>1 DEF SweepInv, SweepType
<1>3. \A acc : PastOf(acc) \subseteq PastOf(acc)'
  BY <1>1 DEF PastOf
<1>4. \A r \in Sweep : ReadsPast(r)'
  BY <1>1, <1>3 DEF SweepInv, ReadsPast
<1>5. LedgerOfPast'
  <2>1. \A row : PastTx(row)' = PastTx(row)
    BY DEF PastTx
  <2>2. QED
    BY <1>1, <2>1 DEF SweepInv, LedgerOfPast
<1>6. \A acc \in MamAccount : RebuildsAlone(acc)'
  BY <1>1 DEF SweepInv, RebuildsAlone, Rebuilding, OnAccount
<1>7. QED
  BY <1>2, <1>4, <1>5, <1>6 DEF SweepInv

\* The operations leave the sweeps' part of the ledger alone, and none starts on
\* an account that is being rebuilt.
LEMMA OperatingInv ==
  ASSUME CapitalInv, SweepInv, Operating, Undisturbed
  PROVE  SweepInv'
<1>1. /\ Next /\ happened' = happened /\ sweep' = sweep
      /\ \A x \in TxKey \ Ours : tx'[x] = tx[x]
  BY OthersStep DEF Operating
<1>2. SweepType' /\ \A r \in Sweep : ReadsPast(r)'
  BY <1>1 DEF SweepInv, SweepType, ReadsPast, PastOf
<1>3. LedgerOfPast'
  <2>1. \A row : PastTx(row)' = PastTx(row)
    BY DEF PastTx
  <2>2. QED
    BY <1>1, <2>1 DEF SweepInv, LedgerOfPast
<1>4. ASSUME NEW acc \in MamAccount
      PROVE  RebuildsAlone(acc)'
  <2>1. SUFFICES ASSUME Rebuilding(acc), NEW k \in Key, OnAccount(k)', movement'[k].account = acc
                 PROVE  FALSE
    BY <1>1 DEF RebuildsAlone, Rebuilding, OnAccount
  <2>2. movement[k] # NoMovement
    BY <2>1 DEF Undisturbed
  <2>3. Final(k)
    BY <1>1, FinalStep
  <2>4. movement[k] \in Movement \cup {NoMovement}
    BY DEF CapitalInv, StateType
  <2>5. CASE movement'[k] = movement[k]
    BY <2>1, <2>5 DEF SweepInv, RebuildsAlone, OnAccount
  <2>6. CASE movement'[k] # movement[k]
    <3>1. /\ movement[k].status = "PENDING"
          /\ movement'[k] = [movement[k] EXCEPT !.status = movement'[k].status]
      BY <2>2, <2>3, <2>6 DEF Final
    <3>2. /\ movement[k].direction \in {"DEPOSIT", "WITHDRAWAL"}
          /\ movement[k] \in [direction : {"DEPOSIT", "WITHDRAWAL"}, status : Statuses,
                              account : MamAccount, amount : Amount]
      BY <2>2, <2>4, <3>1 DEF Movement
    <3>3. movement'[k].account = movement[k].account
      BY <3>1, <3>2
    <3>4. QED
      BY <2>1, <3>2, <3>3 DEF SweepInv, RebuildsAlone, OnAccount
  <2>7. QED
    BY <2>5, <2>6
<1>5. QED
  BY <1>2, <1>3, <1>4 DEF SweepInv

\* Nothing has moved at the start.
LEMMA SweepInitInv == SweepInit => CapitalInv /\ LedgerInv /\ SweepInv /\ MovesFinite
<1> SUFFICES ASSUME SweepInit PROVE CapitalInv /\ LedgerInv /\ SweepInv /\ MovesFinite
  OBVIOUS
<1>1. /\ Init /\ LedgerInit /\ happened = {} /\ sweep = [s \in Sweep |-> SweepIdle]
      /\ tx = [k \in TxKey |-> NoTx]
  BY DEF SweepInit, Init, LedgerInit
<1>2. CapitalInv /\ LedgerInv
  BY <1>1, CapitalInitInv, InitInv
<1>3. MovesFinite
  BY <1>1, MovesInitially
<1>4. SweepType
  BY <1>1, FS_EmptySet DEF SweepType
<1>5. LedgerOfPast /\ \A s \in Sweep : ReadsPast(s)
  BY <1>1 DEF LedgerOfPast, ReadsPast
<1>6. \A acc \in MamAccount : RebuildsAlone(acc)
  BY <1>1 DEF RebuildsAlone, Rebuilding
<1>7. QED
  BY <1>2, <1>3, <1>4, <1>5, <1>6 DEF SweepInv

\* Every step of the sweeps and of the operations keeps the three invariants.
SweepNext == Sweeping \/ (Operating /\ Undisturbed)

LEMMA SweepNextInv ==
  CapitalInv /\ LedgerInv /\ SweepInv /\ MovesFinite /\ [SweepNext]_sweepVars
    => CapitalInv' /\ LedgerInv' /\ SweepInv' /\ MovesFinite'
<1> SUFFICES ASSUME CapitalInv, LedgerInv, SweepInv, MovesFinite, [SweepNext]_sweepVars
             PROVE  CapitalInv' /\ LedgerInv' /\ SweepInv' /\ MovesFinite'
  OBVIOUS
<1>1. CASE UNCHANGED vars
  <2>1. [Next]_vars
    BY <1>1
  <2>2. CapitalInv' /\ MovesFinite'
    BY <2>1, CapitalStepInv, MovesFiniteStep
  <2>3. LedgerInv'
    BY <1>1 DEF LedgerInv, vars
  <2>4. CASE \E x \in DOMAIN Past : Happen(x)
    BY <2>2, <2>3, <2>4, HappenInv
  <2>5. CASE \E s \in Sweep : SweepMoves(s)
    <3>1. PICK s \in Sweep : SweepMoves(s)
      BY <2>5
    <3>2. UNCHANGED <<movement, happened>>
      BY <3>1, SweepKeepsCapital
    <3>3. QED
      BY <2>2, <2>3, <3>1, <3>2, SweepInvStep
  <2>6. CASE Operating /\ Undisturbed
    BY <2>2, <2>3, <2>6, OperatingInv
  <2>7. CASE UNCHANGED sweepVars
    <3>1. SweepInv'
      BY <2>7 DEF sweepVars, SweepInv, SweepType, LedgerOfPast, PastTx, ReadsPast, PastOf,
         RebuildsAlone, Rebuilding, OnAccount
    <3>2. QED
      BY <2>2, <2>3, <3>1
  <2>8. QED
    BY <2>4, <2>5, <2>6, <2>7 DEF SweepNext, Sweeping, SweepMoves
<1>2. CASE \E s \in Sweep : SweepMoves(s)
  <2>1. PICK s \in Sweep : SweepMoves(s)
    BY <1>2
  <2>2. CapitalInv' /\ LedgerInv' /\ UNCHANGED <<movement, engine, happened>>
    BY <2>1, SweepKeepsCapital
  <2>3. SweepInv'
    BY <2>1, <2>2, SweepInvStep
  <2>4. MovesFinite'
    BY <2>2 DEF MovesFinite, Moves
  <2>5. QED
    BY <2>2, <2>3, <2>4
<1>3. CASE Operating /\ Undisturbed
  <2>1. Next
    BY <1>3 DEF Operating
  <2>2. CapitalInv' /\ MovesFinite' /\ SweepInv'
    BY <1>3, <2>1, CapitalStepInv, MovesFiniteStep, OperatingInv
  <2>3. LedgerInv'
    BY <2>1, LedgerStep, StepInv
  <2>4. QED
    BY <2>2, <2>3
<1>4. CASE (\E x \in DOMAIN Past : Happen(x)) \/ UNCHANGED sweepVars
  <2>1. UNCHANGED vars
    BY <1>4 DEF Happen, sweepVars, vars
  <2>2. QED
    BY <1>1, <2>1
<1>5. QED
  BY <1>2, <1>3, <1>4 DEF SweepNext, Sweeping, SweepMoves

\* The movements, the ledger and the sweeps keep their invariants when they run
\* side by side, as long as nobody starts an operation on an account that is
\* being rebuilt.
THEOREM SweepInvariant == SweepSpec => [](CapitalInv /\ LedgerInv /\ SweepInv /\ MovesFinite)
BY SweepInitInv, SweepNextInv, PTL DEF SweepSpec, SweepNext

\* The movements are as safe with sweeps beside them as without: one in flight per
\* account, a reservation exactly while unresolved, a key that travels once, a
\* FAILED movement that never moves, a PENDING one that somebody is at work on.
THEOREM MovementsUnderSweeps ==
  SweepSpec => [](OneInFlight /\ HoldFollowsMovement /\ SentOnce /\ FailedNeverMoves
                  /\ PendingHasHandler)
BY SweepInvariant, OneInFlightMeaning, HoldMeaning, SentOnceMeaning, FailedMeaning,
   PendingMeaning, PTL

\* What the engine moved for a movement is never booked by a sweep as well: no
\* sweep has booked any execution of ours at all.
THEOREM BookedOnceOnly == SweepSpec => []BookedOnce
<1>1. CapitalInv /\ LedgerInv /\ SweepInv /\ MovesFinite => BookedOnce
  <2> SUFFICES ASSUME SweepInv, NEW e \in EngineKey,
                      tx[<<"regularize", e>>].status = "POSTED"
               PROVE  FALSE
    BY DEF BookedOnce
  <2>1. <<"regularize", e>> \in TxKey \ Ours
    BY RegularizationAssumption DEF Ours
  <2>2. PICK y \in happened : <<"regularize", e>> = Reg(Past[y])
    BY <2>1 DEF SweepInv, LedgerOfPast, NoTx
  <2>3. y \in DOMAIN Past /\ Past[y].id = y
    BY RegularizationAssumption DEF SweepInv, SweepType
  <2>4. e = y
    BY <2>2, <2>3 DEF Reg
  <2>5. QED
    BY <2>3, <2>4, RegularizationAssumption
<1>2. QED
  BY <1>1, SweepInvariant, PTL

\* A sweep pays no incoming row with money that is reserved for a deposit: the
\* MASTER account can pay what it reserved whatever sweeps post beside the
\* deposits and withdrawals.
THEOREM SolventUnderSweeps == SweepSpec => []Solvent
BY SweepInvariant, InvMeaning, PTL

\* The rows that were regularized are those that the ledger has.
RegularizedRows == {Past[x] : x \in Regularized}
PastBooked(kind) == BookedIn(tx, kind) \ Ours

LEMMA RegularizedBooked ==
  ASSUME SweepInv
  PROVE  /\ RegularizedRows \in SUBSET Rows
         /\ \A row \in RegularizedRows : tx[Reg(row)] = PastTx(row)
         /\ \A x \in TxKey \ Ours : tx[x].status = "POSTED" =>
              \E row \in RegularizedRows : x = Reg(row)
<1>1. SweepType /\ LedgerOfPast
  BY DEF SweepInv
<1>2. RegularizedRows \in SUBSET Rows
  BY DEF RegularizedRows, Regularized, Rows
<1>3. ASSUME NEW row \in RegularizedRows
      PROVE  tx[Reg(row)] = PastTx(row)
  <2>1. tx[Reg(row)] # NoTx
    BY DEF RegularizedRows, Regularized, NoTx
  <2>2. Reg(row) \in TxKey \ Ours /\ Past[Reg(row)[2]] = row
    BY <1>1, <1>2, RowFacts
  <2>3. PICK y \in happened : Reg(row) = Reg(Past[y]) /\ tx[Reg(row)] = PastTx(Past[y])
    BY <1>1, <2>1, <2>2 DEF LedgerOfPast
  <2>4. Past[Reg(Past[y])[2]] = Past[y]
    BY <1>1, RowFacts DEF Rows
  <2>5. QED
    BY <2>2, <2>3, <2>4
<1>4. ASSUME NEW x \in TxKey \ Ours, tx[x].status = "POSTED"
      PROVE  \E row \in RegularizedRows : x = Reg(row)
  <2>1. PICK y \in happened : x = Reg(Past[y])
    BY <1>1, <1>4 DEF LedgerOfPast, NoTx
  <2>2. Past[y] \in RegularizedRows
    BY <1>4, <2>1 DEF RegularizedRows, Regularized
  <2>3. QED
    BY <2>1, <2>2
<1>5. QED
  BY <1>2, <1>3, <1>4

\* They make the sums that the ledger has beside the movements.
LEMMA PastSums ==
  ASSUME SweepInv
  PROVE  /\ RowsTotal(Incoming(RegularizedRows)) = Sum(tx, PastBooked(DEPOSIT))
         /\ RowsTotal(Outgoing(RegularizedRows)) = Sum(tx, PastBooked(WITHDRAWAL))
<1> DEFINE R == RegularizedRows
           I == Incoming(R)
           O == Outgoing(R)
           P == PastBooked(DEPOSIT)
           Q == PastBooked(WITHDRAWAL)
<1>1. SweepType
  BY DEF SweepInv
<1>2. /\ R \in SUBSET Rows
      /\ \A row \in R : tx[Reg(row)] = PastTx(row)
      /\ \A x \in TxKey \ Ours : tx[x].status = "POSTED" => \E row \in R : x = Reg(row)
  BY RegularizedBooked
<1> HIDE DEF R
<1>3. ASSUME NEW row \in R
      PROVE  /\ Reg(row) \in TxKey \ Ours /\ tx[Reg(row)].amount = row.amount
             /\ tx[Reg(row)].status = "POSTED"
             /\ tx[Reg(row)].kind = IF row.incoming THEN DEPOSIT ELSE WITHDRAWAL
  <2>1. Reg(row) \in TxKey \ Ours /\ tx[Reg(row)] = PastTx(row)
    BY <1>1, <1>2, RowFacts
  <2>2. PICK n : n = tx[Reg(row)]
    OBVIOUS
  <2>3. /\ n.amount = row.amount /\ n.status = "POSTED"
        /\ n.kind = IF row.incoming THEN DEPOSIT ELSE WITHDRAWAL
    BY <2>1, <2>2 DEF PastTx, NewTx, KindOf, DEPOSIT, WITHDRAWAL
  <2>4. QED
    BY <2>1, <2>2, <2>3
<1>4. I \in SUBSET Rows /\ O \in SUBSET Rows
  BY <1>2 DEF Incoming, Outgoing
<1>5. \A row \in I : Reg(row) \in P /\ tx[Reg(row)].amount = row.amount
  BY <1>3 DEF PastBooked, BookedIn, Incoming
<1>6. \A row \in O : Reg(row) \in Q /\ tx[Reg(row)].amount = row.amount
  BY <1>3 DEF PastBooked, BookedIn, Outgoing
<1>7. DEPOSIT # WITHDRAWAL
  BY DEF DEPOSIT, WITHDRAWAL
<1>8. \A k \in P : \E row \in I : k = Reg(row)
  BY <1>2, <1>3, <1>7 DEF PastBooked, BookedIn, Incoming
<1>9. \A k \in Q : \E row \in O : k = Reg(row)
  BY <1>2, <1>3, <1>7 DEF PastBooked, BookedIn, Outgoing
<1> HIDE DEF I, O, P, Q
<1>10. Sum(tx, P) = RowsTotal(I)
  BY ONLY <1>1, <1>4, <1>5, <1>8, RowsBooked
<1>11. Sum(tx, Q) = RowsTotal(O)
  BY ONLY <1>1, <1>4, <1>6, <1>9, RowsBooked
<1>12. QED
  BY <1>10, <1>11 DEF I, O, P, Q, R

\* The sum of a kind is that of the movements and that of the rows.
LEMMA BookedSplits ==
  ASSUME FiniteIn(tx), NEW kind
  PROVE  /\ Sum(tx, BookedIn(tx, kind)) = Sum(tx, OurBooked(kind)) + Sum(tx, PastBooked(kind))
         /\ Sum(tx, OurBooked(kind)) \in Nat /\ Sum(tx, PastBooked(kind)) \in Nat
<1> DEFINE A == OurBooked(kind)
           B == PastBooked(kind)
<1>1. A \cap B = {} /\ A \cup B = BookedIn(tx, kind) /\ A \in SUBSET TxKey /\ B \in SUBSET TxKey
  BY DEF OurBooked, PastBooked, BookedIn
<1> HIDE DEF A, B
<1>2. IsFiniteSet(UnitsIn(tx, A)) /\ IsFiniteSet(UnitsIn(tx, B))
  BY <1>1, SumIsNat
<1>3. Agree(tx, tx, A)
  BY DEF Agree
<1>4. /\ Sum(tx, A \cup B) = Sum(tx, A) + Sum(tx, B)
      /\ Sum(tx, A) \in Nat /\ Sum(tx, B) \in Nat
  BY <1>1, <1>2, <1>3, SumJoin
<1>5. QED
  BY <1>1, <1>4 DEF A, B

\* What the books say of the cash when sweeps have been at work.
LEMMA HistoryMeaning ==
  ASSUME CapitalInv, LedgerInv, SweepInv, MovesFinite
  PROVE  BooksFollowHistory
<1> DEFINE wr == Sum(engine, Moved("WITHDRAWAL", ResolvedKeys))
           wu == Sum(engine, Moved("WITHDRAWAL", UnresolvedKeys))
           dr == Sum(engine, Moved("DEPOSIT", ResolvedKeys))
           du == Sum(engine, Moved("DEPOSIT", UnresolvedKeys))
           funded == Total(Booked("MASTER_ACCOUNT_FUNDING"))
           wb == Total(Booked("TRADER_WITHDRAWAL"))
           db == Total(Booked("TRADER_DEPOSIT"))
           in == RowsTotal(Incoming(RegularizedRows))
           out == RowsTotal(Outgoing(RegularizedRows))
           echoed == BookTotal(Echoed)
           imagined == BookTotal(Imagined)
<1>1. FiniteIn(tx) /\ TxInv(tx)
  BY DEF LedgerInv, Inv, TxInv
<1>2. /\ funded = Sum(tx, BookedIn(tx, FUNDING)) /\ wb = Sum(tx, BookedIn(tx, WITHDRAWAL))
      /\ db = Sum(tx, BookedIn(tx, DEPOSIT))
      /\ echoed = Sum(tx, Books(Echoed)) /\ imagined = Sum(tx, Books(Imagined))
  BY DEF Total, UnitsOf, Units, Booked, Sum, UnitsIn, BookedIn, BookTotal, Books, FUNDING,
     WITHDRAWAL, DEPOSIT
<1>3. funded \in Nat
  BY <1>1, <1>2, BookedIsNat
<1>4. wr \in Nat /\ wu \in Nat /\ dr \in Nat /\ du \in Nat
  BY MovedSplits
<1>5. /\ Sum(tx, OurBooked(WITHDRAWAL)) = wr + imagined /\ imagined \in Nat
      /\ Sum(tx, OurBooked(DEPOSIT)) = dr + echoed /\ echoed \in Nat
  BY <1>1, <1>2, ResolvedWithdrawals, ResolvedDeposits
<1>6. in = Sum(tx, PastBooked(DEPOSIT)) /\ out = Sum(tx, PastBooked(WITHDRAWAL))
  BY PastSums
<1>7. wb = (wr + imagined) + out /\ db = (dr + echoed) + in /\ in \in Nat /\ out \in Nat
  BY <1>1, <1>2, <1>5, <1>6, BookedSplits
<1>8. balance[MASTER] = funded + wb - db
  BY InvMeaning DEF BooksMatch
<1>9. /\ EngineTotal(Moved("WITHDRAWAL", Key)) = wr + wu
      /\ EngineTotal(Moved("DEPOSIT", Key)) = dr + du
      /\ EngineTotal(Moved("WITHDRAWAL", UnresolvedKeys)) = wu
      /\ EngineTotal(Moved("DEPOSIT", UnresolvedKeys)) = du
  BY MovedSplits
<1>10. Cash = funded + (wr + wu) - (dr + du)
  BY <1>9 DEF Cash
<1>11. Net({Past[x] : x \in Regularized}) = in - out
  BY DEF Net, RegularizedRows
<1> HIDE DEF wr, wu, dr, du, funded, wb, db, in, out, echoed, imagined
<1>12. QED
  BY <1>3, <1>4, <1>5, <1>7, <1>8, <1>9, <1>10, <1>11 DEF BooksFollowHistory, echoed, imagined

\* A row of the history that was regularized is in the books once and in its
\* direction, however many sweeps read it: the books of the MASTER account are the
\* cash it would have if it had paid those rows, and wrong about it by the
\* unresolved movements and those booked on an answer that moved nothing.
THEOREM BooksFollowTheHistory == SweepSpec => []BooksFollowHistory
BY SweepInvariant, HistoryMeaning, PTL
=============================================================================
