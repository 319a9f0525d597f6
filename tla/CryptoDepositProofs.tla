------------------------ MODULE CryptoDepositProofs ------------------------
(***************************************************************************)
(* The invariant of CryptoDeposit, for any transactions, payments, requests *)
(* and depths: what a handler read of the chain still holds when it uses it, *)
(* unless a reorganisation took its receipt back, and a block as deep as     *)
(* MinConfirmations stays; and the ledger of a hash is what its confirmed row *)
(* says.                                                                   *)
(***************************************************************************)
EXTENDS CryptoDeposit, LedgerProofs

Pc == {"check", "receipt", "height", "record", "notify", "done"}
Result == {"none", "confirmed", "registered", "rejected", "error", "lost"}

StateType ==
  /\ height \in 0 .. MaxHeight /\ block \in [Hash -> 0 .. MaxHeight]
  /\ deposit \in [Hash -> Deposit \cup {NoDeposit}]
  /\ request \in [Request -> Running \cup {Idle}]
  /\ forked \subseteq Request

\* What a handler knows of the chain at each of its steps, if its receipt was
\* not taken back.
Knows(r) ==
  /\ At(r, "height") =>
       /\ HashOf(r) \notin Reverted
       /\ r \notin forked => Mined(HashOf(r)) /\ request[r].block = block[HashOf(r)]
  /\ At(r, "record") =>
       /\ HashOf(r) \notin Reverted /\ PaysUs(HashOf(r))
       /\ r \notin forked => Final(HashOf(r))
  /\ At(r, "notify") => deposit[HashOf(r)] # NoDeposit

\* What the ledger has for a hash.
Credit(h) ==
  IF deposit[h] # NoDeposit /\ AutoCredit THEN NewTx(FUNDING, "POSTED", NoTrader, Paid[h]) ELSE NoTx

RowInv(h) ==
  deposit[h] # NoDeposit => /\ h \notin Reverted
                            /\ Final(h) \/ CreditedAcrossFork(h)
                            /\ deposit[h].credited = AutoCredit

DepositInv ==
  /\ StateType
  /\ \A r \in Request : Knows(r)
  /\ \A h \in Hash : RowInv(h) /\ tx[h] = Credit(h)

-----------------------------------------------------------------------------
(* Steps of the chain *)

\* The first state.
LEMMA DepositInitInv == DepositInit => DepositInv
<1> SUFFICES ASSUME DepositInit PROVE DepositInv
  OBVIOUS
<1>1. StateType
  BY DepositAssumption DEF DepositInit, StateType
<1>2. \A r \in Request : Knows(r)
  BY DEF DepositInit, Knows, At, Idle, HashOf
<1>3. \A h \in Hash : RowInv(h) /\ tx[h] = Credit(h)
  BY DepositAssumption DEF DepositInit, LedgerInit, RowInv, Credit
<1>4. QED
  BY <1>1, <1>2, <1>3 DEF DepositInv

\* What is final stays so when the chain grows: the block of a mined transaction
\* is not touched and only gets deeper.
LEMMA GrowInv ==
  ASSUME DepositInv, NEW M \in SUBSET Hash, Grow(M)
  PROVE  DepositInv'
<1>1. /\ StateType /\ MaxHeight \in Nat /\ MinConfirmations \in Nat
      /\ height \in Nat /\ height' = height + 1 /\ height' <= MaxHeight
      /\ UNCHANGED <<tx, deposit, request, forked>>
  BY DepositAssumption DEF DepositInv, StateType, Grow, ledgerVars
<1>2. block' \in [Hash -> 0 .. MaxHeight]
  BY <1>1 DEF Grow, StateType
<1>3. StateType'
  BY <1>1, <1>2 DEF StateType
<1>4. \A h \in Hash : Mined(h) => block'[h] = block[h]
  BY DEF Grow
<1>5. ASSUME NEW h \in Hash, Final(h)
      PROVE  Final(h)'
  <2>1. block'[h] = block[h] /\ block[h] \in Nat /\ block[h] # 0
    BY <1>1, <1>4, <1>5 DEF Final, StateType, Mined
  <2>2. height' - block[h] + 1 >= MinConfirmations
    BY <1>1, <1>5, <2>1 DEF Final, Confirmations
  <2>3. QED
    BY <2>1, <2>2 DEF Final, Confirmations, Mined
<1>6. ASSUME NEW r \in Request
      PROVE  Knows(r)'
  <2>1. Knows(r) /\ UNCHANGED <<request, deposit, forked>>
    BY <1>1 DEF DepositInv
  <2>2. request[r].pc \in {"height", "record"} => HashOf(r) \in Hash
    BY <1>1 DEF StateType, Running, Idle, HashOf
  <2>3. ASSUME At(r, "height"), r \notin forked
        PROVE  block'[HashOf(r)] # 0 /\ request[r].block = block'[HashOf(r)]
    BY <1>4, <2>1, <2>2, <2>3 DEF Knows, At, Mined
  <2>4. ASSUME At(r, "record"), r \notin forked
        PROVE  Final(HashOf(r))'
    <3>1. HashOf(r) \in Hash /\ Final(HashOf(r)) /\ HashOf(r)' = HashOf(r)
      BY <2>1, <2>2, <2>4 DEF Knows, At, HashOf
    <3>2. QED
      BY <1>5, <3>1 DEF Final, Mined, Confirmations
  <2>5. QED
    BY <2>1, <2>3, <2>4 DEF Knows, At, HashOf, Mined, PaysUs
<1>7. \A h : CreditedAcrossFork(h)' = CreditedAcrossFork(h)
  BY <1>1 DEF CreditedAcrossFork, Committed, At, HashOf
<1>8. \A h \in Hash : RowInv(h)' /\ tx'[h] = Credit(h)'
  BY <1>1, <1>5, <1>7 DEF DepositInv, RowInv, Credit
<1>9. QED
  BY <1>3, <1>6, <1>8 DEF DepositInv

\* A reorganisation takes back a block that is not deep, and the handlers that
\* wait for a height with its receipt are remembered.
LEMMA ReorganiseInv ==
  ASSUME DepositInv, NEW h \in Hash, Reorganise(h)
  PROVE  DepositInv'
<1>1. /\ StateType /\ MaxHeight \in Nat /\ MinConfirmations \in Nat
      /\ block' = [block EXCEPT ![h] = 0] /\ UNCHANGED <<height, tx, deposit, request>>
      /\ forked' = forked \cup {r \in Request : At(r, "height") /\ HashOf(r) = h}
  BY DepositAssumption DEF DepositInv, StateType, Reorganise, ledgerVars
<1>2. StateType'
  BY <1>1 DEF StateType
<1>3. ASSUME NEW g \in Hash, Final(g)
      PROVE  Final(g)'
  <2>1. g # h
    BY <1>1, <1>3 DEF Final, Reorganise, Confirmations, StateType
  <2>2. block'[g] = block[g]
    BY <1>1, <2>1 DEF StateType
  <2>3. QED
    BY <1>1, <1>3, <2>2 DEF Final, Confirmations, Mined
<1>4. ASSUME NEW r \in Request
      PROVE  Knows(r)'
  <2>1. Knows(r)
    BY DEF DepositInv
  <2>2. request[r].pc \in {"height", "record"} => HashOf(r) \in Hash
    BY <1>1 DEF StateType, Running, Idle, HashOf
  <2>3. ASSUME At(r, "height"), r \notin forked'
        PROVE  block'[HashOf(r)] # 0 /\ request[r].block = block'[HashOf(r)]
    <3>1. HashOf(r) \in Hash /\ HashOf(r) # h /\ r \notin forked
      BY <1>1, <2>2, <2>3 DEF At
    <3>2. block'[HashOf(r)] = block[HashOf(r)]
      BY <1>1, <3>1 DEF StateType
    <3>3. QED
      BY <2>1, <2>3, <3>1, <3>2 DEF Knows, Mined
  <2>4. ASSUME At(r, "record"), r \notin forked'
        PROVE  Final(HashOf(r))'
    <3>1. HashOf(r) \in Hash /\ Final(HashOf(r)) /\ HashOf(r)' = HashOf(r)
      BY <1>1, <2>1, <2>2, <2>4 DEF Knows, At, HashOf
    <3>2. QED
      BY <1>3, <3>1 DEF Final, Mined, Confirmations
  <2>5. QED
    BY <1>1, <2>1, <2>3, <2>4 DEF Knows, At, HashOf, Mined, PaysUs
<1>5. ASSUME NEW g \in Hash, CreditedAcrossFork(g)
      PROVE  CreditedAcrossFork(g)'
  BY <1>1, <1>5 DEF CreditedAcrossFork, Committed, At, HashOf
<1>6. \A g \in Hash : RowInv(g)' /\ tx'[g] = Credit(g)'
  BY <1>1, <1>3, <1>5 DEF DepositInv, RowInv, Credit
<1>7. QED
  BY <1>2, <1>4, <1>6 DEF DepositInv

-----------------------------------------------------------------------------
(* Steps of the handlers *)

\* One handler goes on as n, and nothing else happens.
OnlyMoves(r, n) ==
  /\ request' = [request EXCEPT ![r] = n]
  /\ UNCHANGED <<height, block, forked, deposit, tx>>

\* It has to know what the place it goes to needs.
LEMMA MoveInv ==
  ASSUME DepositInv, NEW r \in Request, NEW n \in Running, OnlyMoves(r, n),
         n.pc = "height" =>
           /\ n.hash \notin Reverted
           /\ r \notin forked => Mined(n.hash) /\ n.block = block[n.hash],
         n.pc = "record" =>
           /\ n.hash \notin Reverted /\ PaysUs(n.hash)
           /\ r \notin forked => Final(n.hash),
         n.pc # "notify",
         Committed(r) => /\ n.pc = "done" /\ n.result \in {"confirmed", "lost"}
                         /\ n.hash = HashOf(r)
  PROVE  DepositInv'
<1>1. StateType /\ request'[r] = n /\ \A q \in Request \ {r} : request'[q] = request[q]
  BY DEF DepositInv, StateType, OnlyMoves
<1>2. StateType'
  BY <1>1 DEF StateType, OnlyMoves
<1>3. \A h : Mined(h)' = Mined(h) /\ Final(h)' = Final(h)
  BY DEF OnlyMoves, Mined, Final, Confirmations
<1>4. Knows(r)'
  BY <1>1, <1>3 DEF Knows, At, HashOf, OnlyMoves, Mined, Final, PaysUs, Confirmations
<1>5. ASSUME NEW q \in Request \ {r}
      PROVE  Knows(q)'
  <2>1. Knows(q) /\ request'[q] = request[q]
    BY <1>1 DEF DepositInv
  <2>2. QED
    BY <1>3, <2>1 DEF Knows, At, HashOf, OnlyMoves, Mined, Final, PaysUs, Confirmations
<1>6. ASSUME NEW h, CreditedAcrossFork(h)
      PROVE  CreditedAcrossFork(h)'
  <2>1. PICK q \in forked : HashOf(q) = h /\ Committed(q)
    BY <1>6 DEF CreditedAcrossFork
  <2>2. q \in Request /\ forked' = forked
    BY <1>1 DEF StateType, OnlyMoves
  <2>3. CASE q = r
    BY <1>1, <2>1, <2>2, <2>3 DEF CreditedAcrossFork, Committed, At, HashOf
  <2>4. CASE q # r
    <3>1. request'[q] = request[q]
      BY <1>1, <2>2, <2>4
    <3>2. QED
      BY <2>1, <2>2, <3>1 DEF CreditedAcrossFork, Committed, At, HashOf
  <2>5. QED
    BY <2>3, <2>4
<1>7. \A h \in Hash : RowInv(h)' /\ tx'[h] = Credit(h)'
  BY <1>3, <1>6 DEF DepositInv, RowInv, Credit, OnlyMoves
<1>8. QED
  BY <1>2, <1>4, <1>5, <1>7 DEF DepositInv

\* A handler that has started is one of Running.
LEMMA Started ==
  ASSUME StateType, NEW r \in Request, request[r].pc # "idle"
  PROVE  /\ request[r] \in Running /\ HashOf(r) \in Hash
         /\ request[r].declared \in Amount /\ request[r].block \in 0 .. MaxHeight
<1>1. request[r] \in Running
  BY DEF StateType, Idle
<1>2. QED
  BY <1>1 DEF Running, HashOf

\* Answering changes nothing but the handler.
LEMMA AnswerInv ==
  ASSUME DepositInv, NEW r \in Request, request[r].pc \notin {"idle", "done"},
         NEW result \in Result, At(r, "notify") => result = "lost",
         Answer(r, result), UNCHANGED <<height, block, forked, deposit, tx>>
  PROVE  DepositInv'
<1> DEFINE n == [request[r] EXCEPT !.pc = "done", !.result = result]
<1>1. StateType /\ request[r] \in Running
  BY Started DEF DepositInv
<1>2. n \in Running /\ n.pc = "done" /\ n.result = result /\ n.hash = HashOf(r)
  BY <1>1 DEF Running, Result, HashOf
<1>3. OnlyMoves(r, n)
  BY <1>1 DEF OnlyMoves, Answer, StateType
<1>4. Committed(r) => result = "lost"
  BY DEF Committed, At
<1> HIDE DEF n
<1>5. QED
  BY <1>2, <1>3, <1>4, MoveInv

\* A request that presents a hash.
LEMMA SubmitInv ==
  ASSUME DepositInv, NEW r \in Request, NEW h \in Hash, NEW a \in Amount, Submit(r, h, a)
  PROVE  DepositInv'
<1> DEFINE n == [pc |-> "check", hash |-> h, declared |-> a, block |-> 0, result |-> "none"]
<1>1. n \in Running /\ n.pc = "check"
  BY DepositAssumption DEF Running
<1>2. OnlyMoves(r, n)
  BY DEF Submit, OnlyMoves, ledgerVars, chain
<1>3. ~Committed(r)
  BY DEF Submit, Committed, At
<1> HIDE DEF n
<1>4. QED
  BY <1>1, <1>2, <1>3, MoveInv

\* The look at the confirmed row.
LEMMA CheckInv ==
  ASSUME DepositInv, NEW r \in Request, Check(r)
  PROVE  DepositInv'
<1>1. /\ request[r].pc = "check" /\ StateType /\ ~Committed(r) /\ ~At(r, "notify")
      /\ "registered" \in Result /\ "rejected" \in Result
      /\ UNCHANGED <<height, block, forked, deposit, tx>>
  BY DEF Check, At, Committed, DepositInv, ledgerVars, chain, Result
<1>2. CASE Goto(r, "receipt")
  <2> DEFINE n == [request[r] EXCEPT !.pc = "receipt"]
  <2>1. n \in Running /\ n.pc = "receipt"
    BY <1>1, Started DEF Running
  <2>2. OnlyMoves(r, n)
    BY <1>1, <1>2 DEF Goto, OnlyMoves, StateType
  <2> HIDE DEF n
  <2>3. QED
    BY <1>1, <2>1, <2>2, MoveInv
<1>3. CASE Answer(r, "registered") \/ Answer(r, "rejected")
  BY <1>1, <1>3, AnswerInv
<1>4. QED
  BY <1>2, <1>3 DEF Check

\* The receipt: its block is remembered.
LEMMA ReceiptInv ==
  ASSUME DepositInv, NEW r \in Request, GetReceipt(r)
  PROVE  DepositInv'
<1>1. /\ request[r].pc = "receipt" /\ StateType /\ ~Committed(r) /\ ~At(r, "notify") /\ "rejected" \in Result
      /\ UNCHANGED <<height, block, forked, deposit, tx>>
  BY DEF GetReceipt, At, Committed, DepositInv, ledgerVars, chain, Result
<1>2. CASE /\ Mined(HashOf(r)) /\ HashOf(r) \notin Reverted
           /\ request' = [request EXCEPT ![r].pc = "height", ![r].block = block[HashOf(r)]]
  <2> DEFINE n == [request[r] EXCEPT !.pc = "height", !.block = block[HashOf(r)]]
  <2>1. request[r] \in Running /\ HashOf(r) \in Hash
    BY <1>1, Started
  <2>2. block[HashOf(r)] \in 0 .. MaxHeight
    BY <1>1, <2>1 DEF StateType
  <2>3. /\ n \in Running /\ n.pc = "height" /\ n.hash = HashOf(r)
        /\ n.block = block[HashOf(r)]
    BY <2>1, <2>2 DEF Running, HashOf
  <2>4. OnlyMoves(r, n)
    BY <1>1, <1>2 DEF OnlyMoves, StateType
  <2> HIDE DEF n
  <2>5. QED
    BY <1>1, <1>2, <2>3, <2>4, MoveInv
<1>3. CASE Answer(r, "rejected")
  BY <1>1, <1>3, AnswerInv
<1>4. QED
  BY <1>2, <1>3 DEF GetReceipt

\* The height: a payment that is accepted is final, if its receipt still holds.
LEMMA HeightInv ==
  ASSUME DepositInv, NEW r \in Request, GetHeight(r)
  PROVE  DepositInv'
<1>1. /\ request[r].pc = "height" /\ StateType /\ ~Committed(r) /\ ~At(r, "notify") /\ "rejected" \in Result
      /\ UNCHANGED <<height, block, forked, deposit, tx>>
  BY DEF GetHeight, At, Committed, DepositInv, ledgerVars, chain, Result
<1>2. CASE Acceptable(r) /\ Goto(r, "record")
  <2> DEFINE n == [request[r] EXCEPT !.pc = "record"]
  <2>1. request[r] \in Running
    BY <1>1, Started
  <2>2. n \in Running /\ n.pc = "record" /\ n.hash = HashOf(r)
    BY <2>1 DEF Running, HashOf
  <2>3. /\ HashOf(r) \notin Reverted /\ PaysUs(HashOf(r))
        /\ r \notin forked => Final(HashOf(r))
    BY <1>1, <1>2 DEF DepositInv, Knows, At, Final, Acceptable
  <2>4. OnlyMoves(r, n)
    BY <1>1, <1>2 DEF Goto, OnlyMoves, StateType
  <2> HIDE DEF n
  <2>5. QED
    BY <1>1, <2>2, <2>3, <2>4, MoveInv
<1>3. CASE Answer(r, "rejected")
  BY <1>1, <1>3, AnswerInv
<1>4. QED
  BY <1>2, <1>3 DEF GetHeight

\* The row and the credit, in one commit: h's ledger entry is what its new row says.
LEMMA RecordInv ==
  ASSUME DepositInv, LedgerInv, NEW r \in Request, Record(r)
  PROVE  /\ DepositInv'
         /\ \/ UNCHANGED ledgerVars
            \/ \E h \in TxKey, a \in Amount : FundMasterAccount(h, a)
<1>1. /\ request[r].pc = "record" /\ StateType /\ "registered" \in Result
      /\ ~At(r, "notify") /\ UNCHANGED <<height, block, forked>>
  BY DEF Record, At, DepositInv, chain, Result
<1> PICK h \in Hash : HashOf(r) = h
  BY <1>1, Started
<1>2. /\ request[r] \in Running /\ h \notin Reverted /\ PaysUs(h)
      /\ r \notin forked => Final(h)
  BY <1>1, Started DEF DepositInv, Knows, At
<1>3. Paid[h] \in Amount /\ Paid[h] # 0
  BY <1>2, DepositAssumption DEF PaysUs
<1>4. CASE deposit[h] # NoDeposit
  <2>1. Answer(r, "registered") /\ UNCHANGED ledgerVars /\ UNCHANGED deposit
    BY <1>4 DEF Record
  <2>2. QED
    BY <1>1, <2>1, AnswerInv DEF ledgerVars
<1>5. CASE deposit[h] = NoDeposit
  <2>1. /\ deposit' = [deposit EXCEPT ![h] = NewDeposit(h)]
        /\ IF AutoCredit THEN FundMasterAccount(h, Paid[h]) ELSE UNCHANGED ledgerVars
        /\ request' = [request EXCEPT ![r].pc = "notify"]
    BY <1>5 DEF Record, Goto
  <2>2. NewDeposit(h) \in Deposit /\ NewDeposit(h) # NoDeposit /\ NewDeposit(h).credited = AutoCredit
    BY <1>3, DepositAssumption DEF NewDeposit, Deposit, NoDeposit
  <2>3. /\ deposit'[h] = NewDeposit(h) /\ deposit' \in [Hash -> Deposit \cup {NoDeposit}]
        /\ \A g \in Hash \ {h} : deposit'[g] = deposit[g]
    BY <1>1, <1>2, <2>1, <2>2 DEF StateType
  <2> DEFINE n == [request[r] EXCEPT !.pc = "notify"]
  <2>4. n \in Running /\ n.pc = "notify" /\ n.hash = h
    BY <1>2 DEF Running, HashOf
  <2>5. /\ request' \in [Request -> Running \cup {Idle}] /\ request'[r] = n
        /\ \A q \in Request \ {r} : request'[q] = request[q]
    BY <1>1, <2>1, <2>4 DEF StateType
  <2> HIDE DEF n
  <2>6. StateType'
    BY <1>1, <2>3, <2>5 DEF StateType
  <2>7. \A g : Mined(g)' = Mined(g) /\ Final(g)' = Final(g)
    BY <1>1 DEF Mined, Final, Confirmations
  <2>8. ASSUME NEW q \in Request
        PROVE  Knows(q)'
    <3>1. CASE q = r
      BY <2>2, <2>3, <2>4, <2>5, <3>1 DEF Knows, At, HashOf
    <3>2. CASE q # r
      <4>1. Knows(q) /\ request'[q] = request[q]
        BY <2>5, <3>2 DEF DepositInv
      <4>2. request[q].pc # "idle" => HashOf(q) \in Hash
        BY <1>1, Started
      <4>3. At(q, "notify") => deposit'[HashOf(q)] # NoDeposit
        BY <2>2, <2>3, <4>1, <4>2 DEF Knows, At
      <4>4. QED
        BY <1>1, <2>7, <4>1, <4>3 DEF Knows, At, HashOf, Mined, Final, PaysUs, Confirmations
    <3>3. QED
      BY <3>1, <3>2
  <2>9. ASSUME NEW g \in Hash
        PROVE  RowInv(g)'
    <3>1. CASE g = h
      <4>1. r \in forked => CreditedAcrossFork(h)'
        BY <1>1, <2>4, <2>5 DEF CreditedAcrossFork, Committed, At, HashOf
      <4>2. QED
        BY <1>2, <2>2, <2>3, <2>7, <3>1, <4>1 DEF RowInv
    <3>2. CASE g # h
      <4>1. CreditedAcrossFork(g) => CreditedAcrossFork(g)'
        <5>1. \A q \in forked : Committed(q) => q # r /\ q \in Request
          BY <1>1 DEF Committed, At, StateType
        <5>2. QED
          BY <1>1, <2>5, <5>1 DEF CreditedAcrossFork, Committed, At, HashOf
      <4>2. QED
        BY <2>3, <2>7, <3>2, <4>1 DEF DepositInv, RowInv
    <3>3. QED
      BY <3>1, <3>2
  <2>10. tx' = IF AutoCredit THEN [tx EXCEPT ![h] = NewTx(FUNDING, "POSTED", NoTrader, Paid[h])] ELSE tx
    BY <2>1 DEF FundMasterAccount, ledgerVars, FUNDING
  <2>11. \A g \in Hash : tx'[g] = Credit(g)'
    <3>1. CASE ~AutoCredit
      BY <2>10, <3>1 DEF DepositInv, Credit
    <3>2. CASE AutoCredit
      <4>1. tx'[h] = NewTx(FUNDING, "POSTED", NoTrader, Paid[h]) /\ Credit(h)' = tx'[h]
        <5>1. ~Exists(h)
          BY <2>1, <3>2 DEF FundMasterAccount
        <5>2. tx[h] = NoTx
          BY <5>1 DEF Exists
        <5>3. tx \in [Hash -> Transaction \cup {NoTx}]
          BY DepositAssumption DEF LedgerInv, Inv, TxInv, Txs
        <5>4. QED
          BY <2>2, <2>3, <2>10, <3>2, <5>3 DEF Credit
      <4>2. ASSUME NEW g \in Hash, g # h
            PROVE  tx'[g] = Credit(g)'
        BY <2>3, <2>10, <3>2, <4>2 DEF DepositInv, Credit
      <4>3. QED
        BY <4>1, <4>2
    <3>3. QED
      BY <3>1, <3>2
  <2>12. QED
    BY <1>2, <1>3, <2>1, <2>6, <2>8, <2>9, <2>11, DepositAssumption DEF DepositInv
<1>6. QED
  BY <1>4, <1>5

\* The notice changes a column of a row that is there.
LEMMA NotifyInv ==
  ASSUME DepositInv, NEW r \in Request, Notify(r)
  PROVE  DepositInv'
<1>1. /\ request[r].pc = "notify" /\ StateType /\ "confirmed" \in Result
      /\ UNCHANGED <<height, block, forked, tx>> /\ Answer(r, "confirmed")
  BY DEF Notify, At, DepositInv, ledgerVars, chain, Result
<1> PICK h \in Hash : HashOf(r) = h
  BY <1>1, Started
<1>2. request[r] \in Running /\ deposit[h] # NoDeposit
  BY <1>1, Started DEF DepositInv, Knows, At
<1> PICK sent \in BOOLEAN : deposit' = [deposit EXCEPT ![h].notified = sent]
  BY DEF Notify
<1>3. deposit[h] \in Deposit
  BY <1>1, <1>2 DEF StateType
<1>4. \A d \in Deposit : d # NoDeposit
  BY AmountAssumption DEF Deposit, NoDeposit
<1>5. /\ deposit' \in [Hash -> Deposit \cup {NoDeposit}]
      /\ deposit'[h] \in Deposit /\ deposit'[h].credited = deposit[h].credited
      /\ \A g \in Hash \ {h} : deposit'[g] = deposit[g]
  BY <1>1, <1>3 DEF StateType, Deposit
<1>6. \A g \in Hash : deposit'[g] # NoDeposit <=> deposit[g] # NoDeposit
  BY <1>2, <1>4, <1>5
<1> DEFINE n == [request[r] EXCEPT !.pc = "done", !.result = "confirmed"]
<1>7. n \in Running /\ n.pc = "done" /\ n.result = "confirmed" /\ n.hash = h
  BY <1>2 DEF Running, HashOf
<1>8. /\ request' \in [Request -> Running \cup {Idle}] /\ request'[r] = n
      /\ \A q \in Request \ {r} : request'[q] = request[q]
  BY <1>1, <1>7 DEF StateType, Answer
<1> HIDE DEF n
<1>9. StateType'
  BY <1>1, <1>5, <1>8 DEF StateType
<1>10. \A g : Mined(g)' = Mined(g) /\ Final(g)' = Final(g)
  BY <1>1 DEF Mined, Final, Confirmations
<1>11. ASSUME NEW q \in Request
       PROVE  Knows(q)'
  <2>1. CASE q = r
    BY <1>7, <1>8, <2>1 DEF Knows, At
  <2>2. CASE q # r
    <3>1. Knows(q) /\ request'[q] = request[q]
      BY <1>8, <2>2 DEF DepositInv
    <3>2. request[q].pc # "idle" => HashOf(q) \in Hash
      BY <1>1, Started
    <3>3. At(q, "notify") => deposit'[HashOf(q)] # NoDeposit
      BY <1>6, <3>1, <3>2 DEF Knows, At
    <3>4. QED
      BY <1>1, <1>10, <3>1, <3>3 DEF Knows, At, HashOf, Mined, Final, PaysUs, Confirmations
  <2>3. QED
    BY <2>1, <2>2
<1>12. ASSUME NEW g \in Hash, CreditedAcrossFork(g)
       PROVE  CreditedAcrossFork(g)'
  <2>1. PICK q \in forked : HashOf(q) = g /\ Committed(q)
    BY <1>12 DEF CreditedAcrossFork
  <2>2. q \in Request
    BY <1>1 DEF StateType
  <2>3. CASE q = r
    BY <1>1, <1>7, <1>8, <2>1, <2>3 DEF CreditedAcrossFork, Committed, At, HashOf
  <2>4. CASE q # r
    <3>1. request'[q] = request[q]
      BY <1>8, <2>2, <2>4
    <3>2. QED
      BY <1>1, <2>1, <3>1 DEF CreditedAcrossFork, Committed, At, HashOf
  <2>5. QED
    BY <2>3, <2>4
<1>13. ASSUME NEW g \in Hash
       PROVE  RowInv(g)' /\ tx'[g] = Credit(g)'
  <2>1. deposit'[g].credited = deposit[g].credited
    BY <1>5
  <2>2. QED
    BY <1>1, <1>6, <1>10, <1>12, <2>1 DEF DepositInv, RowInv, Credit
<1>14. QED
  BY <1>9, <1>11, <1>13 DEF DepositInv

\* Every step keeps the invariant, and is a funding of the ledger or none of its
\* operations.
LEMMA DepositStepInv ==
  ASSUME DepositInv, LedgerInv, [DepositNext]_depositVars
  PROVE  /\ DepositInv'
         /\ UNCHANGED ledgerVars \/ \E h \in TxKey, a \in Amount : FundMasterAccount(h, a)
<1>1. CASE UNCHANGED depositVars
  BY <1>1 DEF depositVars, ledgerVars, DepositInv, StateType, Knows, RowInv, Credit, At,
     HashOf, Mined, Final, PaysUs, Confirmations, CreditedAcrossFork, Committed
<1>2. ASSUME NEW M \in SUBSET Hash, Grow(M)
      PROVE  DepositInv' /\ UNCHANGED ledgerVars
  BY <1>2, GrowInv DEF Grow, ledgerVars
<1>3. ASSUME NEW h \in Hash, Reorganise(h)
      PROVE  DepositInv' /\ UNCHANGED ledgerVars
  BY <1>3, ReorganiseInv DEF Reorganise, ledgerVars
<1>4. ASSUME NEW r \in Request, Presented(r)
      PROVE  DepositInv' /\ UNCHANGED ledgerVars
  BY <1>4, SubmitInv DEF Presented, Submit, ledgerVars
<1>5. ASSUME NEW r \in Request, Check(r) \/ GetReceipt(r) \/ GetHeight(r) \/ Notify(r)
      PROVE  DepositInv' /\ UNCHANGED ledgerVars
  BY <1>5, CheckInv, ReceiptInv, HeightInv, NotifyInv DEF Check, GetReceipt, GetHeight, Notify,
     ledgerVars
<1>6. ASSUME NEW r \in Request, NodeFails(r) \/ Abandon(r)
      PROVE  DepositInv' /\ UNCHANGED ledgerVars
  <2>1. /\ request[r].pc \notin {"idle", "done"} /\ "error" \in Result /\ "lost" \in Result
        /\ Answer(r, "lost") \/ (Answer(r, "error") /\ ~At(r, "notify"))
        /\ UNCHANGED ledgerVars /\ UNCHANGED <<height, block, forked, deposit, tx>>
    BY <1>6 DEF NodeFails, Abandon, At, Result, ledgerVars, chain
  <2>2. QED
    BY <2>1, AnswerInv
<1>7. QED
  BY <1>1, <1>2, <1>3, <1>4, <1>5, <1>6, RecordInv DEF DepositNext, Handle

\* The ledger under the deposits.
LEMMA DepositInvariant == DepositSpec => [](DepositInv /\ LedgerInv)
<1>1. DepositInit => DepositInv /\ LedgerInv
  BY DepositInitInv, InitInv DEF DepositInit
<1>2. DepositInv /\ LedgerInv /\ [DepositNext]_depositVars => DepositInv' /\ LedgerInv'
  <2> SUFFICES ASSUME DepositInv, LedgerInv, [DepositNext]_depositVars
               PROVE  DepositInv' /\ LedgerInv'
    OBVIOUS
  <2>1. CASE UNCHANGED ledgerVars
    BY <2>1, DepositStepInv DEF LedgerInv, ledgerVars
  <2>2. CASE \E h \in TxKey, a \in Amount : FundMasterAccount(h, a)
    BY <2>2, DepositStepInv, FundInv
  <2>3. QED
    BY <2>1, <2>2, DepositStepInv
<1>3. QED
  BY <1>1, <1>2, PTL DEF DepositSpec

-----------------------------------------------------------------------------
(* The theorems *)

\* Type correctness.
THEOREM DepositTypeCorrect == DepositSpec => []DepositTypeOK
<1>1. DepositInv /\ LedgerInv => DepositTypeOK
  BY InvMeaning DEF DepositInv, StateType, DepositTypeOK
<1>2. QED
  BY <1>1, DepositInvariant, PTL

\* What was credited is on the chain, successful, and too deep to be taken back,
\* however the chain forks, except where a fork fell between the two calls of the
\* request that credited it.
THEOREM CreditsAreFinal == DepositSpec => []FinalUnlessForked
<1>1. DepositInv => FinalUnlessForked
  BY DEF DepositInv, RowInv, FinalUnlessForked
<1>2. QED
  BY <1>1, DepositInvariant, PTL

\* A confirmed deposit and its ledger entry come together, and the MASTER account
\* has each payment of the chain once.
THEOREM CreditsFollowDeposits == DepositSpec => []CreditFollowsDeposit
<1>1. ASSUME DepositInv, LedgerInv
      PROVE  CreditFollowsDeposit
  <2>1. ASSUME NEW h \in Hash
        PROVE  /\ (deposit[h] # NoDeposit /\ deposit[h].credited) <=> Exists(h)
               /\ tx[h] # NoTx => tx[h] = NewTx(FUNDING, "POSTED", NoTrader, Paid[h])
    <3>1. /\ tx[h] = Credit(h)
          /\ deposit[h] # NoDeposit => deposit[h].credited = AutoCredit
      BY <1>1 DEF DepositInv, RowInv
    <3>2. NewTx(FUNDING, "POSTED", NoTrader, Paid[h]) # NoTx
      BY DEF NewTx, NoTx
    <3>3. CASE deposit[h] # NoDeposit /\ AutoCredit
      BY <3>1, <3>2, <3>3 DEF Credit, Exists
    <3>4. CASE deposit[h] = NoDeposit \/ ~AutoCredit
      <4>1. tx[h] = NoTx
        BY <3>1, <3>4 DEF Credit
      <4>2. ~(deposit[h] # NoDeposit /\ deposit[h].credited)
        BY <3>1, <3>4
      <4>3. QED
        BY <4>1, <4>2 DEF Exists
    <3>5. QED
      BY <3>3, <3>4
  <2>2. \A h \in Hash : tx[h] # NoTx =>
          tx[h].kind = FUNDING /\ tx[h].status = "POSTED" /\ tx[h].amount = Paid[h]
    <3>1. ASSUME NEW h \in Hash, NEW r, r = NewTx(FUNDING, "POSTED", NoTrader, Paid[h])
          PROVE  r.kind = FUNDING /\ r.status = "POSTED" /\ r.amount = Paid[h]
      BY <3>1 DEF NewTx
    <3>2. QED
      BY <2>1, <3>1
  <2>3. OnlyFunded /\ \A h \in Hash : Exists(h) => tx[h].amount = Paid[h]
    BY <2>2, DepositAssumption DEF OnlyFunded, Exists
  <2>4. balance[MASTER] = Sum(tx, {h \in Hash : Exists(h)})
    BY <1>1, <2>3, FundedBooks, DepositAssumption
  <2>5. UnitsIn(tx, {h \in Hash : Exists(h)})
          = UNION {{h} \X (1 .. Paid[h]) : h \in {g \in Hash : Exists(g)}}
    BY <2>3 DEF UnitsIn
  <2>6. QED
    BY <2>1, <2>4, <2>5 DEF Sum, CreditFollowsDeposit
<1>2. QED
  BY <1>1, DepositInvariant, PTL
=============================================================================
