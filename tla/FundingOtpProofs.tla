-------------------------- MODULE FundingOtpProofs --------------------------
(***************************************************************************)
(* The invariant of FundingOtp, for any requests for funding, handlers,     *)
(* amounts and attempts.  The columns of a row are overwritten by handlers   *)
(* that read it long before; what is stable, and carries the proof, is that  *)
(* the amount of a row never changes and that a posted funding stays.        *)
(***************************************************************************)
EXTENDS FundingOtp, LedgerProofs

StateType ==
  /\ otp \in [Otp -> FundingRow \cup {NoOtp}]
  /\ handler \in [Request -> Running \cup {Idle}]

\* The row of a request for funding and its ledger transaction t.
RowIn(row, t) ==
  /\ t # NoTx => row # NoOtp /\ t = NewTx(FUNDING, "POSTED", NoTrader, row.amount)
  /\ row # NoOtp /\ (row.status = "VERIFIED" \/ row.movement) => t # NoTx

\* What a handler h knows of the rows O and of the ledger transactions T.
KnowsIn(h, O, T) ==
  h.pc # "idle" =>
    /\ O[h.otp] # NoOtp
    /\ h.pc \in {"check", "lookup", "insert", "confirm", "rewrite"} =>
         h.seen \in FundingRow /\ h.seen.amount = O[h.otp].amount
    /\ h.pc = "confirm" => T[h.otp] # NoTx
    /\ h.pc = "done" /\ h.result = "funded" => T[h.otp] # NoTx

OtpInv ==
  /\ StateType
  /\ \A o \in Otp : RowIn(otp[o], tx[o])
  /\ \A r \in Request : KnowsIn(handler[r], otp, tx)

\* What a step leaves true of rows and transactions, whoever knows it.
Stable(O, T, O2, T2) ==
  \A o \in Otp : /\ O[o] # NoOtp => O2[o] # NoOtp /\ O2[o].amount = O[o].amount
                 /\ T[o] # NoTx => T2[o] # NoTx

-----------------------------------------------------------------------------
(* Rows and handlers *)

\* What a handler knows stays true.
LEMMA StillKnows ==
  ASSUME NEW O, NEW T, NEW O2, NEW T2, Stable(O, T, O2, T2),
         NEW h \in Running \cup {Idle}, KnowsIn(h, O, T)
  PROVE  KnowsIn(h, O2, T2)
<1>1. h.pc # "idle" => h.otp \in Otp
  BY DEF Running, Idle
<1>2. QED
  BY <1>1 DEF Stable, KnowsIn

\* A row is not the absence of one.
LEMMA RowIsThere == NoOtp \notin FundingRow
BY DEF NoOtp, FundingRow

\* A handler that has started is one of Running.
LEMMA Started ==
  ASSUME StateType, NEW r \in Request, handler[r].pc # "idle"
  PROVE  handler[r] \in Running /\ RowOf(r) \in Otp
<1>1. handler[r] \in Running
  BY DEF StateType, Idle
<1>2. QED
  BY <1>1 DEF Running, RowOf

\* One handler goes on as n, and what the others know stays true.
LEMMA MoveInv ==
  ASSUME OtpInv, NEW r \in Request, NEW n \in Running, handler' = [handler EXCEPT ![r] = n],
         otp' \in [Otp -> FundingRow \cup {NoOtp}], Stable(otp, tx, otp', tx'),
         \A o \in Otp : RowIn(otp'[o], tx'[o]),
         KnowsIn(n, otp', tx')
  PROVE  OtpInv'
<1>1. /\ handler' \in [Request -> Running \cup {Idle}] /\ handler'[r] = n
      /\ \A q \in Request \ {r} : handler'[q] = handler[q]
  BY DEF OtpInv, StateType
<1>2. \A q \in Request : handler[q] \in Running \cup {Idle} /\ KnowsIn(handler[q], otp, tx)
  BY DEF OtpInv, StateType
<1>3. \A q \in Request : KnowsIn(handler[q], otp', tx')
  BY <1>2, StillKnows
<1>4. \A q \in Request : KnowsIn(handler'[q], otp', tx')
  BY <1>1, <1>3
<1>5. QED
  BY <1>1, <1>4 DEF OtpInv, StateType

\* A step of one handler only.
LEMMA OnlyMovesInv ==
  ASSUME OtpInv, NEW r \in Request, NEW n \in Running, handler' = [handler EXCEPT ![r] = n],
         UNCHANGED <<otp, tx>>, KnowsIn(n, otp, tx)
  PROVE  OtpInv'
<1>1. otp' \in [Otp -> FundingRow \cup {NoOtp}] /\ \A o \in Otp : RowIn(otp'[o], tx'[o])
  BY DEF OtpInv, StateType
<1>2. Stable(otp, tx, otp', tx') /\ KnowsIn(n, otp', tx')
  BY DEF Stable
<1>3. QED
  BY <1>1, <1>2, MoveInv

\* A row is written that keeps its amount, and is verified only when it is funded.
WritesRow(o, row) ==
  /\ otp' = [otp EXCEPT ![o] = row] /\ UNCHANGED tx
  /\ row \in FundingRow
  /\ otp[o] # NoOtp => row.amount = otp[o].amount
  /\ row.status = "VERIFIED" \/ row.movement => tx[o] # NoTx

\* It leaves the rows right and what is known stable.
LEMMA RowWritten ==
  ASSUME OtpInv, NEW o \in Otp, NEW row, WritesRow(o, row)
  PROVE  /\ otp' \in [Otp -> FundingRow \cup {NoOtp}]
         /\ Stable(otp, tx, otp', tx')
         /\ \A p \in Otp : RowIn(otp'[p], tx'[p])
<1>1. /\ otp' \in [Otp -> FundingRow \cup {NoOtp}] /\ otp'[o] = row
      /\ \A p \in Otp \ {o} : otp'[p] = otp[p]
  BY DEF OtpInv, StateType, WritesRow
<1>2. row # NoOtp /\ tx' = tx
  BY RowIsThere DEF WritesRow
<1>3. Stable(otp, tx, otp', tx')
  BY <1>1, <1>2 DEF Stable, WritesRow
<1>4. RowIn(row, tx[o])
  BY <1>2 DEF OtpInv, RowIn, WritesRow
<1>5. \A p \in Otp : RowIn(otp'[p], tx'[p])
  BY <1>1, <1>2, <1>4 DEF OtpInv
<1>6. QED
  BY <1>1, <1>3, <1>5

\* A row is written outside of the handlers.
LEMMA RowOnlyInv ==
  ASSUME OtpInv, NEW o \in Otp, NEW row, WritesRow(o, row), UNCHANGED handler
  PROVE  OtpInv'
<1>1. \A q \in Request : handler[q] \in Running \cup {Idle} /\ KnowsIn(handler[q], otp, tx)
  BY DEF OtpInv, StateType
<1>2. \A q \in Request : KnowsIn(handler[q], otp', tx')
  BY <1>1, RowWritten, StillKnows
<1>3. QED
  BY <1>2, RowWritten DEF OtpInv, StateType

\* A handler writes a row and answers.
LEMMA RowAnswerInv ==
  ASSUME OtpInv, NEW r \in Request, handler[r].pc # "idle", NEW o \in Otp, RowOf(r) = o,
         NEW row, WritesRow(o, row),
         NEW result \in {"funded", "resent", "refused", "error", "lost"}, Answer(r, result),
         result = "funded" => tx[o] # NoTx
  PROVE  OtpInv'
<1> DEFINE n == [handler[r] EXCEPT !.pc = "done", !.result = result]
<1>1. StateType /\ handler[r] \in Running
  BY Started DEF OtpInv
<1>2. n \in Running /\ n.pc = "done" /\ n.otp = o /\ n.result = result
  BY <1>1 DEF Running, RowOf
<1>3. handler' = [handler EXCEPT ![r] = n]
  BY <1>1 DEF Answer, StateType
<1>4. otp'[o] # NoOtp /\ tx' = tx
  BY <1>1, RowIsThere DEF WritesRow, StateType
<1> HIDE DEF n
<1>5. KnowsIn(n, otp', tx')
  BY <1>2, <1>4 DEF KnowsIn
<1>6. QED
  BY <1>2, <1>3, <1>5, RowWritten, MoveInv

\* A handler answers, and nothing else happens.
LEMMA AnswerInv ==
  ASSUME OtpInv, NEW r \in Request, handler[r].pc # "idle", NEW o \in Otp, RowOf(r) = o,
         NEW result \in {"funded", "resent", "refused", "error", "lost"}, Answer(r, result),
         result = "funded" => tx[o] # NoTx, UNCHANGED <<otp, tx>>
  PROVE  OtpInv'
<1> DEFINE n == [handler[r] EXCEPT !.pc = "done", !.result = result]
<1>1. StateType /\ handler[r] \in Running
  BY Started DEF OtpInv
<1>2. n \in Running /\ n.pc = "done" /\ n.otp = o /\ n.result = result
  BY <1>1 DEF Running, RowOf
<1>3. handler' = [handler EXCEPT ![r] = n]
  BY <1>1 DEF Answer, StateType
<1>4. otp[o] # NoOtp
  BY DEF OtpInv, KnowsIn, RowOf
<1> HIDE DEF n
<1>5. KnowsIn(n, otp, tx)
  BY <1>2, <1>4 DEF KnowsIn
<1>6. QED
  BY <1>2, <1>3, <1>5, OnlyMovesInv

\* A handler at work goes to its next place.
LEMMA GotoInv ==
  ASSUME OtpInv, NEW r \in Request, handler[r].pc \in {"check", "lookup", "insert"},
         NEW pc \in {"lookup", "insert", "confirm"}, Goto(r, pc),
         pc = "confirm" => tx[RowOf(r)] # NoTx, UNCHANGED <<otp, tx>>
  PROVE  OtpInv'
<1> DEFINE n == [handler[r] EXCEPT !.pc = pc]
<1>1. StateType /\ handler[r] \in Running /\ KnowsIn(handler[r], otp, tx)
  BY Started DEF OtpInv
<1>2. n \in Running /\ n.pc = pc /\ n.otp = RowOf(r) /\ n.seen = handler[r].seen
  BY <1>1 DEF Running, RowOf
<1>3. handler' = [handler EXCEPT ![r] = n]
  BY <1>1 DEF Goto, StateType
<1> HIDE DEF n
<1>4. KnowsIn(n, otp, tx)
  BY <1>1, <1>2 DEF KnowsIn, RowOf
<1>5. QED
  BY <1>2, <1>3, <1>4, OnlyMovesInv

-----------------------------------------------------------------------------
(* The steps *)

\* The first state.
LEMMA OtpInitInv == OtpInit => OtpInv
<1> SUFFICES ASSUME OtpInit PROVE OtpInv
  OBVIOUS
<1>1. /\ \A o \in Otp : otp[o] = NoOtp /\ tx[o] = NoTx
      /\ \A r \in Request : handler[r] = Idle
  BY OtpAssumption DEF OtpInit, LedgerInit
<1>2. StateType
  BY DEF OtpInit, StateType
<1>3. QED
  BY <1>1, <1>2 DEF OtpInv, RowIn, KnowsIn, Idle

\* A new row is PENDING.
LEMMA RequestInv ==
  ASSUME OtpInv, NEW o \in Otp, NEW a \in Amount, RequestFunding(o, a)
  PROVE  OtpInv'
<1> DEFINE row == [status |-> "PENDING", attempts |-> 0, code |-> 1,
                   expired |-> FALSE, amount |-> a, movement |-> FALSE]
<1>1. row \in FundingRow /\ row.status = "PENDING" /\ row.movement = FALSE
  BY OtpAssumption DEF FundingRow, Codes
<1>2. otp' = [otp EXCEPT ![o] = row] /\ UNCHANGED tx /\ otp[o] = NoOtp /\ UNCHANGED handler
  BY DEF RequestFunding, ledgerVars
<1> HIDE DEF row
<1>3. WritesRow(o, row)
  BY <1>1, <1>2 DEF WritesRow
<1>4. QED
  BY <1>2, <1>3, RowOnlyInv

\* expires_at is no column that the proof looks at.
LEMMA ExpireInv ==
  ASSUME OtpInv, NEW o \in Otp, Expire(o)
  PROVE  OtpInv'
<1> DEFINE row == [otp[o] EXCEPT !.expired = TRUE]
<1>1. otp[o] \in FundingRow
  BY DEF OtpInv, StateType, Expire
<1>2. /\ row \in FundingRow /\ row.amount = otp[o].amount
      /\ row.status = otp[o].status /\ row.movement = otp[o].movement
  BY <1>1 DEF FundingRow
<1>3. otp' = [otp EXCEPT ![o] = row] /\ UNCHANGED tx /\ otp[o] # NoOtp /\ UNCHANGED handler
  BY <1>1 DEF Expire, ledgerVars, OtpInv, StateType
<1> HIDE DEF row
<1>4. WritesRow(o, row)
  BY <1>2, <1>3 DEF WritesRow, OtpInv, RowIn
<1>5. QED
  BY <1>3, <1>4, RowOnlyInv

\* A call that starts finds its row.
LEMMA StartInv ==
  ASSUME OtpInv, NEW r \in Request, NEW op \in {"verify", "resend"}, NEW o \in Otp, NEW c \in Codes,
         Start(r, op, o, c)
  PROVE  OtpInv'
<1> DEFINE n == [pc |-> "read", op |-> op, otp |-> o, code |-> c, seen |-> NoOtp, result |-> "none"]
<1>1. n \in Running /\ n.pc = "read" /\ n.otp = o
  BY DEF Running
<1>2. handler' = [handler EXCEPT ![r] = n] /\ UNCHANGED <<otp, tx>> /\ otp[o] # NoOtp
  BY DEF Start, ledgerVars
<1> HIDE DEF n
<1>3. KnowsIn(n, otp, tx)
  BY <1>1, <1>2 DEF KnowsIn
<1>4. QED
  BY <1>1, <1>2, <1>3, OnlyMovesInv

\* What is read is a row, with the amount it will always have.
LEMMA ReadInv ==
  ASSUME OtpInv, NEW r \in Request, Read(r)
  PROVE  OtpInv'
<1>1. handler[r].pc = "read" /\ UNCHANGED <<otp, tx>> /\ StateType
  BY DEF Read, At, ledgerVars, OtpInv
<1> PICK o \in Otp : RowOf(r) = o
  BY <1>1, Started
<1>2. otp[o] # NoOtp /\ otp[o] \in FundingRow /\ handler[r] \in Running
  BY <1>1, Started DEF OtpInv, KnowsIn, RowOf, StateType
<1>3. CASE /\ otp[o].status = "VERIFIED"
           /\ Answer(r, IF handler[r].op = "verify" THEN "funded" ELSE "refused")
  <2>1. tx[o] # NoTx
    BY <1>2, <1>3 DEF OtpInv, RowIn
  <2>2. CASE handler[r].op = "verify"
    <3>1. Answer(r, "funded")
      BY <1>3, <2>2
    <3>2. QED
      BY <1>1, <2>1, <3>1, AnswerInv
  <2>3. CASE handler[r].op # "verify"
    <3>1. Answer(r, "refused")
      BY <1>3, <2>3
    <3>2. QED
      BY <1>1, <3>1, AnswerInv
  <2>4. QED
    BY <2>2, <2>3
<1>4. CASE Answer(r, "refused")
  BY <1>1, <1>4, AnswerInv
<1>5. ASSUME NEW pc \in {"check", "rewrite"},
             handler' = [handler EXCEPT ![r].pc = pc, ![r].seen = otp[o]]
      PROVE  OtpInv'
  <2> DEFINE n == [handler[r] EXCEPT !.pc = pc, !.seen = otp[o]]
  <2>1. n \in Running /\ n.pc = pc /\ n.otp = o /\ n.seen = otp[o]
    BY <1>2 DEF Running, RowOf
  <2>2. handler' = [handler EXCEPT ![r] = n]
    BY <1>1, <1>5 DEF StateType
  <2> HIDE DEF n
  <2>3. KnowsIn(n, otp, tx)
    BY <1>2, <2>1 DEF KnowsIn
  <2>4. QED
    BY <1>1, <2>1, <2>2, <2>3, OnlyMovesInv
<1>6. CASE handler' = [handler EXCEPT ![r].pc = IF handler[r].op = "verify" THEN "check" ELSE "rewrite",
                                      ![r].seen = otp[o]]
  <2>1. (IF handler[r].op = "verify" THEN "check" ELSE "rewrite") \in {"check", "rewrite"}
    OBVIOUS
  <2>2. QED
    BY <1>5, <1>6, <2>1
<1>7. QED
  BY <1>3, <1>4, <1>6 DEF Read

\* A row that is cancelled is not verified.
LEMMA CancelInv ==
  ASSUME OtpInv, NEW r \in Request, VerifyCancel(r)
  PROVE  OtpInv'
<1>1. handler[r].pc = "check" /\ UNCHANGED tx /\ StateType /\ Answer(r, "refused")
  BY DEF VerifyCancel, At, ledgerVars, OtpInv
<1> PICK o \in Otp : RowOf(r) = o
  BY <1>1, Started
<1> DEFINE row == [otp[o] EXCEPT !.status = "CANCELLED"]
<1>2. otp[o] # NoOtp /\ otp[o] \in FundingRow
  BY <1>1 DEF OtpInv, KnowsIn, RowOf, StateType
<1>3. /\ row \in FundingRow /\ row.amount = otp[o].amount
      /\ row.status = "CANCELLED" /\ row.movement = otp[o].movement
  BY <1>2 DEF FundingRow
<1>4. otp' = [otp EXCEPT ![o] = row]
  BY <1>1 DEF VerifyCancel, StateType
<1> HIDE DEF row
<1>5. WritesRow(o, row)
  BY <1>1, <1>2, <1>3, <1>4 DEF WritesRow, OtpInv, RowIn
<1>6. QED
  BY <1>1, <1>5, RowAnswerInv

\* A wrong code: the attempts stay within their bound, whatever the counter was meanwhile.
LEMMA WrongInv ==
  ASSUME OtpInv, NEW r \in Request, VerifyWrong(r)
  PROVE  OtpInv'
<1>1. handler[r].pc = "check" /\ UNCHANGED tx /\ StateType /\ Answer(r, "refused")
  BY DEF VerifyWrong, At, ledgerVars, OtpInv
<1> PICK o \in Otp : RowOf(r) = o
  BY <1>1, Started
<1>2. otp[o] # NoOtp /\ otp[o] \in FundingRow /\ Seen(r) \in FundingRow
  BY <1>1 DEF OtpInv, KnowsIn, RowOf, Seen, StateType
<1> PICK attempts \in 0 .. MaxAttempts : attempts = Seen(r).attempts + 1
  <2>1. Seen(r).attempts \in Nat /\ Seen(r).attempts < MaxAttempts
    BY <1>2 DEF FundingRow, VerifyWrong
  <2>2. QED
    BY <2>1, OtpAssumption
<1> DEFINE status == IF attempts >= MaxAttempts THEN "CANCELLED" ELSE otp[o].status
           row == [otp[o] EXCEPT !.attempts = attempts, !.status = status]
<1>3. status \in {"PENDING", "VERIFIED", "CANCELLED"} /\ (status = "VERIFIED" => otp[o].status = "VERIFIED")
  BY <1>2 DEF FundingRow
<1>4. otp' = [otp EXCEPT ![o] = row]
  BY <1>1, <1>2 DEF VerifyWrong, StateType, FundingRow
<1> HIDE DEF status
<1>5. /\ row \in FundingRow /\ row.amount = otp[o].amount
      /\ row.status = status /\ row.movement = otp[o].movement
  BY <1>2, <1>3 DEF FundingRow
<1> HIDE DEF row
<1>6. WritesRow(o, row)
  BY <1>1, <1>2, <1>3, <1>4, <1>5 DEF WritesRow, OtpInv, RowIn
<1>7. QED
  BY <1>1, <1>6, RowAnswerInv

\* The right code: the handler goes on to the ledger.
LEMMA RightInv ==
  ASSUME OtpInv, NEW r \in Request, VerifyRight(r)
  PROVE  OtpInv'
<1>1. handler[r].pc = "check" /\ UNCHANGED <<otp, tx>> /\ Goto(r, "lookup")
  BY DEF VerifyRight, At, ledgerVars
<1>2. QED
  BY <1>1, GotoInv

\* The look at the ledger.
LEMMA LookupInv ==
  ASSUME OtpInv, NEW r \in Request, Lookup(r)
  PROVE  OtpInv'
<1>1. handler[r].pc = "lookup" /\ UNCHANGED <<otp, tx>>
  BY DEF Lookup, At, ledgerVars
<1>2. CASE Exists(RowOf(r)) /\ Goto(r, "confirm")
  BY <1>1, <1>2, GotoInv DEF Exists
<1>3. CASE Goto(r, "insert")
  BY <1>1, <1>3, GotoInv
<1>4. CASE Exists(RowOf(r))
  BY <1>2, <1>4 DEF Lookup
<1>5. CASE ~Exists(RowOf(r))
  BY <1>3, <1>5 DEF Lookup
<1>6. QED
  BY <1>4, <1>5

\* The funding: the amount that was read is the amount of the row.
LEMMA InsertInv ==
  ASSUME OtpInv, LedgerInv, NEW r \in Request, Insert(r)
  PROVE  /\ OtpInv'
         /\ UNCHANGED ledgerVars \/ \E k \in TxKey, a \in Amount : FundMasterAccount(k, a)
<1>1. handler[r].pc = "insert" /\ UNCHANGED otp /\ StateType
  BY DEF Insert, At, OtpInv
<1> PICK o \in Otp : RowOf(r) = o
  BY <1>1, Started
<1>2. /\ otp[o] # NoOtp /\ otp[o] \in FundingRow /\ handler[r] \in Running
      /\ Seen(r).amount = otp[o].amount /\ otp[o].amount \in Amount
  BY <1>1, Started DEF OtpInv, KnowsIn, RowOf, Seen, StateType, FundingRow
<1>3. CASE Answer(r, "error") /\ UNCHANGED ledgerVars
  BY <1>1, <1>3, AnswerInv DEF ledgerVars
<1>4. CASE FundMasterAccount(o, Seen(r).amount) /\ Goto(r, "confirm")
  <2> DEFINE a == otp[o].amount
             t == NewTx(FUNDING, "POSTED", NoTrader, a)
             n == [handler[r] EXCEPT !.pc = "confirm"]
  <2>1. FundMasterAccount(o, a) /\ tx[o] = NoTx /\ tx' = [tx EXCEPT ![o] = t]
    BY <1>2, <1>4 DEF FundMasterAccount, Exists, FUNDING
  <2>2. t # NoTx
    BY DEF NewTx, NoTx
  <2>3. tx \in [Otp -> Transaction \cup {NoTx}]
    BY OtpAssumption DEF LedgerInv, Inv, TxInv, Txs
  <2>4. tx'[o] = t /\ \A p \in Otp \ {o} : tx'[p] = tx[p]
    BY <2>1, <2>3
  <2>5. Stable(otp, tx, otp', tx')
    BY <1>1, <2>2, <2>4 DEF Stable
  <2>6. \A p \in Otp : RowIn(otp'[p], tx'[p])
    BY <1>1, <1>2, <2>2, <2>4 DEF OtpInv, RowIn
  <2>7. n \in Running /\ n.pc = "confirm" /\ n.otp = o /\ n.seen = handler[r].seen
    BY <1>2 DEF Running, RowOf
  <2>8. handler' = [handler EXCEPT ![r] = n]
    BY <1>1, <1>4 DEF Goto, StateType
  <2>9. otp' \in [Otp -> FundingRow \cup {NoOtp}] /\ a \in Amount
    BY <1>1, <1>2 DEF StateType
  <2> HIDE DEF n, t
  <2>10. KnowsIn(n, otp', tx')
    BY <1>1, <1>2, <2>2, <2>4, <2>7 DEF KnowsIn, OtpInv, RowOf
  <2>11. OtpInv'
    BY <2>5, <2>6, <2>7, <2>8, <2>9, <2>10, MoveInv
  <2>12. QED
    BY <2>1, <2>9, <2>11, OtpAssumption
<1>5. QED
  BY <1>3, <1>4 DEF Insert

\* The row is confirmed after its funding.
LEMMA ConfirmInv ==
  ASSUME OtpInv, NEW r \in Request, Confirm(r)
  PROVE  OtpInv'
<1>1. handler[r].pc = "confirm" /\ UNCHANGED tx /\ StateType /\ Answer(r, "funded")
  BY DEF Confirm, At, ledgerVars, OtpInv
<1> PICK o \in Otp : RowOf(r) = o
  BY <1>1, Started
<1> DEFINE row == [otp[o] EXCEPT !.status = "VERIFIED", !.movement = TRUE]
<1>2. otp[o] # NoOtp /\ otp[o] \in FundingRow /\ tx[o] # NoTx
  BY <1>1 DEF OtpInv, KnowsIn, RowOf, StateType
<1>3. row \in FundingRow /\ row.amount = otp[o].amount
  BY <1>2 DEF FundingRow
<1>4. otp' = [otp EXCEPT ![o] = row]
  BY <1>1 DEF Confirm, StateType
<1> HIDE DEF row
<1>5. WritesRow(o, row)
  BY <1>1, <1>2, <1>3, <1>4 DEF WritesRow
<1>6. QED
  BY <1>1, <1>2, <1>5, RowAnswerInv

\* A new code: the row is PENDING, or stays what it is.
LEMMA ResendInv ==
  ASSUME OtpInv, NEW r \in Request, Resend(r)
  PROVE  OtpInv'
<1>1. handler[r].pc = "rewrite" /\ UNCHANGED tx /\ StateType /\ Answer(r, "resent")
  BY DEF Resend, At, ledgerVars, OtpInv
<1> PICK o \in Otp : RowOf(r) = o
  BY <1>1, Started
<1>2. otp[o] # NoOtp /\ otp[o] \in FundingRow /\ otp[o].code < MaxCodes
  BY <1>1 DEF OtpInv, KnowsIn, RowOf, StateType, Resend
<1> DEFINE status == IF Seen(r).status = "PENDING" THEN otp[o].status ELSE "PENDING"
           attempts == IF Seen(r).attempts = 0 THEN otp[o].attempts ELSE 0
           code == otp[o].code + 1
           row == [otp[o] EXCEPT !.code = code, !.expired = FALSE, !.attempts = attempts,
                                 !.status = status]
<1>3. /\ status \in {"PENDING", "VERIFIED", "CANCELLED"} /\ attempts \in 0 .. MaxAttempts
      /\ code \in Codes \ {0} /\ (status = "VERIFIED" => otp[o].status = "VERIFIED")
  BY <1>2, OtpAssumption DEF FundingRow, Codes
<1>4. otp' = [otp EXCEPT ![o] = row]
  BY <1>1, <1>2 DEF Resend, StateType, FundingRow
<1> HIDE DEF status, attempts, code
<1>5. /\ row \in FundingRow /\ row.amount = otp[o].amount
      /\ row.status = status /\ row.movement = otp[o].movement
  BY <1>2, <1>3 DEF FundingRow
<1> HIDE DEF row
<1>6. WritesRow(o, row)
  BY <1>1, <1>2, <1>3, <1>4, <1>5 DEF WritesRow, OtpInv, RowIn
<1>7. QED
  BY <1>1, <1>6, RowAnswerInv

\* A handler that dies leaves what it wrote.
LEMMA AbandonInv ==
  ASSUME OtpInv, NEW r \in Request, Abandon(r)
  PROVE  OtpInv'
<1>1. handler[r].pc # "idle" /\ UNCHANGED <<otp, tx>> /\ Answer(r, "lost") /\ StateType
  BY DEF Abandon, ledgerVars, OtpInv
<1> PICK o \in Otp : RowOf(r) = o
  BY <1>1, Started
<1>2. QED
  BY <1>1, AnswerInv

\* Every step keeps the invariant, and is a funding of the ledger or none of its
\* operations.
LEMMA OtpStepInv ==
  ASSUME OtpInv, LedgerInv, [OtpNext]_otpVars
  PROVE  /\ OtpInv'
         /\ UNCHANGED ledgerVars \/ \E k \in TxKey, a \in Amount : FundMasterAccount(k, a)
<1>1. CASE UNCHANGED otpVars
  BY <1>1 DEF otpVars, ledgerVars, OtpInv, StateType
<1>2. ASSUME NEW o \in Otp, Expire(o) \/ \E a \in Amount : RequestFunding(o, a)
      PROVE  OtpInv' /\ UNCHANGED ledgerVars
  BY <1>2, ExpireInv, RequestInv DEF Expire, RequestFunding
<1>3. ASSUME NEW r \in Request, \/ \E o \in Otp, c \in Codes : Start(r, "verify", o, c)
                                \/ \E o \in Otp : Start(r, "resend", o, 0)
      PROVE  OtpInv' /\ UNCHANGED ledgerVars
  <2>1. 0 \in Codes
    BY OtpAssumption DEF Codes
  <2>2. QED
    BY <1>3, <2>1, StartInv DEF Start
<1>4. ASSUME NEW r \in Request,
             \/ Read(r) \/ VerifyCancel(r) \/ VerifyWrong(r) \/ VerifyRight(r)
             \/ Lookup(r) \/ Confirm(r) \/ Resend(r) \/ Abandon(r)
      PROVE  OtpInv' /\ UNCHANGED ledgerVars
  BY <1>4, ReadInv, CancelInv, WrongInv, RightInv, LookupInv, ConfirmInv, ResendInv, AbandonInv
     DEF Read, VerifyCancel, VerifyWrong, VerifyRight, Lookup, Confirm, Resend, Abandon
<1>5. QED
  BY <1>1, <1>2, <1>3, <1>4, InsertInv DEF OtpNext

\* The ledger under the requests for funding.
LEMMA OtpInvariant == OtpSpec => [](OtpInv /\ LedgerInv)
<1>1. OtpInit => OtpInv /\ LedgerInv
  BY OtpInitInv, InitInv DEF OtpInit
<1>2. OtpInv /\ LedgerInv /\ [OtpNext]_otpVars => OtpInv' /\ LedgerInv'
  <2> SUFFICES ASSUME OtpInv, LedgerInv, [OtpNext]_otpVars
               PROVE  OtpInv' /\ LedgerInv'
    OBVIOUS
  <2>1. CASE UNCHANGED ledgerVars
    BY <2>1, OtpStepInv DEF LedgerInv, ledgerVars
  <2>2. CASE \E k \in TxKey, a \in Amount : FundMasterAccount(k, a)
    BY <2>2, OtpStepInv, FundInv
  <2>3. QED
    BY <2>1, <2>2, OtpStepInv
<1>3. QED
  BY <1>1, <1>2, PTL DEF OtpSpec

-----------------------------------------------------------------------------
(* The theorems *)

\* Type correctness.
THEOREM OtpTypeCorrect == OtpSpec => []OtpTypeOK
<1>1. OtpInv /\ LedgerInv => OtpTypeOK
  BY InvMeaning DEF OtpInv, StateType, OtpTypeOK
<1>2. QED
  BY <1>1, OtpInvariant, PTL

\* A row that is VERIFIED and a verification that succeeded have their money.
THEOREM VerifiedIsPaid == OtpSpec => []VerifiedIsFunded
<1>1. OtpInv => VerifiedIsFunded
  <2> SUFFICES ASSUME OtpInv PROVE VerifiedIsFunded
    OBVIOUS
  <2>1. \A r \in Request : At(r, "done") /\ handler[r].result = "funded" => RowOf(r) \in Funded
    BY Started DEF OtpInv, KnowsIn, At, RowOf, Funded, Exists
  <2>2. QED
    BY <2>1 DEF OtpInv, RowIn, VerifiedIsFunded, Funded, Exists
<1>2. QED
  BY <1>1, OtpInvariant, PTL

\* One request for funding brings its amount in once, however its handlers
\* interleave, die and are retried.
THEOREM FundedOnce == OtpSpec => []FundsOnce
<1>1. ASSUME OtpInv, LedgerInv
      PROVE  FundsOnce
  <2>1. \A o \in Otp : Exists(o) => tx[o] = NewTx(FUNDING, "POSTED", NoTrader, otp[o].amount)
    BY <1>1 DEF OtpInv, RowIn, Exists
  <2>2. \A o \in Otp : tx[o] # NoTx =>
          tx[o].kind = FUNDING /\ tx[o].status = "POSTED" /\ tx[o].amount = otp[o].amount
    <3>1. ASSUME NEW o \in Otp, NEW t, t = NewTx(FUNDING, "POSTED", NoTrader, otp[o].amount)
          PROVE  t.kind = FUNDING /\ t.status = "POSTED" /\ t.amount = otp[o].amount
      BY <3>1 DEF NewTx
    <3>2. QED
      BY <2>1, <3>1 DEF Exists
  <2>3. OnlyFunded /\ \A o \in Otp : Exists(o) => tx[o].amount = otp[o].amount
    BY <2>2, OtpAssumption DEF OnlyFunded, Exists
  <2>4. balance[MASTER] = Sum(tx, Funded)
    BY <1>1, <2>3, FundedBooks, OtpAssumption DEF Funded
  <2>5. UnitsIn(tx, Funded) = UNION {{o} \X (1 .. otp[o].amount) : o \in Funded}
    BY <2>3 DEF UnitsIn, Funded
  <2>6. QED
    BY <2>4, <2>5 DEF Sum, FundsOnce
<1>2. QED
  BY <1>1, OtpInvariant, PTL
=============================================================================
