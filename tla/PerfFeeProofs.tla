---------------------------- MODULE PerfFeeProofs ---------------------------
(***************************************************************************)
(* The invariant of PerfFee, for any payments, strategies, clients, amounts *)
(* and passes.  A pass decides from rows it read long before it commits.     *)
(* What it read stays true, because an executed payment is final, and a row  *)
(* that has a client, or is posted, keeps both; what has changed meanwhile   *)
(* is found at the commit, by the collision on the row or on the entry.      *)
(***************************************************************************)
EXTENDS PerfFee, LedgerProofs

Listed == {"NONE", "PENDING", "EXECUTED", "FAILED"}

Running == [pc : {"fetch", "rows"}, post : BOOLEAN, todo : SUBSET Master, left : SUBSET Payment,
            booking : SUBSET Payment, list : [Payment -> Listed],
            seen : [Payment -> Fee \cup {NoFee}], now : [Payment -> Fee \cup {NoFee}]]

UnitsFor(S) == UNION {{i} \X (1 .. AmountOf[i]) : i \in S}
Booking == {i \in Payment : Exists(i)}
Charged == {i \in Payment : charged[i] # "NONE"}

\* The money of the payments in S is what the accounts of b say.
BalancesAre(b, S) ==
  /\ b[FEES] = AmountIn(S)
  /\ \A t \in Trader : b[t] = 0 - AmountFrom(S, t)

StateType ==
  /\ balance \in [LedgerAccount -> Int]
  /\ charged \in [Payment -> Listed]
  /\ known \in SUBSET Trader
  /\ fee \in [Payment -> Fee \cup {NoFee}]
  /\ pass \in [Passes -> Running \cup {Idle}]
  /\ IsFiniteSet(UnitsFor(Charged))

\* The client of a row f is the owner of the payment, one of the known clients K.
OwnerTrue(i, f, K) == f.trader # NoTrader => f.trader = OwnerOf[i] /\ OwnerOf[i] \in K

\* The entry t of a payment is that of an executed payment, and its row f is posted.
EntryTrue(i, t, f, C, K) ==
  /\ t # NoTx => /\ t = NewTx(FEE, "POSTED", OwnerOf[i], AmountOf[i])
                 /\ C[i] = "EXECUTED" /\ OwnerOf[i] \in K /\ f.trader = OwnerOf[i]
  /\ f.posted <=> t # NoTx
  /\ OwnerTrue(i, f, K)

\* What a pass c was told by the engine about a payment; C is what it would say now.
ListTrue(c, i, C) ==
  /\ c.list[i] # "NONE" => C[i] # "NONE"
  /\ c.list[i] = "EXECUTED" => C[i] = "EXECUTED"
  /\ i \in c.left => c.list[i] # "NONE" /\ c.now[i] = NoFee

\* What a pass read of a row, which is f by now: no write takes it back.
SeenTrue(seen, f) ==
  /\ seen # NoFee => f # NoFee
  /\ seen.posted => f.posted
  /\ seen.trader # NoTrader => f.trader = seen.trader

\* What a pass is to write: what is posted by it is in booking.
NowTrue(c, i, K) ==
  /\ c.now[i] = NoFee => c.seen[i] = NoFee /\ i \notin c.booking
  /\ c.now[i] # NoFee => c.now[i].status = c.list[i] /\ OwnerTrue(i, c.now[i], K)
  /\ c.seen[i].trader # NoTrader => c.now[i].trader = c.seen[i].trader
  /\ c.seen[i].posted => c.now[i].posted
  /\ i \in c.booking <=> c.now[i].posted /\ ~c.seen[i].posted
  /\ i \in c.booking => c.list[i] = "EXECUTED" /\ c.now[i].trader = OwnerOf[i]

PassTrue(c, C, K, F) ==
  c # Idle => \A i \in Payment : /\ ListTrue(c, i, C) /\ NowTrue(c, i, K)
                                 /\ SeenTrue(c.seen[i], F[i])

FeeInvariant ==
  /\ StateType
  /\ \A i \in Payment : EntryTrue(i, tx[i], fee[i], charged, known)
  /\ BalancesAre(balance, Booking)
  /\ \A p \in Passes : PassTrue(pass[p], charged, known, fee)

-----------------------------------------------------------------------------
(* Sums *)

\* The amounts are natural numbers, and the units of one payment finitely many.
LEMMA UnitsOfPayment ==
  ASSUME NEW i \in Payment
  PROVE  AmountOf[i] \in Amount /\ AmountOf[i] \in Nat
         /\ IsFiniteSet({i} \X (1 .. AmountOf[i]))
<1>1. AmountOf[i] \in Amount /\ AmountOf[i] \in Nat
  BY PerfFeeAssumption, AmountAssumption DEF Payment
<1>2. QED
  BY <1>1, UnitsOfOne

\* Sums of payments without a common member add up.
LEMMA AmountsAdd ==
  ASSUME NEW S, NEW S2, S \cap S2 = {}, IsFiniteSet(UnitsFor(S)), IsFiniteSet(UnitsFor(S2))
  PROVE  /\ AmountIn(S \cup S2) = AmountIn(S) + AmountIn(S2)
         /\ AmountIn(S) \in Nat /\ AmountIn(S2) \in Nat
<1> DEFINE A == UnitsFor(S)
           B == UnitsFor(S2)
<1>1. UnitsFor(S \cup S2) = A \cup B
  BY DEF UnitsFor
<1>2. A \cap B = {}
  BY DEF UnitsFor
<1> HIDE DEF A, B
<1>3. Cardinality(A) \in Nat /\ Cardinality(B) \in Nat /\ Cardinality(A \cap B) = 0
  BY <1>2, FS_CardinalityType, FS_EmptySet DEF A, B
<1>4. Cardinality(A \cup B) = Cardinality(A) + Cardinality(B) - Cardinality(A \cap B)
  BY FS_Union DEF A, B
<1>5. /\ AmountIn(S \cup S2) = Cardinality(A \cup B)
      /\ AmountIn(S) = Cardinality(A) /\ AmountIn(S2) = Cardinality(B)
  BY <1>1 DEF AmountIn, UnitsFor, A, B
<1>6. QED
  BY <1>3, <1>4, <1>5

\* Nothing is nothing.
LEMMA NoAmount == AmountIn({}) = 0 /\ \A t : AmountFrom({}, t) = 0
BY FS_EmptySet DEF AmountIn, AmountFrom

\* So for all payments, and for those of one client.
LEMMA AmountsOfAllAdd ==
  ASSUME NEW S \in SUBSET Payment, NEW S2 \in SUBSET Payment, S \cap S2 = {},
         IsFiniteSet(UnitsFor(S \cup S2))
  PROVE  /\ AmountIn(S \cup S2) = AmountIn(S) + AmountIn(S2)
         /\ AmountIn(S) \in Nat /\ AmountIn(S2) \in Nat
         /\ \A t : /\ AmountFrom(S \cup S2, t) = AmountFrom(S, t) + AmountFrom(S2, t)
                   /\ AmountFrom(S, t) \in Nat /\ AmountFrom(S2, t) \in Nat
<1>1. \A U \in SUBSET (S \cup S2) : IsFiniteSet(UnitsFor(U))
  <2> TAKE U \in SUBSET (S \cup S2)
  <2>1. UnitsFor(U) \subseteq UnitsFor(S \cup S2)
    BY DEF UnitsFor
  <2>2. QED
    BY <2>1, FS_Subset
<1>2. /\ AmountIn(S \cup S2) = AmountIn(S) + AmountIn(S2)
      /\ AmountIn(S) \in Nat /\ AmountIn(S2) \in Nat
  BY <1>1, AmountsAdd
<1>3. ASSUME NEW t
      PROVE  /\ AmountFrom(S \cup S2, t) = AmountFrom(S, t) + AmountFrom(S2, t)
             /\ AmountFrom(S, t) \in Nat /\ AmountFrom(S2, t) \in Nat
  <2> DEFINE O(U) == {i \in U : OwnerOf[i] = t}
  <2>1. /\ O(S \cup S2) = O(S) \cup O(S2) /\ O(S) \cap O(S2) = {}
        /\ O(S) \in SUBSET (S \cup S2) /\ O(S2) \in SUBSET (S \cup S2)
    OBVIOUS
  <2>2. \A U : AmountFrom(U, t) = AmountIn(O(U))
    BY DEF AmountFrom
  <2> HIDE DEF O
  <2>3. QED
    BY <1>1, <2>1, <2>2, AmountsAdd
<1>4. QED
  BY <1>2, <1>3

-----------------------------------------------------------------------------
(* The steps *)

\* The first state.
LEMMA PerfFeeInitInv == PerfFeeInit => FeeInvariant
<1> SUFFICES ASSUME PerfFeeInit PROVE FeeInvariant
  OBVIOUS
<1>1. /\ balance = [c \in LedgerAccount |-> 0] /\ \A i \in Payment : tx[i] = NoTx
      /\ charged = [i \in Payment |-> "NONE"] /\ known = {}
      /\ fee = [i \in Payment |-> NoFee] /\ pass = [p \in Passes |-> Idle]
  BY DEF PerfFeeInit, LedgerInit, Blank, Payment
<1>2. Charged = {} /\ Booking = {}
  BY <1>1 DEF Charged, Booking, Exists, Payment
<1>3. IsFiniteSet(UnitsFor(Charged))
  BY <1>2, FS_EmptySet DEF UnitsFor
<1>4. StateType
  BY <1>1, <1>3 DEF StateType, Listed
<1>5. \A i \in Payment : EntryTrue(i, tx[i], fee[i], charged, known)
  BY <1>1 DEF EntryTrue, OwnerTrue, NoFee
<1>6. BalancesAre(balance, Booking)
  BY <1>1, <1>2, NoAmount, Accounts DEF BalancesAre
<1>7. \A p \in Passes : PassTrue(pass[p], charged, known, fee)
  BY <1>1 DEF PassTrue
<1>8. QED
  BY <1>4, <1>5, <1>6, <1>7 DEF FeeInvariant

\* What steps of others leave true of what a pass knows.
Stable(C, K, F, C2, K2, F2) ==
  \A i \in Payment :
    /\ C[i] # "NONE" => C2[i] # "NONE"
    /\ C[i] = "EXECUTED" => C2[i] = "EXECUTED"
    /\ OwnerOf[i] \in K => OwnerOf[i] \in K2
    /\ F[i] # NoFee => F2[i] # NoFee
    /\ F[i].posted => F2[i].posted
    /\ F[i].trader # NoTrader => F2[i].trader = F[i].trader

\* A pass goes on knowing what it knew.
LEMMA StillTrue ==
  ASSUME NEW c, NEW C, NEW K, NEW F, NEW C2, NEW K2, NEW F2,
         Stable(C, K, F, C2, K2, F2), PassTrue(c, C, K, F)
  PROVE  PassTrue(c, C2, K2, F2)
<1> SUFFICES ASSUME c # Idle, NEW i \in Payment
             PROVE  ListTrue(c, i, C2) /\ NowTrue(c, i, K2) /\ SeenTrue(c.seen[i], F2[i])
  BY DEF PassTrue
<1>1. ListTrue(c, i, C) /\ NowTrue(c, i, K) /\ SeenTrue(c.seen[i], F[i])
  BY DEF PassTrue
<1>2. ListTrue(c, i, C2)
  BY <1>1 DEF ListTrue, Stable
<1>3. NowTrue(c, i, K2)
  BY <1>1 DEF NowTrue, OwnerTrue, Stable
<1>4. SeenTrue(c.seen[i], F2[i])
  BY <1>1 DEF SeenTrue, Stable
<1>5. QED
  BY <1>2, <1>3, <1>4

\* A charge of the engine: an executed payment is final.
LEMMA ChargeInv ==
  ASSUME FeeInvariant, NEW i \in Payment, Charge(i)
  PROVE  FeeInvariant'
<1>1. PICK s \in Listed : /\ charged' = [charged EXCEPT ![i] = s]
                          /\ s # "NONE" /\ charged[i] # "EXECUTED"
  BY DEF Charge, Listed
<1>2. UNCHANGED <<ledgerVars, known, fee, pass>>
  BY DEF Charge
<1>3. /\ charged' \in [Payment -> Listed] /\ charged'[i] = s
      /\ \A j \in Payment \ {i} : charged'[j] = charged[j]
  BY <1>1 DEF FeeInvariant, StateType
<1>4. Stable(charged, known, fee, charged', known', fee')
  BY <1>1, <1>2, <1>3 DEF Stable
<1>5. IsFiniteSet(UnitsFor(Charged'))
  <2> DEFINE A == UnitsFor(Charged)
             B == {i} \X (1 .. AmountOf[i])
  <2>1. Charged' = Charged \cup {i}
    BY <1>1, <1>3 DEF Charged
  <2>2. UnitsFor(Charged') = A \cup B
    BY <2>1 DEF UnitsFor
  <2>3. IsFiniteSet(A) /\ IsFiniteSet(B)
    BY UnitsOfPayment DEF FeeInvariant, StateType
  <2> HIDE DEF A, B
  <2>4. IsFiniteSet(A \cup B)
    BY <2>3, FS_Union
  <2>5. QED
    BY <2>2, <2>4
<1>6. StateType'
  BY <1>2, <1>3, <1>5 DEF FeeInvariant, StateType, ledgerVars, UnitsFor
<1>7. \A j \in Payment : EntryTrue(j, tx'[j], fee'[j], charged', known')
  BY <1>1, <1>2, <1>3 DEF FeeInvariant, EntryTrue, OwnerTrue, ledgerVars
<1>8. BalancesAre(balance', Booking')
  BY <1>2 DEF FeeInvariant, Booking, Exists, ledgerVars
<1>9. \A p \in Passes : PassTrue(pass'[p], charged', known', fee')
  BY <1>2, <1>4, StillTrue DEF FeeInvariant
<1>10. QED
  BY <1>6, <1>7, <1>8, <1>9 DEF FeeInvariant

\* An account is imported.
LEMMA ImportInv ==
  ASSUME FeeInvariant, NEW t \in Trader, ImportAccount(t)
  PROVE  FeeInvariant'
<1>1. known' = known \cup {t} /\ UNCHANGED <<ledgerVars, charged, fee, pass>>
  BY DEF ImportAccount
<1>2. Stable(charged, known, fee, charged', known', fee')
  BY <1>1 DEF Stable
<1>3. StateType'
  BY <1>1 DEF FeeInvariant, StateType, ledgerVars, UnitsFor, Charged
<1>4. \A j \in Payment : EntryTrue(j, tx'[j], fee'[j], charged', known')
  BY <1>1 DEF FeeInvariant, EntryTrue, OwnerTrue, ledgerVars
<1>5. BalancesAre(balance', Booking')
  BY <1>1 DEF FeeInvariant, Booking, Exists, ledgerVars
<1>6. \A p \in Passes : PassTrue(pass'[p], charged', known', fee')
  BY <1>1, <1>2, StillTrue DEF FeeInvariant
<1>7. QED
  BY <1>3, <1>4, <1>5, <1>6 DEF FeeInvariant

\* One pass goes on as n, and nothing else happens.
LEMMA PassMovesInv ==
  ASSUME FeeInvariant, NEW p \in Passes, NEW n \in Running \cup {Idle},
         pass' = [pass EXCEPT ![p] = n], UNCHANGED <<ledgerVars, charged, known, fee>>,
         PassTrue(n, charged, known, fee)
  PROVE  FeeInvariant'
<1>1. /\ pass' \in [Passes -> Running \cup {Idle}] /\ pass'[p] = n
      /\ \A q \in Passes \ {p} : pass'[q] = pass[q]
  BY DEF FeeInvariant, StateType
<1>2. StateType'
  BY <1>1 DEF FeeInvariant, StateType, ledgerVars, UnitsFor, Charged
<1>3. \A j \in Payment : EntryTrue(j, tx'[j], fee'[j], charged', known')
  BY DEF FeeInvariant, ledgerVars
<1>4. BalancesAre(balance', Booking')
  BY DEF FeeInvariant, Booking, Exists, ledgerVars
<1>5. \A q \in Passes : PassTrue(pass'[q], charged', known', fee')
  BY <1>1 DEF FeeInvariant
<1>6. QED
  BY <1>2, <1>3, <1>4, <1>5 DEF FeeInvariant

\* A pass that begins.
Fresh(S, b) == [pc |-> "fetch", post |-> b, todo |-> S, left |-> {}, booking |-> {},
             list |-> [i \in Payment |-> "NONE"], seen |-> Blank, now |-> Blank]

\* What it knows is true, whatever the engine and the rows say.
LEMMA FreshIsTrue ==
  ASSUME NEW S \in SUBSET Master, NEW b \in BOOLEAN, NEW C, NEW K, NEW F
  PROVE  Fresh(S, b) \in Running /\ PassTrue(Fresh(S, b), C, K, F)
<1>1. Fresh(S, b) \in Running
  BY DEF Fresh, Running, Blank, Listed
<1>2. \A i \in Payment : /\ Fresh(S, b).list[i] = "NONE" /\ Fresh(S, b).seen[i] = NoFee
                         /\ Fresh(S, b).now[i] = NoFee
  BY DEF Fresh, Blank
<1>3. Fresh(S, b).left = {} /\ Fresh(S, b).booking = {}
  BY DEF Fresh
<1>4. NoFee.posted = FALSE /\ NoFee.trader = NoTrader
  BY DEF NoFee
<1>5. QED
  BY <1>1, <1>2, <1>3, <1>4 DEF PassTrue, ListTrue, NowTrue, SeenTrue

\* A pass begins, and nothing else happens.
LEMMA BeginInv ==
  ASSUME FeeInvariant, NEW p \in Passes, NEW S \in SUBSET Master, NEW b \in BOOLEAN, Begin(p, S, b),
         UNCHANGED <<ledgerVars, charged, known, fee>>
  PROVE  FeeInvariant'
<1>1. pass' = [pass EXCEPT ![p] = Fresh(S, b)]
  BY DEF Begin, Fresh
<1>2. QED
  BY <1>1, FreshIsTrue, PassMovesInv

\* It ends, and nothing else happens.
LEMMA EndInv ==
  ASSUME FeeInvariant, NEW p \in Passes, End(p),
         UNCHANGED <<ledgerVars, charged, known, fee>>
  PROVE  FeeInvariant'
<1>1. pass' = [pass EXCEPT ![p] = Idle] /\ PassTrue(Idle, charged, known, fee)
  BY DEF End, PassTrue
<1>2. QED
  BY <1>1, PassMovesInv

\* A pass at work is one of Running.
LEMMA AtWork ==
  ASSUME FeeInvariant, NEW p \in Passes, pass[p].pc \in {"fetch", "rows"}
  PROVE  pass[p] \in Running /\ pass[p] # Idle
<1>1. pass[p] # Idle
  BY DEF Idle
<1>2. QED
  BY <1>1 DEF FeeInvariant, StateType

\* The list of a strategy says what the engine says.
LEMMA FetchInv ==
  ASSUME FeeInvariant, NEW p \in Passes, NEW m \in Master, Fetch(p, m)
  PROVE  FeeInvariant'
<1>1. PICK S \in Listings(p, m) :
        LET list == [i \in Payment |-> IF i \in S THEN charged[i] ELSE "NONE"]
        IN  /\ pass[p].pc = "fetch" /\ m \in pass[p].todo
            /\ pass' = [pass EXCEPT ![p] =
                 [pc |-> "rows", post |-> pass[p].post, todo |-> pass[p].todo \ {m}, list |-> list,
                  left |-> S, seen |-> Blank, now |-> Blank, booking |-> {}]]
            /\ UNCHANGED <<ledgerVars, charged, known, fee>>
  BY DEF Fetch
<1>2. pass[p] \in Running
  BY <1>1, AtWork
<1>3. S \in SUBSET Payment /\ \A i \in S : charged[i] # "NONE"
  BY <1>1 DEF Listings, PaymentsTo
<1> DEFINE list == [i \in Payment |-> IF i \in S THEN charged[i] ELSE "NONE"]
           n == [pc |-> "rows", post |-> pass[p].post, todo |-> pass[p].todo \ {m}, list |-> list,
                 left |-> S, seen |-> Blank, now |-> Blank, booking |-> {}]
<1>4. pass' = [pass EXCEPT ![p] = n]
  BY <1>1
<1>5. list \in [Payment -> Listed] /\ Blank \in [Payment -> Fee \cup {NoFee}]
  BY DEF FeeInvariant, StateType, Listed, Blank
<1>6. \A i \in Payment : /\ list[i] # "NONE" => list[i] = charged[i]
                         /\ i \in S => list[i] # "NONE"
                         /\ Blank[i] = NoFee
  BY <1>3 DEF Blank
<1>7. /\ n.list = list /\ n.seen = Blank /\ n.now = Blank /\ n.booking = {} /\ n.left = S
  OBVIOUS
<1> HIDE DEF list
<1>8. n \in Running
  BY <1>2, <1>3, <1>5 DEF Running
<1> HIDE DEF n
<1>9. NoFee.posted = FALSE /\ NoFee.trader = NoTrader
  BY DEF NoFee
<1>10. PassTrue(n, charged, known, fee)
  BY <1>6, <1>7, <1>9 DEF PassTrue, ListTrue, NowTrue, SeenTrue
<1>11. QED
  BY <1>1, <1>4, <1>8, <1>10, PassMovesInv

\* The engine does not answer, and the strategy is left.
LEMMA FetchFailsInv ==
  ASSUME FeeInvariant, NEW p \in Passes, NEW m \in Master, FetchFails(p, m)
  PROVE  FeeInvariant'
<1>1. pass[p].pc = "fetch" /\ UNCHANGED <<ledgerVars, charged, known, fee>>
  BY DEF FetchFails
<1>2. CASE End(p)
  BY <1>1, <1>2, EndInv
<1>3. CASE pass' = [pass EXCEPT ![p].todo = @ \ {m}]
  <2> DEFINE n == [pass[p] EXCEPT !.todo = @ \ {m}]
  <2>1. pass[p] \in Running /\ pass[p] # Idle /\ PassTrue(pass[p], charged, known, fee)
    BY <1>1, AtWork DEF FeeInvariant
  <2>2. /\ n \in Running /\ n.list = pass[p].list /\ n.left = pass[p].left
        /\ n.seen = pass[p].seen /\ n.now = pass[p].now /\ n.booking = pass[p].booking
    BY <2>1 DEF Running
  <2>3. pass' = [pass EXCEPT ![p] = n]
    BY <1>3, <2>1 DEF FeeInvariant, StateType
  <2> HIDE DEF n
  <2>4. PassTrue(n, charged, known, fee)
    BY <2>1, <2>2 DEF PassTrue, ListTrue, NowTrue
  <2>5. QED
    BY <1>1, <2>2, <2>3, <2>4, PassMovesInv
<1>4. QED
  BY <1>2, <1>3 DEF FetchFails

\* A row is read, and what it is to become is decided by what is true of it.
LEMMA ReadRowInv ==
  ASSUME FeeInvariant, NEW p \in Passes, NEW i \in Payment, ReadRow(p, i)
  PROVE  FeeInvariant'
<1> DEFINE c == pass[p]
           f == fee[i]
           t == Attributed(i, f)
           status == c.list[i]
           pay == c.post /\ Payable(status, f, t)
           next == [status |-> status, trader |-> t, posted |-> f.posted \/ pay]
           more == IF pay /\ tx[i].status # "POSTED" THEN {i} ELSE {}
           n == [c EXCEPT !.left = @ \ {i}, !.seen[i] = f, !.now[i] = next,
                          !.booking = @ \cup more]
<1>1. /\ c.pc = "rows" /\ i \in c.left /\ UNCHANGED <<ledgerVars, charged, known, fee>>
      /\ pass' = [pass EXCEPT ![p] = n]
  BY DEF ReadRow
<1>2. c \in Running /\ c # Idle /\ PassTrue(c, charged, known, fee)
  BY <1>1, AtWork DEF FeeInvariant
<1>3. f \in Fee \cup {NoFee} /\ EntryTrue(i, tx[i], f, charged, known)
  BY DEF FeeInvariant, StateType
<1>4. /\ status \in Listed \ {"NONE"} /\ c.now[i] = NoFee /\ c.seen[i] = NoFee
      /\ i \notin c.booking /\ charged[i] # "NONE"
      /\ status = "EXECUTED" => charged[i] = "EXECUTED"
  BY <1>1, <1>2 DEF PassTrue, ListTrue, NowTrue, Running
<1>5. /\ t \in Trader \cup {NoTrader}
      /\ t # NoTrader => t = OwnerOf[i] /\ OwnerOf[i] \in known
      /\ f.trader # NoTrader => t = f.trader
  <2>1. f.trader \in Trader \cup {NoTrader} /\ OwnerTrue(i, f, known)
    BY <1>3 DEF EntryTrue, Fee, NoFee
  <2>2. OwnerOf[i] \in Trader
    BY PerfFeeAssumption DEF Payment
  <2>3. QED
    BY <2>1, <2>2 DEF Attributed, OwnerTrue
<1>6. f.posted \in BOOLEAN /\ (f.posted => f # NoFee)
  <2>1. f \in Fee => f.posted \in BOOLEAN
    BY DEF Fee
  <2>2. NoFee.posted = FALSE
    BY DEF NoFee
  <2> HIDE DEF f
  <2>3. QED
    BY <1>3, <2>1, <2>2
<1>7. tx[i].status = "POSTED" <=> f.posted
  <2>1. NoTx.status # "POSTED" /\ NewTx(FEE, "POSTED", OwnerOf[i], AmountOf[i]).status = "POSTED"
    BY DEF NoTx, NewTx
  <2>2. QED
    BY <1>3, <2>1 DEF EntryTrue
<1>8. pay <=> c.post /\ status = "EXECUTED" /\ ~f.posted /\ t # NoTrader
  BY DEF Payable
<1>9. /\ next.status = status /\ next.trader = t /\ next.posted = (f.posted \/ pay)
      /\ next \in Fee /\ next # NoFee
  <2> DEFINE b == f.posted \/ pay
  <2>1. b \in BOOLEAN
    BY <1>2, <1>6, <1>8 DEF Running
  <2>2. next = [status |-> status, trader |-> t, posted |-> b]
    OBVIOUS
  <2> HIDE DEF b, next, t, status, f, pay
  <2>3. next \in Fee /\ next.status = status /\ next.trader = t /\ next.posted = b
    BY <1>4, <1>5, <2>1, <2>2 DEF Fee, Listed
  <2>4. next # NoFee
    BY <1>4, <2>3 DEF NoFee
  <2>5. QED
    BY <2>3, <2>4 DEF b
<1>10. /\ more \subseteq Payment /\ (i \in more <=> pay)
       /\ \A j \in Payment \ {i} : j \notin more
  BY <1>7, <1>8
<1> HIDE DEF t, status, pay, next, more, f
<1>11. /\ n \in Running /\ n.list = c.list /\ n.left = c.left \ {i}
       /\ n.seen = [c.seen EXCEPT ![i] = f] /\ n.now = [c.now EXCEPT ![i] = next]
       /\ n.booking = c.booking \cup more
  <2>1. /\ c.left \in SUBSET Payment /\ c.booking \in SUBSET Payment
        /\ c.seen \in [Payment -> Fee \cup {NoFee}] /\ c.now \in [Payment -> Fee \cup {NoFee}]
    BY <1>2 DEF Running
  <2> DEFINE left == c.left \ {i}
             seen == [c.seen EXCEPT ![i] = f]
             now == [c.now EXCEPT ![i] = next]
             booking == c.booking \cup more
  <2>2. /\ left \in SUBSET Payment /\ booking \in SUBSET Payment
        /\ seen \in [Payment -> Fee \cup {NoFee}] /\ now \in [Payment -> Fee \cup {NoFee}]
    BY <1>3, <1>9, <1>10, <2>1
  <2>3. n = [c EXCEPT !.left = left, !.seen = seen, !.now = now, !.booking = booking]
    BY <1>2 DEF Running
  <2> HIDE DEF left, seen, now, booking, n
  <2>4. /\ n \in Running /\ n.list = c.list /\ n.left = left /\ n.seen = seen /\ n.now = now
        /\ n.booking = booking
    BY <1>2, <2>2, <2>3 DEF Running
  <2>5. QED
    BY <2>4 DEF left, seen, now, booking
<1>12. /\ n.seen[i] = f /\ n.now[i] = next
       /\ \A j \in Payment \ {i} : n.seen[j] = c.seen[j] /\ n.now[j] = c.now[j]
  BY <1>2, <1>11 DEF Running
<1> HIDE DEF n
<1>13. SeenTrue(f, fee[i])
  BY DEF SeenTrue, f
<1>14. ListTrue(n, i, charged)
  BY <1>4, <1>11 DEF ListTrue, status
<1>15. NowTrue(n, i, known)
  BY <1>4, <1>5, <1>6, <1>8, <1>9, <1>10, <1>11, <1>12 DEF NowTrue, OwnerTrue, status
<1>16. ASSUME NEW j \in Payment \ {i}
       PROVE  ListTrue(n, j, charged) /\ NowTrue(n, j, known) /\ SeenTrue(n.seen[j], fee[j])
  BY <1>2, <1>10, <1>11, <1>12 DEF PassTrue, ListTrue, NowTrue
<1>17. PassTrue(n, charged, known, fee)
  BY <1>12, <1>13, <1>14, <1>15, <1>16 DEF PassTrue
<1>18. QED
  BY <1>1, <1>11, <1>17, PassMovesInv

\* What the commit leaves of a row: nothing that anybody knows of it is taken
\* back, and exactly the payments that are booked become posted.
LEMMA WrittenRow ==
  ASSUME FeeInvariant, NEW c \in Running, c # Idle, PassTrue(c, charged, known, fee),
         ~Collides(c), NEW i \in Payment, NEW w, w = Written(c)[i]
  PROVE  /\ w \in Fee \cup {NoFee}
         /\ fee[i] # NoFee => w # NoFee
         /\ fee[i].trader # NoTrader => w.trader = fee[i].trader
         /\ OwnerTrue(i, w, known)
         /\ w.posted <=> fee[i].posted \/ i \in c.booking
         /\ i \in c.booking => /\ w.trader = OwnerOf[i] /\ OwnerOf[i] \in known
                               /\ tx[i] = NoTx /\ charged[i] = "EXECUTED"
<1> DEFINE f == fee[i]
           s == c.seen[i]
           n == c.now[i]
<1>1. /\ f \in Fee \cup {NoFee} /\ s \in Fee \cup {NoFee} /\ n \in Fee \cup {NoFee}
      /\ OwnerOf[i] \in Trader /\ OwnerOf[i] # NoTrader
  BY PerfFeeAssumption, TraderAssumption DEF FeeInvariant, StateType, Running, Payment
<1>2. OwnerTrue(i, f, known) /\ (f.posted <=> tx[i] # NoTx)
  BY DEF FeeInvariant, EntryTrue
<1>3. ListTrue(c, i, charged) /\ NowTrue(c, i, known) /\ SeenTrue(s, f)
  BY DEF PassTrue
<1>4. /\ n # NoFee /\ s = NoFee => f = NoFee
      /\ i \in c.booking => tx[i] = NoTx
  BY DEF Collides, Exists
<1>5. w = IF n = NoFee THEN f
          ELSE [status |-> Changed(f.status, s.status, n.status),
                trader |-> Changed(f.trader, s.trader, n.trader),
                posted |-> Changed(f.posted, s.posted, n.posted)]
  BY DEF Written
<1>6. /\ NoFee.status = "NONE" /\ NoFee.trader = NoTrader /\ NoFee.posted = FALSE
      /\ \A g \in Fee : /\ g.status \in {"PENDING", "EXECUTED", "FAILED"} /\ g # NoFee
                        /\ g.trader \in Trader \cup {NoTrader} /\ g.posted \in BOOLEAN
  BY DEF NoFee, Fee
<1>7. NoFee \notin Fee
  BY <1>6
<1>8. CASE n = NoFee
  <2>1. w = f /\ i \notin c.booking
    BY <1>3, <1>5, <1>8 DEF NowTrue
  <2>2. QED
    BY <1>1, <1>2, <2>1
<1>9. CASE n # NoFee
  <2> DEFINE st == Changed(f.status, s.status, n.status)
             tr == Changed(f.trader, s.trader, n.trader)
             po == Changed(f.posted, s.posted, n.posted)
  <2>1. w = [status |-> st, trader |-> tr, posted |-> po]
    BY <1>5, <1>9
  <2>2. st \in {"PENDING", "EXECUTED", "FAILED"}
    <3>1. CASE n.status = s.status
      <4>1. s # NoFee
        BY <1>1, <1>6, <1>7, <1>9, <3>1
      <4>2. f # NoFee
        BY <1>3, <4>1 DEF SeenTrue
      <4>3. QED
        BY <1>1, <1>6, <3>1, <4>2 DEF Changed
    <3>2. CASE n.status # s.status
      BY <1>1, <1>6, <1>9, <3>2 DEF Changed
    <3>3. QED
      BY <3>1, <3>2
  <2>3. /\ tr \in Trader \cup {NoTrader}
        /\ f.trader # NoTrader => tr = f.trader
        /\ tr # NoTrader => tr = OwnerOf[i] /\ OwnerOf[i] \in known
        /\ i \in c.booking => tr = OwnerOf[i] /\ OwnerOf[i] \in known
    <3>1. /\ s.trader # NoTrader => n.trader = s.trader /\ f.trader = s.trader
          /\ n.trader # NoTrader => n.trader = OwnerOf[i] /\ OwnerOf[i] \in known
          /\ f.trader # NoTrader => f.trader = OwnerOf[i] /\ OwnerOf[i] \in known
          /\ i \in c.booking => n.trader = OwnerOf[i]
      BY <1>2, <1>3, <1>9 DEF OwnerTrue, NowTrue, SeenTrue
    <3>2. f.trader \in Trader \cup {NoTrader} /\ n.trader \in Trader \cup {NoTrader}
      BY <1>1, <1>6
    <3>3. tr = IF n.trader = s.trader THEN f.trader ELSE n.trader
      BY DEF Changed
    <3> HIDE DEF f, s, n, tr
    <3>4. QED
      BY <1>1, <3>1, <3>2, <3>3
  <2>4. po \in BOOLEAN /\ (po <=> f.posted \/ i \in c.booking)
    <3>1. /\ s.posted => n.posted /\ f.posted
          /\ i \in c.booking <=> n.posted /\ ~s.posted
      BY <1>3 DEF NowTrue, SeenTrue
    <3>2. f.posted \in BOOLEAN /\ s.posted \in BOOLEAN /\ n.posted \in BOOLEAN
      BY <1>1, <1>6
    <3>3. po = IF n.posted = s.posted THEN f.posted ELSE n.posted
      BY DEF Changed
    <3> HIDE DEF f, s, n, po
    <3>4. QED
      BY <3>1, <3>2, <3>3
  <2>5. i \in c.booking => charged[i] = "EXECUTED"
    BY <1>3 DEF NowTrue, ListTrue
  <2> HIDE DEF st, tr, po
  <2>6. w \in Fee /\ w.trader = tr /\ w.posted = po
    BY <2>1, <2>2, <2>3, <2>4 DEF Fee
  <2>7. QED
    BY <1>4, <1>7, <2>3, <2>4, <2>5, <2>6 DEF OwnerTrue
<1>10. QED
  BY <1>8, <1>9

\* The entries and balances of a batch: each payment of S is new in the ledger.
LEMMA BatchBooks ==
  ASSUME FeeInvariant, NEW S \in SUBSET Payment, PostFees(S),
         \A i \in S : tx[i] = NoTx /\ charged[i] = "EXECUTED"
  PROVE  /\ \A i \in Payment :
               tx'[i] = IF i \in S THEN NewTx(FEE, "POSTED", OwnerOf[i], AmountOf[i])
                                                   ELSE tx[i]
         /\ balance' \in [LedgerAccount -> Int]
         /\ BalancesAre(balance', Booking')
<1>1. \A i \in Payment : tx'[i] = IF i \in S THEN NewTx(FEE, "POSTED", OwnerOf[i], AmountOf[i])
                                            ELSE tx[i]
  BY DEF PostFees, FEE
<1>2. balance' = [c \in LedgerAccount |->
                    IF c \in Trader THEN balance[c] - AmountFrom(S, c)
                    ELSE IF c = FEES THEN balance[c] + AmountIn(S) ELSE balance[c]]
  BY DEF PostFees
<1>3. Booking' = Booking \cup S /\ Booking \cap S = {} /\ Booking \in SUBSET Payment
  <2>1. \A i \in S : NewTx(FEE, "POSTED", OwnerOf[i], AmountOf[i]) # NoTx
    BY DEF NewTx, NoTx
  <2>2. QED
    BY <1>1, <2>1 DEF Booking, Exists
<1>4. IsFiniteSet(UnitsFor(Booking \cup S))
  <2>1. Booking \cup S \subseteq Charged
    BY DEF FeeInvariant, EntryTrue, Booking, Charged, Exists
  <2>2. UnitsFor(Booking \cup S) \subseteq UnitsFor(Charged)
    BY <2>1 DEF UnitsFor
  <2>3. QED
    BY <2>2, FS_Subset DEF FeeInvariant, StateType
<1>5. /\ AmountIn(Booking \cup S) = AmountIn(Booking) + AmountIn(S)
      /\ AmountIn(Booking) \in Nat /\ AmountIn(S) \in Nat
      /\ \A t : /\ AmountFrom(Booking \cup S, t) = AmountFrom(Booking, t) + AmountFrom(S, t)
                /\ AmountFrom(Booking, t) \in Nat /\ AmountFrom(S, t) \in Nat
  BY <1>3, <1>4, AmountsOfAllAdd
<1>6. balance \in [LedgerAccount -> Int] /\ BalancesAre(balance, Booking)
  BY DEF FeeInvariant, StateType
<1>7. balance' \in [LedgerAccount -> Int]
  BY <1>2, <1>5, <1>6
<1>8. balance'[FEES] = AmountIn(Booking')
  <2>1. balance'[FEES] = balance[FEES] + AmountIn(S)
    BY <1>2, Accounts
  <2>2. balance[FEES] = AmountIn(Booking)
    BY <1>6 DEF BalancesAre
  <2>3. QED
    BY <1>3, <1>5, <2>1, <2>2
<1>9. ASSUME NEW t \in Trader
      PROVE  balance'[t] = 0 - AmountFrom(Booking', t)
  <2>1. balance'[t] = balance[t] - AmountFrom(S, t)
    BY <1>2, Accounts
  <2>2. balance[t] = 0 - AmountFrom(Booking, t)
    BY <1>6 DEF BalancesAre
  <2>3. /\ AmountFrom(Booking \cup S, t) = AmountFrom(Booking, t) + AmountFrom(S, t)
        /\ AmountFrom(Booking, t) \in Nat /\ AmountFrom(S, t) \in Nat
    BY <1>5
  <2>4. AmountFrom(Booking', t) = AmountFrom(Booking \cup S, t)
    BY <1>3
  <2>5. QED
    BY <2>1, <2>2, <2>3, <2>4
<1>10. QED
  BY <1>1, <1>7, <1>8, <1>9 DEF BalancesAre

\* The commit of a pass: all of it, or nothing after a collision.
LEMMA CommitInvariant ==
  ASSUME FeeInvariant, NEW p \in Passes, Commit(p)
  PROVE  FeeInvariant'
<1> DEFINE c == pass[p]
<1>1. c.pc = "rows" /\ UNCHANGED <<charged, known>>
  BY DEF Commit
<1>2. c \in Running /\ c # Idle /\ PassTrue(c, charged, known, fee)
  BY <1>1, AtWork DEF FeeInvariant
<1>3. CASE Collides(c)
  BY <1>1, <1>3, EndInv DEF Commit
<1>4. CASE ~Collides(c)
  <2>1. /\ fee' = Written(c) /\ PostFees(c.booking)
        /\ End(p) \/ Begin(p, c.todo, c.post)
    BY <1>4 DEF Commit
  <2>2. c.booking \in SUBSET Payment /\ c.todo \in SUBSET Master /\ c.post \in BOOLEAN
    BY <1>2 DEF Running
  <2>3. \A i \in Payment :
          /\ fee'[i] \in Fee \cup {NoFee}
          /\ fee[i] # NoFee => fee'[i] # NoFee
          /\ fee[i].trader # NoTrader => fee'[i].trader = fee[i].trader
          /\ OwnerTrue(i, fee'[i], known)
          /\ fee'[i].posted <=> fee[i].posted \/ i \in c.booking
          /\ i \in c.booking => /\ fee'[i].trader = OwnerOf[i] /\ OwnerOf[i] \in known
                                /\ tx[i] = NoTx /\ charged[i] = "EXECUTED"
    <3> TAKE i \in Payment
    <3> DEFINE w == Written(c)[i]
    <3>1. fee'[i] = w
      BY <2>1
    <3> HIDE DEF c, w
    <3>2. w = Written(c)[i]
      BY DEF w
    <3>3. QED
      BY ONLY FeeInvariant, <1>2, <1>4, <3>1, <3>2, WrittenRow
  <2>4. /\ \A i \in Payment : tx'[i] = IF i \in c.booking
                                       THEN NewTx(FEE, "POSTED", OwnerOf[i], AmountOf[i]) ELSE tx[i]
        /\ balance' \in [LedgerAccount -> Int] /\ BalancesAre(balance', Booking')
    BY <2>1, <2>2, <2>3, BatchBooks
  <2>5. PICK n \in Running \cup {Idle} : /\ pass' = [pass EXCEPT ![p] = n]
                                        /\ PassTrue(n, charged, known, fee')
    <3>1. CASE End(p)
      BY <3>1 DEF End, PassTrue
    <3>2. CASE Begin(p, c.todo, c.post)
      <4>1. pass' = [pass EXCEPT ![p] = Fresh(c.todo, c.post)]
        BY <3>2 DEF Begin, Fresh
      <4>2. QED
        BY <2>2, <4>1, FreshIsTrue
    <3>3. QED
      BY <2>1, <3>1, <3>2
  <2>6. /\ pass' \in [Passes -> Running \cup {Idle}] /\ pass'[p] = n
        /\ \A q \in Passes \ {p} : pass'[q] = pass[q]
    BY <2>5 DEF FeeInvariant, StateType
  <2>7. fee' \in [Payment -> Fee \cup {NoFee}]
    BY <2>1, <2>3 DEF Written
  <2>8. StateType'
    BY <1>1, <2>4, <2>6, <2>7 DEF FeeInvariant, StateType, UnitsFor, Charged
  <2>9. \A i \in Payment : EntryTrue(i, tx'[i], fee'[i], charged', known')
    <3> TAKE i \in Payment
    <3>1. EntryTrue(i, tx[i], fee[i], charged, known)
      BY DEF FeeInvariant
    <3>2. NewTx(FEE, "POSTED", OwnerOf[i], AmountOf[i]) # NoTx /\ OwnerOf[i] # NoTrader
      BY PerfFeeAssumption, TraderAssumption DEF NewTx, NoTx, Payment
    <3> HIDE DEF c
    <3>3. QED
      BY <1>1, <2>3, <2>4, <3>1, <3>2 DEF EntryTrue
  <2>10. Stable(charged, known, fee, charged', known', fee')
    BY <1>1, <2>3 DEF Stable
  <2>11. \A q \in Passes : PassTrue(pass'[q], charged', known', fee')
    <3> TAKE q \in Passes
    <3>1. CASE q = p
      BY <1>1, <2>5, <2>6, <3>1
    <3>2. CASE q # p
      <4>1. PassTrue(pass[q], charged, known, fee)
        BY DEF FeeInvariant
      <4>2. pass'[q] = pass[q]
        BY <2>6, <3>2
      <4>3. QED
        BY <2>10, <4>1, <4>2, StillTrue
    <3>3. QED
      BY <3>1, <3>2
  <2>12. QED
    BY <2>4, <2>8, <2>9, <2>11 DEF FeeInvariant
<1>5. QED
  BY <1>3, <1>4

\* Every step keeps the invariant.
LEMMA PerfFeeStepInv == FeeInvariant /\ [PerfFeeNext]_feeVars => FeeInvariant'
<1> SUFFICES ASSUME FeeInvariant, [PerfFeeNext]_feeVars PROVE FeeInvariant'
  OBVIOUS
<1>1. ASSUME NEW i \in Payment, Charge(i) PROVE FeeInvariant'
  BY <1>1, ChargeInv
<1>2. ASSUME NEW t \in Trader, ImportAccount(t) PROVE FeeInvariant'
  BY <1>2, ImportInv
<1>3. ASSUME NEW p \in Passes, StartAll(p) PROVE FeeInvariant'
  BY <1>3, BeginInv DEF StartAll
<1>4. ASSUME NEW p \in Client, NEW m \in Master, NEW b \in BOOLEAN, StartOne(p, m, b)
      PROVE  FeeInvariant'
  BY <1>4, BeginInv DEF StartOne, Passes
<1>5. ASSUME NEW p \in Passes, NEW m \in Master, Fetch(p, m) PROVE FeeInvariant'
  BY <1>5, FetchInv
<1>6. ASSUME NEW p \in Passes, NEW m \in Master, FetchFails(p, m) PROVE FeeInvariant'
  BY <1>6, FetchFailsInv
<1>7. ASSUME NEW p \in Passes, NEW i \in Payment, ReadRow(p, i) PROVE FeeInvariant'
  BY <1>7, ReadRowInv
<1>8. ASSUME NEW p \in Passes, Commit(p) PROVE FeeInvariant'
  BY <1>8, CommitInvariant
<1>9. ASSUME NEW p \in Passes, Abandon(p) PROVE FeeInvariant'
  BY <1>9, EndInv DEF Abandon
<1>10. CASE UNCHANGED feeVars
  BY <1>10 DEF feeVars, FeeInvariant, StateType, UnitsFor, Charged, BalancesAre, Booking, Exists
<1>11. QED
  BY <1>1, <1>2, <1>3, <1>4, <1>5, <1>6, <1>7, <1>8, <1>9, <1>10
     DEF PerfFeeNext, Reconciled, Step

-----------------------------------------------------------------------------
(* The theorems *)

\* The inductive invariant of the reconciliation.
THEOREM FeesInvariant == PerfFeeSpec => []FeeInvariant
<1>1. PerfFeeInit => FeeInvariant
  BY PerfFeeInitInv
<1>2. FeeInvariant /\ [PerfFeeNext]_feeVars => FeeInvariant'
  BY PerfFeeStepInv
<1>3. QED
  BY <1>1, <1>2, PTL DEF PerfFeeSpec

\* A client is charged only what the engine took from an account of that client.
THEOREM ChargesWerePaid == PerfFeeSpec => []ChargedWasPaid
<1>1. FeeInvariant => ChargedWasPaid
  BY DEF FeeInvariant, EntryTrue, ChargedWasPaid, Exists
<1>2. QED
  BY <1>1, FeesInvariant, PTL

\* The rows posted are those in the books, and the balances are their sums.
LEMMA RowsMeaning == FeeInvariant => RowsFollowBooks
<1> SUFFICES ASSUME FeeInvariant PROVE RowsFollowBooks
  OBVIOUS
<1> DEFINE booked == {i \in Payment : fee[i].posted}
<1>1. booked = Booking
  BY DEF FeeInvariant, EntryTrue, Booking, Exists
<1>2. balance[FEES] = AmountIn(Booking) /\ \A t \in Trader : balance[t] = 0 - AmountFrom(Booking, t)
  BY DEF FeeInvariant, BalancesAre
<1>3. ASSUME NEW t \in Trader
      PROVE  AmountFrom({i \in booked : fee[i].trader = t}, t) = AmountFrom(Booking, t)
  <2>1. \A i \in Booking : fee[i].trader = OwnerOf[i]
    BY DEF FeeInvariant, EntryTrue, Booking, Exists
  <2>2. {i \in {j \in booked : fee[j].trader = t} : OwnerOf[i] = t} = {i \in Booking : OwnerOf[i] = t}
    BY <1>1, <2>1
  <2>3. QED
    BY <2>2 DEF AmountFrom
<1>4. QED
  BY <1>1, <1>2, <1>3 DEF RowsFollowBooks, Booking

\* Rows and ledger never part, however many passes meet, for any payments,
\* clients and amounts.
THEOREM BooksFollowRows == PerfFeeSpec => []RowsFollowBooks
BY FeesInvariant, RowsMeaning, PTL
=============================================================================
