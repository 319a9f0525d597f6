--------------------------- MODULE DeletionProofs ---------------------------
(***************************************************************************)
(* The invariants of Accounts and Deletion, for any accounts, rates,        *)
(* deletions and requests.                                                 *)
(*                                                                         *)
(* The first part is about the rows and profiles.  What the engine has said  *)
(* of an account is only added to (past), so an answer that was true when it *)
(* was given is true of the past when it is written, however late.          *)
(***************************************************************************)
EXTENDS Deletion, TLAPS

-----------------------------------------------------------------------------
(* Rows and profiles *)

\* The engine's account a, with the past q.
EngineOK(a, q) ==
  /\ a.leader => q.led
  /\ a.status = "DELETED" => "DELETED" \in q.asked
  /\ a.rate # NoRate => a.rate \in q.rates /\ q.led

RowOK(o, q) ==
  /\ o.leader => q.led
  /\ o.status = "DELETED" => q.ended \/ "DELETED" \in q.asked

\* The profile f and the audited rate u of an account with the row o.
ProfileOK(f, u, o, q) ==
  /\ {f, u} \subseteq q.rates \cup {NoRate}
  /\ f # NoRate => o # NoRow /\ q.led

\* A change w that the engine has accepted.
PatchOK(w, q) ==
  /\ "leader" \in DOMAIN w => (w.leader => q.led)
  /\ "status" \in DOMAIN w => w.status \in q.asked

\* What a request c asks for, and what it knows of its account.
Asks(c) ==
  /\ c.op \in {"rate", "profile"} => c.want \in Rate
  /\ c.op = "update" => c.want \in Patch
  /\ c.op \in {"create", "register"} => c.want \in [leader : BOOLEAN]
  /\ c.op \in {"update", "profile"} => c.seen \in Row
  /\ c.pc \in {"enable", "enabled"} => c.op = "profile"

CallOK(c, o, f, q) ==
  c.pc # "idle" =>
    /\ Asks(c)
    /\ c.op \in {"update", "profile", "adopt", "rate"} => o # NoRow
    /\ c.op = "rate" => f # NoRate
    /\ c.pc = "insert" => EngineOK(c.answer, q)
    /\ c.pc = "insert" /\ c.op \in {"create", "register", "import"} => c.answer \in Account
    /\ c.pc = "insert" /\ c.op \in {"profile", "adopt"} => c.answer.rate # NoRate
    /\ c.pc = "enabled" => q.led
    /\ c.pc = "write" /\ c.op = "update" => PatchOK(c.want, q)
    /\ c.pc = "write" /\ c.op = "rate" => c.want \in q.rates

RequestOK(c, O, F, Q) == CallOK(c, O[c.login], F[c.login], Q[c.login])

AccountsInv ==
  /\ AccountsTypeOK
  /\ \A l \in Login : /\ EngineOK(account[l], past[l]) /\ RowOK(row[l], past[l])
                      /\ ProfileOK(profile[l], audit[l], row[l], past[l])
  /\ \A p \in Request : RequestOK(call[p], row, profile, past)

\* The past only grows, and rows and profiles stay.
Grows(q, q2) ==
  /\ q.led => q2.led
  /\ q.asked \subseteq q2.asked
  /\ q.ended => q2.ended
  /\ q.rates \subseteq q2.rates
Later ==
  \A l \in Login : /\ Grows(past[l], past'[l])
                   /\ row[l] # NoRow => row'[l] # NoRow
                   /\ profile[l] # NoRate => profile'[l] # NoRate

\* What was true of the past stays true of it.
LEMMA PastGrows ==
  ASSUME NEW q, NEW q2, Grows(q, q2)
  PROVE  /\ \A a : EngineOK(a, q) => EngineOK(a, q2)
         /\ \A o : RowOK(o, q) => RowOK(o, q2)
         /\ \A f, u, o : ProfileOK(f, u, o, q) => ProfileOK(f, u, o, q2)
         /\ \A w : PatchOK(w, q) => PatchOK(w, q2)
BY DEF Grows, EngineOK, RowOK, ProfileOK, PatchOK

\* What a request knows stays true.
LEMMA CallStays ==
  ASSUME NEW c \in Running \cup {Idle}, RequestOK(c, row, profile, past), Later
  PROVE  RequestOK(c, row', profile', past')
<1>1. CASE c.pc = "idle"
  BY <1>1 DEF RequestOK, CallOK
<1>2. CASE c.pc # "idle"
  <2>1. c.login \in Login
    BY <1>2 DEF Running, Idle
  <2> DEFINE l == c.login
  <2>2. /\ Grows(past[l], past'[l]) /\ (row[l] # NoRow => row'[l] # NoRow)
        /\ (profile[l] # NoRate => profile'[l] # NoRate)
    BY <2>1 DEF Later
  <2>3. /\ EngineOK(c.answer, past[l]) => EngineOK(c.answer, past'[l])
        /\ PatchOK(c.want, past[l]) => PatchOK(c.want, past'[l])
        /\ past[l].led => past'[l].led
        /\ past[l].rates \subseteq past'[l].rates
    BY <2>2, PastGrows DEF Grows
  <2>4. QED
    BY <2>2, <2>3 DEF RequestOK, CallOK
<1>3. QED
  BY <1>1, <1>2

\* What a step has to establish.
LEMMA AccountsStep ==
  ASSUME AccountsInv, AccountsTypeOK', Later,
         \A l \in Login : /\ EngineOK(account'[l], past'[l]) /\ RowOK(row'[l], past'[l])
                          /\ ProfileOK(profile'[l], audit'[l], row'[l], past'[l]),
         \A p \in Request : \/ call'[p] = call[p]
                            \/ RequestOK(call'[p], row', profile', past')
  PROVE  AccountsInv'
<1>1. \A p \in Request : call[p] \in Running \cup {Idle} /\ RequestOK(call[p], row, profile, past)
  BY DEF AccountsInv, AccountsTypeOK
<1>2. \A p \in Request : RequestOK(call[p], row', profile', past')
  BY <1>1, CallStays
<1>3. \A p \in Request : RequestOK(call'[p], row', profile', past')
  BY <1>2
<1>4. QED
  BY <1>3 DEF AccountsInv, RequestOK

\* A request that is idle knows nothing.
LEMMA IdleKnows == \A O, F, Q : RequestOK(Idle, O, F, Q)
BY DEF RequestOK, CallOK, Idle

-----------------------------------------------------------------------------
(* What the engine does *)

\* What the engine says of l, a, when it is asked for the statuses X: only a leader
\* has a rate, and nothing is DELETED unless it was or that was asked.
Follows(l, a, X) ==
  /\ a.rate # NoRate => a.leader \/ past[l].led
  /\ a.status = "DELETED" => account[l].status = "DELETED" \/ "DELETED" \in X

\* The accounts and their past after the engine says a of l.
LEMMA BecomesOK ==
  ASSUME AccountsInv, NEW l \in Login, NEW a \in Account \cup {Absent}, NEW X \in SUBSET Status,
         Becomes(l, a, X), Follows(l, a, X)
  PROVE  /\ account' \in [Login -> Account \cup {Absent}] /\ past' \in [Login -> Past]
         /\ \A m \in Login : EngineOK(account'[m], past'[m]) /\ Grows(past[m], past'[m])
         /\ account'[l] = a /\ EngineOK(a, past'[l]) /\ X \subseteq past'[l].asked
         /\ \A m \in Login \ {l} : account'[m] = account[m] /\ past'[m] = past[m]
<1> DEFINE q == [led |-> past[l].led \/ a.leader,
                 asked |-> past[l].asked \cup X,
                 ended |-> past[l].ended \/ a = Absent,
                 rates |-> past[l].rates \cup ({a.rate} \ {NoRate})]
<1>1. AccountsTypeOK /\ past[l] \in Past
  BY DEF AccountsInv, AccountsTypeOK
<1>2. a.leader \in BOOLEAN /\ a.rate \in Rate \cup {NoRate}
  <2>1. CASE a \in Account
    BY <2>1 DEF Account
  <2>2. CASE a = Absent
    BY <2>2 DEF Absent
  <2>3. QED
    BY <2>1, <2>2
<1>3. q \in Past /\ Grows(past[l], q) /\ EngineOK(a, q) /\ X \subseteq q.asked
  BY <1>1, <1>2 DEF Past, Grows, EngineOK, AccountsInv, Follows
<1>4. account' = [account EXCEPT ![l] = a] /\ past' = [past EXCEPT ![l] = q]
  BY DEF Becomes
<1> HIDE DEF q
<1>5. /\ account'[l] = a /\ past'[l] = q
      /\ \A m \in Login \ {l} : account'[m] = account[m] /\ past'[m] = past[m]
      /\ account' \in [Login -> Account \cup {Absent}] /\ past' \in [Login -> Past]
  BY <1>1, <1>3, <1>4 DEF AccountsTypeOK
<1>6. \A m \in Login : EngineOK(account'[m], past'[m]) /\ Grows(past[m], past'[m])
  BY <1>3, <1>5 DEF AccountsInv, Grows
<1>7. QED
  BY <1>3, <1>5, <1>6

\* The engine changes an account; a request may go on.
LEMMA EngineInv ==
  ASSUME AccountsInv, NEW l \in Login, NEW a \in Account \cup {Absent}, NEW X \in SUBSET Status,
         Becomes(l, a, X), Follows(l, a, X),
         UNCHANGED <<row, profile, audit>>, call' \in [Request -> Running \cup {Idle}],
         \A p \in Request : \/ call'[p] = call[p]
                            \/ RequestOK(call'[p], row, profile, past')
  PROVE  AccountsInv'
<1>1. AccountsTypeOK'
  BY BecomesOK DEF AccountsInv, AccountsTypeOK
<1>2. Later
  BY BecomesOK DEF Later
<1>3. ASSUME NEW m \in Login
      PROVE  /\ EngineOK(account'[m], past'[m]) /\ RowOK(row'[m], past'[m])
             /\ ProfileOK(profile'[m], audit'[m], row'[m], past'[m])
  <2>1. Grows(past[m], past'[m]) /\ EngineOK(account'[m], past'[m])
    BY BecomesOK
  <2>2. QED
    BY <2>1, PastGrows DEF AccountsInv
<1>4. QED
  BY <1>1, <1>2, <1>3, AccountsStep

\* A step of requests only.
LEMMA OnlyCallsInv ==
  ASSUME AccountsInv, UNCHANGED <<account, past, row, profile, audit>>,
         call' \in [Request -> Running \cup {Idle}],
         \A p \in Request : call'[p] = call[p] \/ RequestOK(call'[p], row, profile, past)
  PROVE  AccountsInv'
<1>1. AccountsTypeOK'
  BY DEF AccountsInv, AccountsTypeOK
<1>2. Later
  BY DEF Later, Grows
<1>3. \A l \in Login : /\ EngineOK(account'[l], past'[l]) /\ RowOK(row'[l], past'[l])
                       /\ ProfileOK(profile'[l], audit'[l], row'[l], past'[l])
  BY DEF AccountsInv
<1>4. \A p \in Request : call'[p] = call[p] \/ RequestOK(call'[p], row', profile', past')
  OBVIOUS
<1>5. QED
  BY <1>1, <1>2, <1>3, <1>4, AccountsStep

\* One request goes on as n.
LEMMA CallChanged ==
  ASSUME AccountsTypeOK, NEW p \in Request, NEW n \in Running \cup {Idle},
         call' = [call EXCEPT ![p] = n]
  PROVE  /\ call' \in [Request -> Running \cup {Idle}] /\ call'[p] = n
         /\ \A q \in Request \ {p} : call'[q] = call[q]
BY DEF AccountsTypeOK

\* A request starts.
LEMMA BeginInv ==
  ASSUME AccountsInv, NEW p \in Request, NEW l \in Login, NEW want \in Wanted,
         NEW pc \in {"enable", "ask"},
         NEW o \in {"create", "register", "import", "update", "profile", "adopt", "rate"},
         o \in {"rate", "profile"} => want \in Rate,
         o = "update" => want \in Patch,
         o \in {"create", "register"} => want \in [leader : BOOLEAN],
         o \in {"update", "profile", "adopt", "rate"} => row[l] # NoRow,
         o = "rate" => profile[l] # NoRate,
         pc = "enable" => o = "profile",
         Begin(p, o, pc, l, want)
  PROVE  AccountsInv'
<1> DEFINE seen == IF o \in {"update", "profile"} THEN row[l] ELSE NoRow
           rate == IF o = "rate" THEN profile[l] ELSE NoRate
           n == [pc |-> pc, op |-> o, login |-> l, want |-> want, seen |-> seen, rate |-> rate,
                 answer |-> Absent]
<1>1. AccountsTypeOK
  BY DEF AccountsInv
<1>2. /\ row[l] \in Row \cup {NoRow} /\ profile[l] \in Rate \cup {NoRate}
      /\ seen \in Row \cup {NoRow} /\ rate \in Rate \cup {NoRate}
      /\ o \in {"update", "profile"} => seen \in Row
  BY <1>1 DEF AccountsTypeOK, Profile
<1>3. call' = [call EXCEPT ![p] = n] /\ UNCHANGED <<account, past, row, profile, audit>>
  BY DEF Begin
<1> HIDE DEF seen, rate
<1>4. n \in Running
  BY <1>2 DEF Running
<1>5. RequestOK(n, row, profile, past)
  BY <1>2 DEF RequestOK, CallOK, Asks
<1> HIDE DEF n
<1>6. /\ call' \in [Request -> Running \cup {Idle}] /\ call'[p] = n
      /\ \A q \in Request \ {p} : call'[q] = call[q]
  BY <1>1, <1>3, <1>4, CallChanged
<1>7. QED
  BY <1>3, <1>5, <1>6, OnlyCallsInv

\* Every request that starts asks for what its handler can carry out.
LEMMA RequestsInv ==
  ASSUME AccountsInv, NEW p \in Request, Requests(p)
  PROVE  AccountsInv'
<1>0. Patch \subseteq Patches /\ NoRate \notin Rate
  BY AccountsAssumption
<1>1. ASSUME NEW l \in Login, NEW b \in BOOLEAN, StartCreate(p, l, b) \/ StartRegister(p, l, b)
      PROVE  AccountsInv'
  <2>1. [leader |-> b] \in [leader : BOOLEAN] /\ [leader |-> b] \in Wanted
    BY DEF Wanted, Patches
  <2>2. QED
    BY <1>1, <2>1, BeginInv DEF StartCreate, StartRegister
<1>2. ASSUME NEW l \in Login, StartImport(p, l)
      PROVE  AccountsInv'
  BY <1>2, BeginInv DEF StartImport, Wanted
<1>3. ASSUME NEW l \in Login, NEW w \in Patch, StartUpdate(p, l, w)
      PROVE  AccountsInv'
  BY <1>0, <1>3, BeginInv DEF StartUpdate, Wanted
<1>4. ASSUME NEW l \in Login, NEW r \in Rate, StartProfile(p, l, r)
      PROVE  AccountsInv'
  <2>1. r \in Wanted
    BY DEF Wanted
  <2>2. PICK pc \in {"enable", "ask"} : pc = IF row[l].leader THEN "ask" ELSE "enable"
    OBVIOUS
  <2>3. Begin(p, "profile", pc, l, r) /\ row[l] # NoRow
    BY <1>4, <2>2 DEF StartProfile
  <2>4. QED
    BY <2>1, <2>3, BeginInv
<1>5. ASSUME NEW l \in Login, StartAdopt(p, l)
      PROVE  AccountsInv'
  BY <1>5, BeginInv DEF StartAdopt, Wanted
<1>6. ASSUME NEW l \in Login, NEW r \in Rate, StartRate(p, l, r)
      PROVE  AccountsInv'
  <2>1. r \in Wanted /\ row[l] # NoRow
    BY <1>6 DEF Wanted, StartRate, AccountsInv, ProfileOK
  <2>2. QED
    BY <1>6, <2>1, BeginInv DEF StartRate
<1>7. QED
  BY <1>1, <1>2, <1>3, <1>4, <1>5, <1>6 DEF Requests, Openings, AccountChanges, Strategies,
     StrategyChanges

-----------------------------------------------------------------------------
(* What the engine answers *)

\* A request at work.
LEMMA Busy ==
  ASSUME AccountsInv, NEW p \in Request, call[p].pc # "idle"
  PROVE  /\ call[p] \in Running /\ LoginOf(p) \in Login
         /\ RequestOK(call[p], row, profile, past)
<1>1. call[p] \in Running
  BY DEF AccountsInv, AccountsTypeOK, Idle
<1>2. QED
  BY <1>1 DEF Running, LoginOf, AccountsInv

\* The record of a request after an answer.
Replied(c, pc, a) == [c EXCEPT !.pc = pc, !.answer = IF pc = "insert" THEN a ELSE Absent]

\* Only what may still change of a request does.
LEMMA ReplyOK ==
  ASSUME AccountsInv, NEW p \in Request, call[p].pc # "idle",
         NEW pc \in {"enabled", "insert", "write"}, NEW a \in Account \cup {Absent},
         Reply(p, pc, a)
  PROVE  LET n == Replied(call[p], pc, a)
         IN  /\ n \in Running /\ call' = [call EXCEPT ![p] = n]
             /\ n.pc = pc /\ n.op = call[p].op /\ n.login = LoginOf(p) /\ n.want = call[p].want
             /\ n.seen = call[p].seen /\ (pc = "insert" => n.answer = a)
<1> DEFINE x == IF pc = "insert" THEN a ELSE Absent
<1>1. x \in Account \cup {Absent} /\ (pc = "insert" => x = a)
  OBVIOUS
<1>2. call[p] \in Running /\ AccountsTypeOK
  BY Busy DEF AccountsInv
<1>3. Reply(p, pc, a) <=> call' = [call EXCEPT ![p].pc = pc, ![p].answer = x]
  BY DEF Reply
<1>4. Replied(call[p], pc, a) = [call[p] EXCEPT !.pc = pc, !.answer = x]
  BY DEF Replied
<1> HIDE DEF x
<1>5. call' = [call EXCEPT ![p] = Replied(call[p], pc, a)]
  BY <1>2, <1>3, <1>4 DEF AccountsTypeOK
<1>6. QED
  BY <1>1, <1>2, <1>4, <1>5 DEF Running, LoginOf

\* The engine changes the account of a request and answers.
LEMMA AnsweredInv ==
  ASSUME AccountsInv, NEW p \in Request, call[p].pc # "idle", NEW l \in Login, LoginOf(p) = l,
         NEW pc \in {"enabled", "insert", "write"}, NEW a \in Account, NEW X \in SUBSET Status,
         Reply(p, pc, a), Becomes(l, a, X), Follows(l, a, X), UNCHANGED <<row, profile, audit>>,
         RequestOK(Replied(call[p], pc, a), row, profile, past')
  PROVE  AccountsInv'
<1> DEFINE n == Replied(call[p], pc, a)
<1>1. n \in Running /\ call' = [call EXCEPT ![p] = n] /\ AccountsTypeOK
  BY ReplyOK DEF AccountsInv
<1> HIDE DEF n
<1>2. /\ call' \in [Request -> Running \cup {Idle}] /\ call'[p] = n
      /\ \A q \in Request \ {p} : call'[q] = call[q]
  BY <1>1, CallChanged
<1>3. \A q \in Request : call'[q] = call[q] \/ RequestOK(call'[q], row, profile, past')
  BY <1>2 DEF n
<1>4. QED
  BY <1>2, <1>3, EngineInv

\* A new account.
LEMMA OpensInv ==
  ASSUME AccountsInv, NEW p \in Request, EngineOpens(p)
  PROVE  AccountsInv'
<1>1. /\ call[p].pc = "ask" /\ call[p].op \in {"create", "register"}
      /\ UNCHANGED <<row, profile, audit>>
  BY DEF EngineOpens, At
<1> PICK l \in Login : LoginOf(p) = l
  BY <1>1, Busy
<1> DEFINE a == Opened(call[p].want.leader)
<1>2. call[p].want \in [leader : BOOLEAN] /\ RequestOK(call[p], row, profile, past)
  BY <1>1, Busy DEF RequestOK, CallOK, Asks
<1>3. a \in Account /\ a.rate = NoRate /\ Follows(l, a, {}) /\ {} \in SUBSET Status
  BY <1>2 DEF Opened, Account, Status, Follows
<1>4. Becomes(l, a, {}) /\ Reply(p, "insert", a)
  BY DEF EngineOpens
<1> HIDE DEF a
<1>5. EngineOK(a, past'[l])
  BY <1>3, <1>4, BecomesOK
<1>6. RequestOK(Replied(call[p], "insert", a), row, profile, past')
  BY <1>1, <1>2, <1>3, <1>4, <1>5, ReplyOK DEF RequestOK, CallOK, Asks
<1>7. QED
  BY <1>1, <1>3, <1>4, <1>6, AnsweredInv

\* An account or a strategy as the engine has it.
LEMMA ShowsInv ==
  ASSUME AccountsInv, NEW p \in Request, EngineShows(p)
  PROVE  AccountsInv'
<1>1. /\ call[p].pc = "ask" /\ call[p].op \in {"import", "adopt"}
      /\ UNCHANGED <<account, past, row, profile, audit>>
  BY DEF EngineShows, At
<1> PICK l \in Login : LoginOf(p) = l
  BY <1>1, Busy
<1> PICK a \in Account \cup {Absent} : a = account[l]
  BY DEF AccountsInv, AccountsTypeOK
<1>2. /\ call[p].op = "import" => a # Absent
      /\ call[p].op = "adopt" => a.rate # NoRate
      /\ Reply(p, "insert", a)
  BY DEF EngineShows, At
<1>3. EngineOK(a, past[l]) /\ RequestOK(call[p], row, profile, past)
  BY <1>1, Busy DEF AccountsInv
<1> DEFINE n == Replied(call[p], "insert", a)
<1>4. /\ n \in Running /\ call' = [call EXCEPT ![p] = n] /\ AccountsTypeOK
      /\ n.pc = "insert" /\ n.op = call[p].op /\ n.login = l /\ n.want = call[p].want
      /\ n.seen = call[p].seen /\ n.answer = a
  BY <1>1, <1>2, ReplyOK DEF AccountsInv
<1> HIDE DEF n
<1>5. RequestOK(n, row, profile, past)
  BY <1>1, <1>2, <1>3, <1>4 DEF RequestOK, CallOK, Asks, LoginOf
<1>6. /\ call' \in [Request -> Running \cup {Idle}] /\ call'[p] = n
      /\ \A q \in Request \ {p} : call'[q] = call[q]
  BY <1>4, CallChanged
<1>7. QED
  BY <1>1, <1>5, <1>6, OnlyCallsInv

\* A patch is of one column.
LEMMA PatchIs ==
  ASSUME NEW w \in Patches
  PROVE  \/ w.leader \in BOOLEAN /\ DOMAIN w = {"leader"}
         \/ w.status \in Status /\ DOMAIN w = {"status"}
<1>1. CASE w \in [leader : BOOLEAN]
  BY <1>1
<1>2. CASE w \in [status : Status]
  BY <1>2
<1>3. QED
  BY <1>1, <1>2 DEF Patches

\* What it makes of an account or a row.
LEMMA PatchedIs ==
  ASSUME NEW w \in Patches, NEW a \in Account \cup Row
  PROVE  /\ a \in Account => Patched(a, w) \in Account /\ Patched(a, w).rate = a.rate
         /\ a \in Row => Patched(a, w) \in Row
         /\ Patched(a, w).leader = IF DOMAIN w = {"leader"} THEN w.leader ELSE a.leader
         /\ Patched(a, w).status = IF DOMAIN w = {"leader"} THEN a.status ELSE w.status
<1>1. /\ DOMAIN w \in {{"leader"}, {"status"}}
      /\ DOMAIN w = {"leader"} => w.leader \in BOOLEAN
      /\ DOMAIN w = {"status"} => w.status \in Status
  BY PatchIs
<1> DEFINE x == IF DOMAIN w = {"leader"} THEN w.leader ELSE a.leader
           y == IF DOMAIN w = {"leader"} THEN a.status ELSE w.status
<1>2. x \in BOOLEAN /\ y \in Status
  BY <1>1 DEF Account, Row
<1>3. Patched(a, w) = [a EXCEPT !.leader = x, !.status = y]
  BY <1>1 DEF Patched
<1> HIDE DEF x, y
<1>4. QED
  BY <1>2, <1>3 DEF x, y, Account, Row

\* The status that it asks for.
LEMMA PatchStatus ==
  ASSUME NEW w \in Patches
  PROVE  StatusIn(w) = IF DOMAIN w = {"leader"} THEN {} ELSE {w.status}
<1>1. CASE DOMAIN w = {"leader"}
  BY <1>1 DEF StatusIn
<1>2. CASE DOMAIN w = {"status"}
  <2>1. DOMAIN w \cap {"status"} = {"status"} /\ DOMAIN w # {"leader"}
    BY <1>2
  <2>2. QED
    BY <2>1 DEF StatusIn
<1>3. QED
  BY <1>1, <1>2, PatchIs

\* A patched account follows from the patch, and what the engine says of it makes
\* the patch true of the past.
LEMMA PatchTaken ==
  ASSUME NEW w \in Patches, NEW a \in Account
  PROVE  /\ StatusIn(w) \in SUBSET Status
         /\ \A q : EngineOK(Patched(a, w), q) /\ StatusIn(w) \subseteq q.asked => PatchOK(w, q)
         /\ Patched(a, w).status = "DELETED" => a.status = "DELETED" \/ "DELETED" \in StatusIn(w)
<1>1. \/ w.leader \in BOOLEAN /\ DOMAIN w = {"leader"} /\ StatusIn(w) = {}
      \/ w.status \in Status /\ DOMAIN w = {"status"} /\ StatusIn(w) = {w.status}
  BY PatchIs, PatchStatus
<1>2. /\ Patched(a, w).leader = IF DOMAIN w = {"leader"} THEN w.leader ELSE a.leader
      /\ Patched(a, w).status = IF DOMAIN w = {"leader"} THEN a.status ELSE w.status
  BY PatchedIs
<1>3. QED
  BY <1>1, <1>2 DEF EngineOK, PatchOK

\* A change of an account.
LEMMA PatchesInv ==
  ASSUME AccountsInv, NEW p \in Request, EnginePatches(p)
  PROVE  AccountsInv'
<1>1. /\ call[p].pc = "ask" /\ call[p].op = "update" /\ UNCHANGED <<row, profile, audit>>
  BY DEF EnginePatches, At
<1> PICK l \in Login : LoginOf(p) = l
  BY <1>1, Busy
<1> PICK old \in Account : old = account[l]
  BY DEF AccountsInv, AccountsTypeOK, EnginePatches
<1>2. call[p].want \in Patches /\ RequestOK(call[p], row, profile, past)
  BY <1>1, Busy, AccountsAssumption DEF RequestOK, CallOK, Asks
<1> PICK a \in Account : a = Patched(old, call[p].want)
  BY <1>2, PatchedIs
<1> PICK X \in SUBSET Status : X = StatusIn(call[p].want)
  BY <1>2, PatchTaken
<1>3. Follows(l, a, X)
  <2>1. a.rate = old.rate
    BY <1>2, PatchedIs
  <2>2. a.rate # NoRate => past[l].led
    BY <2>1 DEF AccountsInv, EngineOK
  <2>3. QED
    BY <1>2, <2>2, PatchTaken DEF Follows
<1>4. Becomes(l, a, X) /\ Reply(p, "write", a)
  BY DEF EnginePatches
<1>5. EngineOK(a, past'[l]) /\ X \subseteq past'[l].asked
  BY <1>3, <1>4, BecomesOK
<1>6. PatchOK(call[p].want, past'[l])
  BY <1>2, <1>5, PatchTaken
<1>7. RequestOK(Replied(call[p], "write", a), row, profile, past')
  BY <1>1, <1>2, <1>4, <1>6, ReplyOK DEF RequestOK, CallOK, Asks, LoginOf
<1>8. QED
  BY <1>1, <1>3, <1>4, <1>7, AnsweredInv

\* The capability of an account that is to be a strategy.
LEMMA EnablesInv ==
  ASSUME AccountsInv, NEW p \in Request, EngineEnables(p)
  PROVE  AccountsInv'
<1>1. /\ call[p].pc = "enable" /\ call[p].op = "profile" /\ UNCHANGED <<row, profile, audit>>
  BY DEF EngineEnables, At
<1> PICK l \in Login : LoginOf(p) = l
  BY <1>1, Busy
<1> PICK old \in Account : old = account[l]
  BY DEF AccountsInv, AccountsTypeOK, EngineEnables
<1> PICK a \in Account : a = [old EXCEPT !.leader = TRUE]
  BY DEF Account
<1>2. RequestOK(call[p], row, profile, past)
  BY <1>1, Busy
<1>3. a.leader /\ Follows(l, a, {}) /\ {} \in SUBSET Status
  BY DEF Account, Follows
<1>4. Becomes(l, a, {}) /\ Reply(p, "enabled", a)
  BY DEF EngineEnables
<1>5. EngineOK(a, past'[l])
  BY <1>3, <1>4, BecomesOK
<1>6. RequestOK(Replied(call[p], "enabled", a), row, profile, past')
  BY <1>1, <1>2, <1>3, <1>4, <1>5, ReplyOK DEF RequestOK, CallOK, Asks, LoginOf, EngineOK
<1>7. QED
  BY <1>1, <1>3, <1>4, <1>6, AnsweredInv

\* A rate.
LEMMA RatesInv ==
  ASSUME AccountsInv, NEW p \in Request, EngineRates(p)
  PROVE  AccountsInv'
<1>1. /\ call[p].pc = "ask" /\ call[p].op \in {"profile", "rate"}
      /\ UNCHANGED <<row, profile, audit>>
  BY DEF EngineRates, At
<1> PICK l \in Login : LoginOf(p) = l
  BY <1>1, Busy
<1>2. call[p].want \in Rate /\ RequestOK(call[p], row, profile, past)
  BY <1>1, Busy DEF RequestOK, CallOK, Asks
<1> PICK r \in Rate : r = call[p].want
  BY <1>2
<1>3. account[l] # Absent /\ (account[l].leader \/ account[l].rate # NoRate)
  BY DEF EngineRates, Absent
<1> PICK old \in Account : old = account[l]
  BY <1>3 DEF AccountsInv, AccountsTypeOK
<1> PICK a \in Account : a = [old EXCEPT !.rate = r]
  BY DEF Account
<1>4. a.rate = r /\ r # NoRate /\ Follows(l, a, {}) /\ {} \in SUBSET Status
  BY <1>3, AccountsAssumption DEF AccountsInv, EngineOK, Account, Follows
<1> PICK pc \in {"write", "insert"} : pc = IF call[p].op = "rate" THEN "write" ELSE "insert"
  OBVIOUS
<1>5. Becomes(l, a, {}) /\ Reply(p, pc, a)
  BY DEF EngineRates
<1>6. EngineOK(a, past'[l])
  BY <1>4, <1>5, BecomesOK
<1>7. r \in past'[l].rates
  BY <1>4, <1>6 DEF EngineOK
<1> DEFINE n == Replied(call[p], pc, a)
<1>8. /\ n.pc = pc /\ n.op = call[p].op /\ n.login = l /\ n.want = call[p].want
      /\ n.seen = call[p].seen /\ (pc = "insert" => n.answer = a)
  BY <1>1, <1>5, ReplyOK
<1> HIDE DEF n
<1>9. RequestOK(n, row, profile, past')
  <2>1. /\ Asks(n) /\ row[l] # NoRow
        /\ n.op = "rate" => profile[l] # NoRate
    BY <1>1, <1>2, <1>8 DEF RequestOK, CallOK, Asks, LoginOf
  <2>2. CASE n.op = "rate"
    BY <1>2, <1>7, <1>8, <2>1, <2>2 DEF RequestOK, CallOK
  <2>3. CASE n.op = "profile"
    BY <1>4, <1>6, <1>8, <2>1, <2>3 DEF RequestOK, CallOK
  <2>4. QED
    BY <1>1, <1>8, <2>2, <2>3
<1>10. QED
  BY <1>1, <1>4, <1>5, <1>9, AnsweredInv DEF n

\* The engine serves others.
LEMMA OthersInv ==
  ASSUME AccountsInv, NEW l \in Login, OthersAct(l)
  PROVE  AccountsInv'
<1>1. UNCHANGED <<row, profile, audit, call>> /\ call \in [Request -> Running \cup {Idle}]
  BY DEF OthersAct, AccountsInv, AccountsTypeOK
<1>2. ASSUME NEW a \in Account, NEW X \in SUBSET Status, Becomes(l, a, X), Follows(l, a, X)
      PROVE  AccountsInv'
  BY <1>1, <1>2, EngineInv
<1>3. ASSUME NEW b \in BOOLEAN, Becomes(l, Opened(b), {})
      PROVE  AccountsInv'
  <2>1. Opened(b) \in Account /\ Follows(l, Opened(b), {}) /\ {} \in SUBSET Status
    BY DEF Opened, Account, Status, Follows
  <2>2. QED
    BY <1>2, <1>3, <2>1
<1>4. account[l] # Absent => account[l] \in Account
  BY DEF AccountsInv, AccountsTypeOK
<1>5. ASSUME NEW w \in Patch, account[l] # Absent,
             Becomes(l, Patched(account[l], w), StatusIn(w))
      PROVE  AccountsInv'
  <2>1. w \in Patches
    BY AccountsAssumption
  <2> PICK old \in Account : old = account[l]
    BY <1>4, <1>5
  <2>2. Patched(old, w) \in Account /\ Patched(old, w).rate = old.rate
    BY <2>1, PatchedIs
  <2>3. old.rate # NoRate => past[l].led
    BY DEF AccountsInv, EngineOK
  <2>4. Follows(l, Patched(old, w), StatusIn(w)) /\ StatusIn(w) \in SUBSET Status
    BY <2>1, <2>2, <2>3, PatchTaken DEF Follows
  <2>5. QED
    BY <1>2, <1>5, <2>2, <2>4
<1>6. ASSUME NEW r \in Rate, account[l].leader, Becomes(l, [account[l] EXCEPT !.rate = r], {})
      PROVE  AccountsInv'
  <2>1. account[l] \in Account
    BY <1>4, <1>6 DEF Absent
  <2> PICK a \in Account : a = [account[l] EXCEPT !.rate = r]
    BY <2>1 DEF Account
  <2>2. Follows(l, a, {}) /\ {} \in SUBSET Status
    BY <1>6, <2>1 DEF Account, Follows
  <2>3. QED
    BY <1>2, <1>6, <2>2
<1>7. QED
  BY <1>3, <1>5, <1>6 DEF OthersAct

-----------------------------------------------------------------------------
(* What requests write *)

\* A request writes what it knows and ends, or goes on to ask.
LEMMA WritesInv ==
  ASSUME AccountsInv, UNCHANGED <<account, past>>, NEW p \in Request, NEW l \in Login,
         NEW o \in Row \cup {NoRow}, NEW f \in Profile, NEW u \in Audit,
         row' = [row EXCEPT ![l] = o], profile' = [profile EXCEPT ![l] = f],
         audit' = [audit EXCEPT ![l] = u],
         RowOK(o, past[l]), ProfileOK(f, u, o, past[l]),
         row[l] # NoRow => o # NoRow, profile[l] # NoRate => f # NoRate,
         NEW n \in Running \cup {Idle}, call' = [call EXCEPT ![p] = n],
         RequestOK(n, row', profile', past')
  PROVE  AccountsInv'
<1>1. AccountsTypeOK
  BY DEF AccountsInv
<1>2. /\ call' \in [Request -> Running \cup {Idle}] /\ call'[p] = n
      /\ \A q \in Request \ {p} : call'[q] = call[q]
  BY <1>1, CallChanged
<1>3. /\ row' \in [Login -> Row \cup {NoRow}] /\ profile' \in [Login -> Profile]
      /\ audit' \in [Login -> Audit] /\ row'[l] = o /\ profile'[l] = f /\ audit'[l] = u
      /\ \A m \in Login \ {l} : row'[m] = row[m] /\ profile'[m] = profile[m] /\ audit'[m] = audit[m]
  BY <1>1 DEF AccountsTypeOK
<1>4. AccountsTypeOK'
  BY <1>1, <1>2, <1>3 DEF AccountsTypeOK
<1>5. Later
  BY <1>3 DEF Later, Grows
<1>6. \A m \in Login : /\ EngineOK(account'[m], past'[m]) /\ RowOK(row'[m], past'[m])
                       /\ ProfileOK(profile'[m], audit'[m], row'[m], past'[m])
  BY <1>3 DEF AccountsInv
<1>7. \A q \in Request : call'[q] = call[q] \/ RequestOK(call'[q], row', profile', past')
  BY <1>2
<1>8. QED
  BY <1>4, <1>5, <1>6, <1>7, AccountsStep

\* A new row is as the engine said.
LEMMA InsertRowInv ==
  ASSUME AccountsInv, NEW p \in Request, InsertRow(p)
  PROVE  AccountsInv'
<1>1. /\ call[p].pc = "insert" /\ call[p].op \in {"create", "register", "import"}
      /\ UNCHANGED <<account, past, profile, audit>> /\ call' = [call EXCEPT ![p] = Idle]
      /\ AccountsTypeOK
  BY DEF InsertRow, End, AccountsInv
<1> PICK l \in Login : LoginOf(p) = l
  BY <1>1, Busy
<1>2. RequestOK(Idle, row', profile', past')
  BY IdleKnows
<1>3. CASE row[l] # NoRow
  <2>1. UNCHANGED row
    BY <1>3 DEF InsertRow
  <2>2. \A q \in Request : call'[q] = call[q] \/ RequestOK(call'[q], row, profile, past)
    BY <1>1, CallChanged, IdleKnows
  <2>3. QED
    BY <1>1, <2>1, <2>2, CallChanged, OnlyCallsInv
<1>4. CASE row[l] = NoRow
  <2> DEFINE o == [status |-> Answer(p).status, leader |-> Answer(p).leader]
  <2>1. EngineOK(Answer(p), past[l]) /\ Answer(p) \in Account
    BY <1>1, Busy DEF RequestOK, CallOK, Answer, LoginOf
  <2>2. o \in Row /\ o # NoRow /\ RowOK(o, past[l])
    BY <2>1 DEF Row, NoRow, Status, Account, RowOK, EngineOK
  <2>3. row' = [row EXCEPT ![l] = o]
    BY <1>4 DEF InsertRow
  <2>4. /\ profile' = [profile EXCEPT ![l] = profile[l]] /\ profile[l] \in Profile
        /\ audit' = [audit EXCEPT ![l] = audit[l]] /\ audit[l] \in Audit
    BY <1>1 DEF AccountsTypeOK
  <2>5. ProfileOK(profile[l], audit[l], o, past[l])
    BY <2>2 DEF AccountsInv, ProfileOK
  <2> HIDE DEF o
  <2>6. QED
    BY <1>1, <1>2, <2>2, <2>3, <2>4, <2>5, WritesInv
<1>5. QED
  BY <1>3, <1>4

\* The columns of a row that a change w, true of the past, is written to.
LEMMA WrittenIs ==
  ASSUME AccountsInv, NEW p \in Request, call[p].pc # "idle", call[p].op \in {"update", "profile"},
         NEW l \in Login, LoginOf(p) = l, NEW w \in Patches,
         w = IF call[p].op = "update" THEN call[p].want ELSE [leader |-> TRUE],
         PatchOK(w, past[l]), Written(p)
  PROVE  \E o \in Row : /\ row' = [row EXCEPT ![l] = o] /\ RowOK(o, past[l])
                        /\ o.status = row[l].status \/ o.status \in past[l].asked
<1>1. Seen(p) \in Row /\ row[l] # NoRow /\ AccountsTypeOK
  BY Busy DEF RequestOK, CallOK, Asks, Seen, LoginOf, AccountsInv
<1> PICK old \in Row : old = row[l]
  BY <1>1 DEF AccountsTypeOK
<1> PICK seen \in Row : seen = Seen(p)
  BY <1>1
<1> PICK new \in Row : new = Patched(seen, w)
  BY PatchedIs
<1>2. /\ new.leader = IF DOMAIN w = {"leader"} THEN w.leader ELSE seen.leader
      /\ new.status = IF DOMAIN w = {"leader"} THEN seen.status ELSE w.status
  BY PatchedIs
<1> DEFINE status == IF new.status = seen.status THEN old.status ELSE new.status
           leader == IF new.leader = seen.leader THEN old.leader ELSE new.leader
           o == [old EXCEPT !.status = status, !.leader = leader]
<1>3. status \in Status /\ leader \in BOOLEAN
  BY DEF Row
<1>4. row' = [row EXCEPT ![l] = o]
  <2>1. row' = [row EXCEPT ![l].status = IF new.status = seen.status THEN @ ELSE new.status,
                           ![l].leader = IF new.leader = seen.leader THEN @ ELSE new.leader]
    BY DEF Written
  <2>2. QED
    BY <1>1, <2>1 DEF AccountsTypeOK, Row
<1>5. RowOK(old, past[l])
  BY DEF AccountsInv
<1>6. leader => past[l].led
  BY <1>2, <1>5, PatchIs DEF RowOK, PatchOK
<1>7. /\ status = "DELETED" => past[l].ended \/ "DELETED" \in past[l].asked
      /\ status = old.status \/ status \in past[l].asked
  BY <1>2, <1>5, PatchIs DEF RowOK, PatchOK
<1> HIDE DEF status, leader
<1>8. o \in Row /\ o.status = status /\ o.leader = leader
  BY <1>3 DEF Row
<1>9. QED
  BY <1>4, <1>6, <1>7, <1>8 DEF RowOK

\* A row that is written again.
LEMMA RewritesInv ==
  ASSUME AccountsInv, UNCHANGED <<account, past, profile, audit>>, NEW p \in Request, NEW l \in Login,
         NEW o \in Row, row' = [row EXCEPT ![l] = o], RowOK(o, past[l]),
         NEW n \in Running \cup {Idle}, call' = [call EXCEPT ![p] = n],
         RequestOK(n, row', profile', past')
  PROVE  AccountsInv'
<1>1. AccountsTypeOK
  BY DEF AccountsInv
<1>2. /\ profile' = [profile EXCEPT ![l] = profile[l]] /\ profile[l] \in Profile
      /\ audit' = [audit EXCEPT ![l] = audit[l]] /\ audit[l] \in Audit
  BY <1>1 DEF AccountsTypeOK
<1>3. o # NoRow
  BY DEF Row, NoRow, Status
<1>4. ProfileOK(profile[l], audit[l], o, past[l])
  BY <1>3 DEF AccountsInv, ProfileOK
<1>5. QED
  BY <1>2, <1>3, <1>4, WritesInv

\* What the engine has accepted is written.
LEMMA WriteUpdateInv ==
  ASSUME AccountsInv, NEW p \in Request, WriteUpdate(p)
  PROVE  AccountsInv'
<1>1. /\ call[p].pc = "write" /\ call[p].op = "update" /\ Written(p)
      /\ UNCHANGED <<account, past, profile, audit>> /\ call' = [call EXCEPT ![p] = Idle]
  BY DEF WriteUpdate, At, End
<1> PICK l \in Login : LoginOf(p) = l
  BY <1>1, Busy
<1> PICK w \in Patches : w = call[p].want
  BY <1>1, Busy, AccountsAssumption DEF RequestOK, CallOK, Asks
<1>2. PatchOK(w, past[l])
  BY <1>1, Busy DEF RequestOK, CallOK, LoginOf
<1> PICK o \in Row : row' = [row EXCEPT ![l] = o] /\ RowOK(o, past[l])
  BY <1>1, <1>2, WrittenIs
<1>3. QED
  BY <1>1, IdleKnows, RewritesInv

\* The capability is written before the profile is asked for.
LEMMA WriteEnabledInv ==
  ASSUME AccountsInv, NEW p \in Request, WriteEnabled(p)
  PROVE  AccountsInv'
<1>1. /\ call[p].pc = "enabled" /\ call[p].op = "profile" /\ Written(p)
      /\ UNCHANGED <<account, past, profile, audit>> /\ Goto(p, "ask") /\ AccountsTypeOK
  BY DEF WriteEnabled, At, AccountsInv
<1> PICK l \in Login : LoginOf(p) = l
  BY <1>1, Busy
<1> PICK w \in Patches : w = [leader |-> TRUE]
  BY DEF Patches
<1>2. PatchOK(w, past[l]) /\ RequestOK(call[p], row, profile, past) /\ call[p] \in Running
  BY <1>1, Busy DEF RequestOK, CallOK, LoginOf, PatchOK
<1> PICK o \in Row : row' = [row EXCEPT ![l] = o] /\ RowOK(o, past[l])
  BY <1>1, <1>2, WrittenIs
<1> DEFINE n == [call[p] EXCEPT !.pc = "ask"]
<1>3. /\ n \in Running /\ n.pc = "ask" /\ n.op = "profile" /\ n.want = call[p].want
      /\ n.seen = call[p].seen /\ n.login = l
  BY <1>1, <1>2 DEF Running, LoginOf
<1>4. call' = [call EXCEPT ![p] = n]
  BY <1>1 DEF Goto, AccountsTypeOK
<1>5. row'[l] # NoRow
  BY <1>1 DEF AccountsTypeOK, Row, NoRow, Status
<1> HIDE DEF n
<1>6. RequestOK(n, row', profile', past')
  BY <1>1, <1>2, <1>3, <1>5 DEF RequestOK, CallOK, Asks
<1>7. QED
  BY <1>1, <1>3, <1>4, <1>6, RewritesInv

\* The row of a profile or a rate is not touched.
LEMMA ProfilesInv ==
  ASSUME AccountsInv, UNCHANGED <<account, past, row>>, NEW p \in Request, NEW l \in Login,
         NEW f \in Profile, NEW u \in Audit,
         profile' = [profile EXCEPT ![l] = f], audit' = [audit EXCEPT ![l] = u],
         ProfileOK(f, u, row[l], past[l]), profile[l] # NoRate => f # NoRate,
         call' = [call EXCEPT ![p] = Idle]
  PROVE  AccountsInv'
<1>1. AccountsTypeOK /\ RowOK(row[l], past[l])
  BY DEF AccountsInv
<1>2. row' = [row EXCEPT ![l] = row[l]] /\ row[l] \in Row \cup {NoRow}
  BY <1>1 DEF AccountsTypeOK
<1>3. RequestOK(Idle, row', profile', past')
  BY IdleKnows
<1>4. QED
  BY <1>1, <1>2, <1>3, WritesInv

\* A new profile has the rate that the engine said.
LEMMA InsertProfileInv ==
  ASSUME AccountsInv, NEW p \in Request, InsertProfile(p)
  PROVE  AccountsInv'
<1>1. /\ call[p].pc = "insert" /\ call[p].op \in {"profile", "adopt"}
      /\ UNCHANGED <<account, past, row, audit>> /\ call' = [call EXCEPT ![p] = Idle]
      /\ AccountsTypeOK
  BY DEF InsertProfile, At, End, AccountsInv
<1> PICK l \in Login : LoginOf(p) = l
  BY <1>1, Busy
<1>2. /\ EngineOK(Answer(p), past[l]) /\ Answer(p).rate # NoRate /\ row[l] # NoRow
      /\ Answer(p).rate \in Rate
  <2>1. call[p] \in Running /\ RequestOK(call[p], row, profile, past)
    BY <1>1, Busy
  <2>2. EngineOK(Answer(p), past[l]) /\ Answer(p).rate # NoRate /\ row[l] # NoRow
    BY <1>1, <2>1 DEF RequestOK, CallOK, Answer, LoginOf
  <2>3. past[l].rates \in SUBSET Rate
    BY <1>1 DEF AccountsTypeOK, Past
  <2>4. QED
    BY <2>2, <2>3 DEF EngineOK
<1> DEFINE f == IF profile[l] = NoRate THEN Answer(p).rate ELSE profile[l]
<1>3. f \in Profile /\ (profile[l] # NoRate => f # NoRate)
  BY <1>1, <1>2 DEF AccountsTypeOK, Profile
<1>4. ProfileOK(f, audit[l], row[l], past[l])
  BY <1>2 DEF AccountsInv, ProfileOK, EngineOK
<1>5. profile' = [profile EXCEPT ![l] = f]
  BY <1>1 DEF InsertProfile, AccountsTypeOK
<1>6. audit' = [audit EXCEPT ![l] = audit[l]] /\ audit[l] \in Audit
  BY <1>1 DEF AccountsTypeOK
<1> HIDE DEF f
<1>7. QED
  BY <1>1, <1>3, <1>4, <1>5, <1>6, ProfilesInv

\* A new rate, and its audit.
LEMMA WriteRateInv ==
  ASSUME AccountsInv, NEW p \in Request, WriteRate(p)
  PROVE  AccountsInv'
<1>1. /\ call[p].pc = "write" /\ call[p].op = "rate"
      /\ UNCHANGED <<account, past, row>> /\ call' = [call EXCEPT ![p] = Idle]
      /\ AccountsTypeOK
  BY DEF WriteRate, At, End, AccountsInv
<1> PICK l \in Login : LoginOf(p) = l
  BY <1>1, Busy
<1> PICK u \in Rate : u = call[p].want
  BY <1>1, Busy DEF RequestOK, CallOK, Asks
<1>2. u \in past[l].rates /\ profile[l] # NoRate
  BY <1>1, Busy DEF RequestOK, CallOK, LoginOf
<1> DEFINE f == IF u = call[p].rate THEN profile[l] ELSE u
<1>3. f \in Profile /\ f # NoRate /\ u \in Audit
  BY <1>1, <1>2, AccountsAssumption DEF AccountsTypeOK, Profile, Audit
<1>4. ProfileOK(f, u, row[l], past[l])
  BY <1>2 DEF AccountsInv, ProfileOK
<1>5. profile' = [profile EXCEPT ![l] = f] /\ audit' = [audit EXCEPT ![l] = u]
  BY <1>1 DEF WriteRate, AccountsTypeOK
<1> HIDE DEF f
<1>6. QED
  BY <1>1, <1>3, <1>4, <1>5, ProfilesInv

\* A request that is refused or dies.
LEMMA AbandonInv ==
  ASSUME AccountsInv, NEW p \in Request, Abandon(p)
  PROVE  AccountsInv'
<1>1. /\ UNCHANGED <<account, past, row, profile, audit>> /\ call' = [call EXCEPT ![p] = Idle]
      /\ AccountsTypeOK
  BY DEF Abandon, End, AccountsInv
<1>2. QED
  BY <1>1, CallChanged, IdleKnows, OnlyCallsInv

\* Every step of Accounts.
LEMMA AccountsNextInv == AccountsInv /\ AccountsNext => AccountsInv'
BY RequestsInv, OpensInv, ShowsInv, PatchesInv, EnablesInv, RatesInv, InsertRowInv,
   WriteUpdateInv, WriteEnabledInv, InsertProfileInv, WriteRateInv, AbandonInv, OthersInv
   DEF AccountsNext, Handled

\* The first state of Accounts.
LEMMA AccountsInitInv == AccountsInit => AccountsInv
<1> SUFFICES ASSUME AccountsInit PROVE AccountsInv
  OBVIOUS
<1>1. AccountsTypeOK
  BY DEF AccountsInit, AccountsTypeOK, Past, Profile, Audit
<1>2. ASSUME NEW l \in Login
      PROVE  /\ EngineOK(account[l], past[l]) /\ RowOK(row[l], past[l])
             /\ ProfileOK(profile[l], audit[l], row[l], past[l])
  BY DEF AccountsInit, EngineOK, RowOK, ProfileOK, Absent, NoRow
<1>3. \A p \in Request : RequestOK(call[p], row, profile, past)
  BY IdleKnows DEF AccountsInit
<1>4. QED
  BY <1>1, <1>2, <1>3 DEF AccountsInv

-----------------------------------------------------------------------------
(* Deletions *)

Creating == {"create", "created"}
Following == {"poll", "polled", "resend", "resent"}

\* The row o of a deletion, what the engine says u of it, and the pasts Q.
DeletionOK(o, u, Q) ==
  /\ u # NoAnswer => o # NoOp
  /\ o # NoOp => /\ o.known => u # NoAnswer
                 /\ o.status = "COMPLETED" \/ o.completed => u = "COMPLETED"
                 /\ u = "COMPLETED" => Q[o.login].ended

\* What a worker x knows of its deletion: of a new one, that nobody else writes
\* it; of one that it follows, what is never taken back.
CreatorKnows(x, o, u) ==
  /\ x.seen \in Row
  /\ x.pc \in Creating => o # NoOp /\ o.login = x.login /\ ~o.known /\ ~o.completed
  /\ x.pc = "create" => u = NoAnswer
  /\ x.pc = "created" => x.answer \in {"PENDING", "COMPLETED"} /\ u # NoAnswer
FollowerKnows(x, o) ==
  /\ o # NoOp /\ o.login = x.login /\ o.known
  /\ x.seen \in Operation /\ (x.seen.completed => o.completed)
  /\ x.pc \in {"polled", "resent"} => x.answer \in Progress
WorkerKnows(x, o, u) ==
  x.pc # "idle" => /\ x.pc \notin Following => CreatorKnows(x, o, u)
                   /\ x.pc \in Following => FollowerKnows(x, o)
                   /\ x.answer = "COMPLETED" => u = "COMPLETED"
WorkerOK(x, O, U) == WorkerKnows(x, O[x.del], U[x.del])

\* No two workers create one deletion.
Creates(w, d) == worker[w].pc \in Creating /\ worker[w].del = d
Alone == \A v, w \in Worker : \A d \in Deletion : Creates(v, d) /\ Creates(w, d) => v = w

\* What the pass knows of a deletion d that it asks about.
CronKnows(c, d, o, u) ==
  d \in c.left \/ c.answer[d] # NoAnswer =>
    /\ o # NoOp /\ o.known
    /\ c.seen[d] \in Operation /\ (c.seen[d].completed => o.completed)
    /\ c.answer[d] = "COMPLETED" => u = "COMPLETED"

DeletionType ==
  /\ purge \in [Deletion -> Progress \cup {NoAnswer}]
  /\ op \in [Deletion -> Operation \cup {NoOp}]
  /\ worker \in [Worker -> Working \cup {Off}]
  /\ cron \in Polling

DeletionInv ==
  /\ AccountsInv /\ DeletionType
  /\ \A d \in Deletion : DeletionOK(op[d], purge[d], past) /\ CronKnows(cron, d, op[d], purge[d])
  /\ \A w \in Worker : WorkerOK(worker[w], op, purge)
  /\ Alone

\* What is never taken back of the rows and of what the engine says, and what a
\* step leaves to the creator of the deletion d.
Kept ==
  \A d \in Deletion :
    /\ op[d] # NoOp => /\ op'[d] # NoOp /\ op'[d].login = op[d].login
                       /\ op[d].known => op'[d].known
                       /\ op[d].completed => op'[d].completed
    /\ purge[d] = "COMPLETED" => purge'[d] = "COMPLETED"
LeavesCreator(d) ==
  op[d] # NoOp /\ ~op[d].known /\ ~op[d].completed =>
    /\ ~op'[d].known /\ ~op'[d].completed
    /\ purge[d] = NoAnswer <=> purge'[d] = NoAnswer

\* What a worker knows stays true.
LEMMA WorkerStays ==
  ASSUME NEW x \in Working \cup {Off}, WorkerOK(x, op, purge), Kept,
         \A d \in Deletion : x.pc \in Creating /\ x.del = d => LeavesCreator(d)
  PROVE  WorkerOK(x, op', purge')
<1>1. CASE x = Off
  BY <1>1 DEF WorkerOK, WorkerKnows, Off
<1>2. CASE x \in Working
  <2>1. PICK d \in Deletion : d = x.del
    BY <1>2 DEF Working
  <2>2. WorkerKnows(x, op[d], purge[d])
    BY <2>1 DEF WorkerOK
  <2>3. x.answer = "COMPLETED" /\ x.pc # "idle" => purge'[d] = "COMPLETED"
    BY <2>2 DEF WorkerKnows, Kept
  <2>4. x.pc # "idle" /\ x.pc \in Following => FollowerKnows(x, op'[d])
    BY <2>2 DEF WorkerKnows, FollowerKnows, Kept
  <2>5. x.pc # "idle" /\ x.pc \notin Following => CreatorKnows(x, op'[d], purge'[d])
    BY <2>1, <2>2 DEF WorkerKnows, CreatorKnows, Kept, LeavesCreator, Creating
  <2>6. QED
    BY <2>1, <2>3, <2>4, <2>5 DEF WorkerOK, WorkerKnows
<1>3. QED
  BY <1>1, <1>2

\* What the pass knows stays true.
LEMMA CronStays ==
  ASSUME NEW c, NEW d \in Deletion, CronKnows(c, d, op[d], purge[d]), Kept
  PROVE  CronKnows(c, d, op'[d], purge'[d])
BY DEF CronKnows, Kept

\* What the step of one worker, that goes on as n, has to establish.
LEMMA WorkerStep ==
  ASSUME DeletionInv, AccountsInv', NEW w \in Worker, NEW n \in Working \cup {Off},
         worker' = [worker EXCEPT ![w] = n], UNCHANGED cron,
         purge' \in [Deletion -> Progress \cup {NoAnswer}],
         op' \in [Deletion -> Operation \cup {NoOp}],
         Kept, \A d \in Deletion : Creates(w, d) \/ LeavesCreator(d),
         \A d \in Deletion : n.pc \in Creating /\ n.del = d => Creates(w, d) \/ op[d] = NoOp,
         \A d \in Deletion : DeletionOK(op'[d], purge'[d], past'),
         WorkerOK(n, op', purge')
  PROVE  DeletionInv'
<1>1. /\ worker' \in [Worker -> Working \cup {Off}] /\ worker'[w] = n
      /\ \A v \in Worker \ {w} : worker'[v] = worker[v]
  BY DEF DeletionInv, DeletionType
<1>2. DeletionType'
  BY <1>1 DEF DeletionInv, DeletionType
<1>3. \A v \in Worker : worker[v] \in Working \cup {Off} /\ WorkerOK(worker[v], op, purge)
  BY DEF DeletionInv, DeletionType
<1>4. ASSUME NEW v \in Worker \ {w}
      PROVE  WorkerOK(worker'[v], op', purge')
  <2>1. \A d \in Deletion : Creates(v, d) => LeavesCreator(d)
    BY DEF DeletionInv, Alone
  <2>2. WorkerOK(worker[v], op', purge')
    BY <1>3, <2>1, WorkerStays DEF Creates
  <2>3. QED
    BY <1>1, <2>2
<1>5. \A v \in Worker : WorkerOK(worker'[v], op', purge')
  BY <1>1, <1>4
<1>6. \A d \in Deletion : CronKnows(cron', d, op'[d], purge'[d])
  BY CronStays DEF DeletionInv
<1>7. Alone'
  <2>1. ASSUME NEW v \in Worker, NEW d \in Deletion, Creates(v, d)
        PROVE  op[d] # NoOp
    BY <1>3, <2>1 DEF Creates, WorkerOK, WorkerKnows, CreatorKnows, Creating, Following
  <2>2. \A v \in Worker \ {w} : \A d \in Deletion : Creates(v, d)' <=> Creates(v, d)
    BY <1>1 DEF Creates
  <2>3. \A d \in Deletion : Creates(w, d)' => Creates(w, d) \/ op[d] = NoOp
    BY <1>1 DEF Creates
  <2>4. QED
    BY <2>1, <2>2, <2>3 DEF Alone, DeletionInv
<1>8. QED
  BY <1>2, <1>5, <1>6, <1>7 DEF DeletionInv

\* Steps that leave accounts and rows alone.
LEMMA AccountsKept ==
  ASSUME AccountsInv, UNCHANGED <<account, past, row, profile, audit, call>>
  PROVE  AccountsInv'
BY DEF AccountsInv, AccountsTypeOK

\* A worker goes on without having written anything.
LEMMA WorkerOnly ==
  ASSUME DeletionInv, UNCHANGED <<account, past, row, profile, audit, call>>,
         NEW w \in Worker, NEW n \in Working \cup {Off},
         worker' = [worker EXCEPT ![w] = n], UNCHANGED <<purge, op, cron>>,
         \A d \in Deletion : n.pc \in Creating /\ n.del = d => Creates(w, d) \/ op[d] = NoOp,
         WorkerOK(n, op, purge)
  PROVE  DeletionInv'
<1>1. AccountsInv'
  BY AccountsKept DEF DeletionInv
<1>2. /\ purge' \in [Deletion -> Progress \cup {NoAnswer}]
      /\ op' \in [Deletion -> Operation \cup {NoOp}]
      /\ \A d \in Deletion : DeletionOK(op'[d], purge'[d], past')
  BY DEF DeletionInv, DeletionType
<1>3. Kept /\ \A d \in Deletion : LeavesCreator(d)
  BY DEF Kept, LeavesCreator
<1>4. WorkerOK(n, op', purge')
  OBVIOUS
<1>5. QED
  BY <1>1, <1>2, <1>3, <1>4, WorkerStep

\* The deletion of the account of l gets on in the engine.
LEMMA PurgeOK ==
  ASSUME DeletionInv, NEW d \in Deletion, NEW l \in Login, NEW status \in Progress,
         Purge(d, l, status), op[d] # NoOp, op[d].login = l, purge[d] # "COMPLETED",
         UNCHANGED <<row, profile, audit, call, op>>
  PROVE  /\ AccountsInv' /\ Kept
         /\ purge' \in [Deletion -> Progress \cup {NoAnswer}] /\ purge'[d] = status
         /\ \A e \in Deletion : /\ DeletionOK(op'[e], purge'[e], past')
                                /\ e # d \/ purge[d] # NoAnswer => LeavesCreator(e)
<1>1. AccountsInv /\ DeletionType
  BY DEF DeletionInv
<1>2. /\ purge' \in [Deletion -> Progress \cup {NoAnswer}] /\ purge'[d] = status
      /\ \A e \in Deletion \ {d} : purge'[e] = purge[e]
  BY <1>1 DEF DeletionType, Purge
<1>3. status # NoAnswer
  BY DEF Progress, Terminal, NoAnswer
<1>4. Kept /\ \A e \in Deletion : e # d \/ purge[d] # NoAnswer => LeavesCreator(e)
  BY <1>2, <1>3 DEF Kept, LeavesCreator
<1>5. /\ AccountsInv' /\ (status = "COMPLETED" => past'[l].ended)
      /\ \A m \in Login : past[m].ended => past'[m].ended
  <2>1. CASE status = "COMPLETED"
    <3>1. Becomes(l, Absent, {})
      BY <2>1 DEF Purge
    <3>2. past'[l].ended /\ \A m \in Login : past[m].ended => past'[m].ended
      BY <1>1, <3>1 DEF Becomes, Absent, AccountsInv, AccountsTypeOK
    <3>3. /\ Follows(l, Absent, {}) /\ {} \in SUBSET Status
          /\ call' \in [Request -> Running \cup {Idle}]
      BY <1>1 DEF Absent, AccountsInv, AccountsTypeOK, Follows
    <3>4. AccountsInv'
      BY <1>1, <3>1, <3>3, EngineInv
    <3>5. QED
      BY <3>2, <3>4
  <2>2. CASE status # "COMPLETED"
    <3>1. UNCHANGED <<account, past>>
      BY <2>2 DEF Purge
    <3>2. QED
      BY <1>1, <2>2, <3>1, AccountsKept
  <2>3. QED
    BY <2>1, <2>2
<1>6. ASSUME NEW e \in Deletion
      PROVE  DeletionOK(op'[e], purge'[e], past')
  <2>1. DeletionOK(op[e], purge[e], past)
    BY DEF DeletionInv
  <2>2. op[e] # NoOp => op[e].login \in Login
    BY <1>1 DEF DeletionType, Operation
  <2>3. CASE e # d
    BY <1>2, <1>5, <2>1, <2>2, <2>3 DEF DeletionOK
  <2>4. CASE e = d
    BY <1>2, <1>3, <1>5, <2>1, <2>4 DEF DeletionOK
  <2>5. QED
    BY <2>3, <2>4
<1>7. QED
  BY <1>2, <1>4, <1>5, <1>6

-----------------------------------------------------------------------------
(* What the engine does with deletions *)

\* A row that is marked.
LEMMA MarkedIs ==
  ASSUME NEW old \in Row \cup {NoRow}
  PROVE  \E o \in Row : /\ o = [old EXCEPT !.status = "DELETED"]
                        /\ o.status = "DELETED" /\ o.leader = old.leader /\ o # NoRow
<1> DEFINE o == [status |-> "DELETED", leader |-> old.leader]
<1>1. old.leader \in BOOLEAN
  <2>1. CASE old \in Row
    BY <2>1 DEF Row
  <2>2. CASE old = NoRow
    BY <2>2 DEF NoRow
  <2>3. QED
    BY <2>1, <2>2
<1>2. o = [old EXCEPT !.status = "DELETED"]
  <2> DEFINE Any == [status : Status \cup {"NONE"}, leader : BOOLEAN]
             m == [old EXCEPT !.status = "DELETED"]
  <2>1. old \in Any
    <3>1. NoRow \in Any /\ Row \subseteq Any
      BY DEF Row, NoRow, Status
    <3>2. QED
      BY <3>1
  <2>2. m \in Any /\ m.status = "DELETED" /\ m.leader = old.leader
    BY <2>1 DEF Status
  <2>3. o \in Any /\ o.status = "DELETED" /\ o.leader = old.leader
    BY <1>1 DEF Status
  <2>4. \A x, y \in Any : x.status = y.status /\ x.leader = y.leader => x = y
    OBVIOUS
  <2> HIDE DEF m, o, Any
  <2>5. o = m
    BY <2>2, <2>3, <2>4
  <2>6. QED
    BY <2>5 DEF m
<1>3. o \in Row /\ o.status = "DELETED" /\ o.leader = old.leader /\ o # NoRow
  BY <1>1 DEF Row, NoRow, Status
<1>4. QED
  BY <1>2, <1>3

\* An account is marked only after the engine has deleted it.
LEMMA ArchiveOK ==
  ASSUME AccountsInv, NEW S, Archive(S), UNCHANGED <<account, past, profile, audit, call>>,
         \A l \in Login : l \in S => past[l].ended
  PROVE  AccountsInv'
<1>1. AccountsTypeOK
  BY DEF AccountsInv
<1>2. ASSUME NEW l \in Login
      PROVE  /\ row'[l] \in Row \cup {NoRow} /\ (row[l] # NoRow => row'[l] # NoRow)
             /\ RowOK(row'[l], past[l])
  <2>1. RowOK(row[l], past[l])
    BY DEF AccountsInv
  <2>2. CASE l \notin S
    BY <1>1, <2>1, <2>2 DEF Archive, AccountsTypeOK
  <2>3. CASE l \in S
    <3> PICK o \in Row : /\ o = [row[l] EXCEPT !.status = "DELETED"]
                         /\ o.status = "DELETED" /\ o.leader = row[l].leader /\ o # NoRow
      BY <1>1, MarkedIs DEF AccountsTypeOK
    <3>1. row'[l] = o
      BY <2>3 DEF Archive
    <3>2. QED
      BY <2>1, <2>3, <3>1 DEF RowOK
  <2>4. QED
    BY <2>2, <2>3
<1>3. AccountsTypeOK'
  BY <1>1, <1>2 DEF AccountsTypeOK, Archive
<1>4. Later
  BY <1>2 DEF Later, Grows
<1>5. \A l \in Login : /\ EngineOK(account'[l], past'[l]) /\ RowOK(row'[l], past'[l])
                       /\ ProfileOK(profile'[l], audit'[l], row'[l], past'[l])
  BY <1>2 DEF AccountsInv, ProfileOK
<1>6. QED
  BY <1>3, <1>4, <1>5, AccountsStep

\* A worker at work, and what it knows.
LEMMA AtWork ==
  ASSUME DeletionInv, NEW w \in Worker, worker[w].pc # "idle"
  PROVE  /\ worker[w] \in Working
         /\ DelOf(w) \in Deletion /\ worker[w].login \in Login
         /\ WorkerKnows(worker[w], op[DelOf(w)], purge[DelOf(w)])
         /\ DeletionOK(op[DelOf(w)], purge[DelOf(w)], past)
         /\ op[DelOf(w)] \in Operation \cup {NoOp} /\ purge[DelOf(w)] \in Progress \cup {NoAnswer}
<1>1. worker[w] \in Working
  BY DEF DeletionInv, DeletionType, Off
<1>2. DelOf(w) \in Deletion /\ worker[w].login \in Login
  BY <1>1 DEF Working, DelOf
<1>3. QED
  BY <1>1, <1>2 DEF DeletionInv, DeletionType, WorkerOK, DelOf

\* The engine goes on with a deletion.
LEMMA AdvancesInv ==
  ASSUME DeletionInv, NEW d \in Deletion, EngineAdvances(d)
  PROVE  DeletionInv'
<1>1. purge[d] = "PENDING" /\ UNCHANGED <<row, profile, audit, call, op, worker, cron>>
  BY DEF EngineAdvances, rowsOfAccounts
<1>2. op[d] # NoOp /\ op[d].login \in Login
  BY <1>1 DEF DeletionInv, DeletionOK, DeletionType, Operation, NoAnswer
<1> PICK l \in Login : op[d].login = l
  BY <1>2
<1> PICK status \in Progress : Purge(d, l, status)
  BY DEF EngineAdvances
<1>3. /\ AccountsInv' /\ Kept /\ purge' \in [Deletion -> Progress \cup {NoAnswer}]
      /\ \A e \in Deletion : DeletionOK(op'[e], purge'[e], past') /\ LeavesCreator(e)
  BY <1>1, <1>2, PurgeOK DEF NoAnswer
<1>4. \A w \in Worker : WorkerOK(worker[w], op', purge')
  BY <1>3, WorkerStays DEF DeletionInv, DeletionType
<1>5. \A e \in Deletion : CronKnows(cron, e, op'[e], purge'[e])
  BY <1>3, CronStays DEF DeletionInv
<1>6. Alone' <=> Alone
  BY <1>1 DEF Alone, Creates
<1>7. QED
  BY <1>1, <1>3, <1>4, <1>5, <1>6 DEF DeletionInv, DeletionType

\* The worker n after the answer of the engine.
LEMMA HearIs ==
  ASSUME DeletionInv, NEW w \in Worker, worker[w].pc # "idle",
         NEW pc \in {"created", "polled", "resent"}, NEW status \in Progress \cup {NoAnswer},
         Hear(w, pc, status)
  PROVE  \E n \in Working : /\ worker' = [worker EXCEPT ![w] = n]
                            /\ n.pc = pc /\ n.answer = status /\ n.del = DelOf(w)
                            /\ n.login = worker[w].login /\ n.seen = worker[w].seen
<1> DEFINE n == [worker[w] EXCEPT !.pc = pc, !.answer = status]
<1>1. worker[w] \in Working /\ DeletionType
  BY AtWork DEF DeletionInv
<1>2. worker' = [worker EXCEPT ![w] = n]
  BY <1>1 DEF Hear, DeletionType
<1>3. /\ n \in Working /\ n.pc = pc /\ n.answer = status /\ n.del = DelOf(w)
      /\ n.login = worker[w].login /\ n.seen = worker[w].seen
  BY <1>1 DEF Working, DelOf
<1>4. QED
  BY <1>2, <1>3

\* The engine takes a new deletion: its row is there already.
LEMMA TakesInv ==
  ASSUME DeletionInv, NEW w \in Worker, EngineTakes(w)
  PROVE  DeletionInv'
<1>1. worker[w].pc = "create" /\ UNCHANGED <<row, profile, audit, call, op, cron>>
  BY DEF EngineTakes, rowsOfAccounts
<1> PICK d \in Deletion : d = DelOf(w)
  BY <1>1, AtWork
<1> PICK l \in Login : l = worker[w].login
  BY <1>1, AtWork
<1> PICK status \in {"PENDING", "COMPLETED"} : Purge(d, l, status) /\ Hear(w, "created", status)
  BY DEF EngineTakes
<1>2. status \in Progress
  BY DEF Progress, Terminal
<1> PICK n \in Working : /\ worker' = [worker EXCEPT ![w] = n]
                         /\ n.pc = "created" /\ n.answer = status /\ n.del = d
                         /\ n.login = l /\ n.seen = worker[w].seen
  BY <1>1, <1>2, HearIs
<1>3. CreatorKnows(worker[w], op[d], purge[d])
  BY <1>1, AtWork DEF WorkerKnows, Following
<1>4. /\ worker[w].seen \in Row /\ op[d] # NoOp /\ op[d].login = l /\ ~op[d].known
      /\ ~op[d].completed /\ purge[d] = NoAnswer
  BY <1>1, <1>3 DEF CreatorKnows, Creating
<1>5. /\ AccountsInv' /\ Kept /\ purge' \in [Deletion -> Progress \cup {NoAnswer}]
      /\ purge'[d] = status
      /\ \A e \in Deletion : DeletionOK(op'[e], purge'[e], past') /\ (e # d => LeavesCreator(e))
  BY <1>1, <1>2, <1>4, PurgeOK DEF NoAnswer
<1>6. \A e \in Deletion : e = d => Creates(w, e)
  BY <1>1 DEF Creates, Creating, DelOf
<1>7. WorkerOK(n, op', purge')
  BY <1>1, <1>2, <1>4, <1>5 DEF WorkerOK, WorkerKnows, CreatorKnows, Creating, Following, Progress,
     Terminal, NoAnswer
<1>8. op' \in [Deletion -> Operation \cup {NoOp}]
  BY <1>1 DEF DeletionInv, DeletionType
<1>9. QED
  BY <1>1, <1>5, <1>6, <1>7, <1>8, WorkerStep

\* The engine says how far it is.
LEMMA TellsInv ==
  ASSUME DeletionInv, NEW w \in Worker, EngineTells(w)
  PROVE  DeletionInv'
<1>1. /\ worker[w].pc = "poll" /\ Hear(w, "polled", purge[DelOf(w)])
      /\ UNCHANGED <<account, past, row, profile, audit, call, purge, op, cron>>
  BY DEF EngineTells, rowsOfAccounts
<1> PICK d \in Deletion : d = DelOf(w)
  BY <1>1, AtWork
<1>2. FollowerKnows(worker[w], op[d]) /\ DeletionOK(op[d], purge[d], past)
  BY <1>1, AtWork DEF WorkerKnows, Following
<1>3. purge[d] \in Progress
  BY <1>1, <1>2, AtWork DEF FollowerKnows, DeletionOK
<1> PICK n \in Working : /\ worker' = [worker EXCEPT ![w] = n]
                         /\ n.pc = "polled" /\ n.answer = purge[d] /\ n.del = d
                         /\ n.login = worker[w].login /\ n.seen = worker[w].seen
  BY <1>1, <1>3, HearIs
<1>4. WorkerOK(n, op, purge)
  BY <1>2, <1>3 DEF WorkerOK, WorkerKnows, FollowerKnows, Following
<1>5. QED
  BY <1>1, <1>4, WorkerOnly DEF Creating

\* The engine goes on with a deletion that it had stopped.
LEMMA ResumesInv ==
  ASSUME DeletionInv, NEW w \in Worker, EngineResumes(w)
  PROVE  DeletionInv'
<1>1. /\ worker[w].pc = "resend" /\ purge[DelOf(w)] = "PARTIAL"
      /\ UNCHANGED <<row, profile, audit, call, op, cron>>
  BY DEF EngineResumes, rowsOfAccounts
<1> PICK d \in Deletion : d = DelOf(w)
  BY <1>1, AtWork
<1> PICK l \in Login : l = worker[w].login
  BY <1>1, AtWork
<1> PICK status \in {"PENDING", "COMPLETED"} : Purge(d, l, status) /\ Hear(w, "resent", status)
  BY DEF EngineResumes
<1>2. status \in Progress
  BY DEF Progress, Terminal
<1> PICK n \in Working : /\ worker' = [worker EXCEPT ![w] = n]
                         /\ n.pc = "resent" /\ n.answer = status /\ n.del = d
                         /\ n.login = l /\ n.seen = worker[w].seen
  BY <1>1, <1>2, HearIs
<1>3. FollowerKnows(worker[w], op[d])
  BY <1>1, AtWork DEF WorkerKnows, Following
<1>4. op[d] # NoOp /\ op[d].login = l
  BY <1>3 DEF FollowerKnows
<1>5. /\ AccountsInv' /\ Kept /\ purge' \in [Deletion -> Progress \cup {NoAnswer}]
      /\ purge'[d] = status
      /\ \A e \in Deletion : DeletionOK(op'[e], purge'[e], past') /\ LeavesCreator(e)
  BY <1>1, <1>2, <1>4, PurgeOK DEF NoAnswer
<1>6. WorkerOK(n, op', purge')
  BY <1>1, <1>2, <1>3, <1>5 DEF WorkerOK, WorkerKnows, FollowerKnows, Following
<1>7. op' \in [Deletion -> Operation \cup {NoOp}]
  BY <1>1 DEF DeletionInv, DeletionType
<1>8. QED
  BY <1>1, <1>5, <1>6, <1>7, WorkerStep DEF Creating

-----------------------------------------------------------------------------
(* Requests about deletions *)

\* A worker moves on to pc, and knows what it knew.
LEMMA AdvanceIs ==
  ASSUME DeletionInv, NEW w \in Worker, worker[w].pc # "idle",
         NEW pc \in {"insert", "create", "resend"}, Advance(w, pc)
  PROVE  \E n \in Working : /\ worker' = [worker EXCEPT ![w] = n]
                            /\ n.pc = pc /\ n.answer = worker[w].answer /\ n.del = DelOf(w)
                            /\ n.login = worker[w].login /\ n.seen = worker[w].seen
<1> DEFINE n == [worker[w] EXCEPT !.pc = pc]
<1>1. worker[w] \in Working /\ DeletionType
  BY AtWork DEF DeletionInv
<1>2. worker' = [worker EXCEPT ![w] = n]
  BY <1>1 DEF Advance, DeletionType
<1>3. /\ n \in Working /\ n.pc = pc /\ n.answer = worker[w].answer /\ n.del = DelOf(w)
      /\ n.login = worker[w].login /\ n.seen = worker[w].seen
  BY <1>1 DEF Working, DelOf
<1>4. QED
  BY <1>2, <1>3

\* A worker that has ended knows nothing.
LEMMA OffKnows == Off.pc \notin Creating /\ \A O, U : WorkerOK(Off, O, U)
BY DEF WorkerOK, WorkerKnows, Off, Creating

\* A request is started, for a new deletion or about one that is known.
LEMMA RequestedInv ==
  ASSUME DeletionInv, NEW w \in Worker, Requested(w)
  PROVE  DeletionInv'
<1> PICK d \in Deletion, l \in Login : StartRequest(w, d, l)
  BY DEF Requested
<1> DEFINE n == [pc |-> "impact", act |-> "request", del |-> d, login |-> l,
                 seen |-> row[l], answer |-> NoAnswer]
<1>1. row[l] \in Row
  BY DEF StartRequest, DeletionInv, AccountsInv, AccountsTypeOK
<1>2. n \in Working
  BY <1>1 DEF Working
<1>3. WorkerOK(n, op, purge) /\ n.pc \notin Creating
  BY <1>1 DEF WorkerOK, WorkerKnows, CreatorKnows, Creating, Following, NoAnswer
<1>4. /\ worker' = [worker EXCEPT ![w] = n]
      /\ UNCHANGED <<account, past, row, profile, audit, call, purge, op, cron>>
  BY DEF StartRequest, rowsOfAccounts
<1> HIDE DEF n
<1>5. QED
  BY <1>2, <1>3, <1>4, WorkerOnly

\* A deletion that is read, or tried again, is one that the engine knows.
LEMMA FollowedInv ==
  ASSUME DeletionInv, NEW w \in Worker, Followed(w)
  PROVE  DeletionInv'
<1> PICK d \in Deletion, act \in {"get", "retry"} : StartRead(w, d, act)
  BY DEF Followed
<1>1. op[d].status # NoAnswer /\ op[d].known /\ DeletionType
  BY DEF StartRead, DeletionInv
<1>2. op[d] # NoOp
  BY <1>1 DEF NoOp
<1> PICK o \in Operation : o = op[d]
  BY <1>1, <1>2 DEF DeletionType
<1> DEFINE over == o.status \in Terminal
           answer == IF over THEN o.status ELSE NoAnswer
           pc == IF over THEN "polled" ELSE "poll"
           n == [pc |-> pc, act |-> act, del |-> d, login |-> o.login, seen |-> o,
                 answer |-> answer]
<1>3. /\ answer \in Progress \cup {NoAnswer} /\ pc \in {"poll", "polled"}
      /\ pc = "polled" => answer \in Progress
      /\ answer = "COMPLETED" => o.status = "COMPLETED"
      /\ o.login \in Login
  BY DEF Operation, Progress, NoAnswer
<1>4. /\ worker' = [worker EXCEPT ![w] = n]
      /\ UNCHANGED <<account, past, row, profile, audit, call, purge, op, cron>>
  BY DEF StartRead, rowsOfAccounts
<1>5. DeletionOK(o, purge[d], past)
  BY DEF DeletionInv
<1> HIDE DEF answer, pc
<1>6. n \in Working /\ n.pc \notin Creating
  BY <1>3 DEF Working, Creating
<1>7. WorkerOK(n, op, purge)
  BY <1>1, <1>2, <1>3, <1>5 DEF WorkerOK, WorkerKnows, FollowerKnows, Following, DeletionOK
<1> HIDE DEF n
<1>8. QED
  BY <1>4, <1>6, <1>7, WorkerOnly

\* The impact of a deletion is known.
LEMMA ImpactInv ==
  ASSUME DeletionInv, NEW w \in Worker, ImpactKnown(w)
  PROVE  DeletionInv'
<1>1. /\ worker[w].pc = "impact" /\ Advance(w, "insert")
      /\ UNCHANGED <<account, past, row, profile, audit, call, purge, op, cron>>
  BY DEF ImpactKnown, rowsOfAccounts
<1> PICK n \in Working : /\ worker' = [worker EXCEPT ![w] = n]
                         /\ n.pc = "insert" /\ n.answer = worker[w].answer /\ n.del = DelOf(w)
                         /\ n.login = worker[w].login /\ n.seen = worker[w].seen
  BY <1>1, AdvanceIs
<1>2. WorkerKnows(worker[w], op[DelOf(w)], purge[DelOf(w)])
  BY <1>1, AtWork
<1>3. WorkerOK(n, op, purge)
  BY <1>1, <1>2 DEF WorkerOK, WorkerKnows, CreatorKnows, Creating, Following
<1>4. QED
  BY <1>1, <1>3, WorkerOnly DEF Creating

\* A request that is refused or dies.
LEMMA DropInv ==
  ASSUME DeletionInv, NEW w \in Worker, Drop(w)
  PROVE  DeletionInv'
<1>1. /\ worker' = [worker EXCEPT ![w] = Off]
      /\ UNCHANGED <<account, past, row, profile, audit, call, purge, op, cron>>
  BY DEF Drop, Stop, rowsOfAccounts
<1>2. QED
  BY <1>1, OffKnows, WorkerOnly

\* A worker writes the row o of the deletion d.
LEMMA OpWritten ==
  ASSUME DeletionInv, UNCHANGED <<account, past, purge, cron>>, AccountsInv',
         NEW w \in Worker, NEW d \in Deletion, NEW o \in Operation, op' = [op EXCEPT ![d] = o],
         op[d] # NoOp => /\ o.login = op[d].login /\ (op[d].known => o.known)
                         /\ op[d].completed => o.completed
                         /\ Creates(w, d) \/ op[d].known,
         DeletionOK(o, purge[d], past),
         NEW n \in Working \cup {Off}, worker' = [worker EXCEPT ![w] = n],
         n.pc \in Creating => n.del = d /\ op[d] = NoOp,
         WorkerOK(n, op', purge)
  PROVE  DeletionInv'
<1>1. DeletionType
  BY DEF DeletionInv
<1>2. /\ op' \in [Deletion -> Operation \cup {NoOp}] /\ op'[d] = o
      /\ \A e \in Deletion \ {d} : op'[e] = op[e]
  BY <1>1 DEF DeletionType
<1>3. o # NoOp
  BY DEF Operation, NoOp
<1>4. Kept
  BY <1>2, <1>3 DEF Kept
<1>5. \A e \in Deletion : Creates(w, e) \/ LeavesCreator(e)
  BY <1>2 DEF LeavesCreator
<1>6. \A e \in Deletion : DeletionOK(op'[e], purge'[e], past')
  BY <1>2 DEF DeletionInv
<1>7. purge' \in [Deletion -> Progress \cup {NoAnswer}] /\ WorkerOK(n, op', purge')
  BY <1>1 DEF DeletionType
<1>8. \A e \in Deletion : n.pc \in Creating /\ n.del = e => Creates(w, e) \/ op[e] = NoOp
  OBVIOUS
<1>9. UNCHANGED cron
  OBVIOUS
<1>10. QED
  BY <1>2, <1>4, <1>5, <1>6, <1>7, <1>8, <1>9, WorkerStep

\* The row of a new deletion is written before the engine is asked.
LEMMA InsertOpInv ==
  ASSUME DeletionInv, NEW w \in Worker, InsertOp(w)
  PROVE  DeletionInv'
<1>1. /\ worker[w].pc = "insert"
      /\ UNCHANGED <<account, past, row, profile, audit, call, purge, cron>>
  BY DEF InsertOp, rowsOfAccounts
<1> PICK d \in Deletion : d = DelOf(w)
  BY <1>1, AtWork
<1> PICK l \in Login : l = worker[w].login
  BY <1>1, AtWork
<1>2. /\ WorkerKnows(worker[w], op[d], purge[d]) /\ DeletionOK(op[d], purge[d], past)
      /\ purge[d] \in Progress \cup {NoAnswer}
  BY <1>1, AtWork
<1>3. CASE op[d] # NoOp
  <2>1. UNCHANGED op /\ worker' = [worker EXCEPT ![w] = Off]
    BY <1>3 DEF InsertOp, Stop
  <2>2. QED
    BY <1>1, <2>1, OffKnows, WorkerOnly
<1>4. CASE op[d] = NoOp
  <2> PICK o \in Operation : /\ o = [status |-> "PENDING", known |-> FALSE, completed |-> FALSE,
                                     login |-> l]
                             /\ o.status = "PENDING" /\ ~o.known /\ ~o.completed /\ o.login = l
    <3> DEFINE o == [status |-> "PENDING", known |-> FALSE, completed |-> FALSE, login |-> l]
    <3>1. o \in Operation
      BY DEF Operation, Progress, Terminal
    <3>2. QED
      BY <3>1
  <2>1. op' = [op EXCEPT ![d] = o] /\ Advance(w, "create")
    BY <1>4 DEF InsertOp
  <2> PICK n \in Working : /\ worker' = [worker EXCEPT ![w] = n]
                           /\ n.pc = "create" /\ n.answer = worker[w].answer /\ n.del = d
                           /\ n.login = l /\ n.seen = worker[w].seen
    BY <1>1, <2>1, AdvanceIs
  <2>2. purge[d] = NoAnswer
    BY <1>2, <1>4 DEF DeletionOK
  <2>3. DeletionOK(o, purge[d], past) /\ o # NoOp
    BY <2>2 DEF DeletionOK, NoAnswer, Operation, NoOp
  <2>4. op'[d] = o
    BY <2>1 DEF DeletionInv, DeletionType
  <2>5. worker[w].seen \in Row /\ worker[w].answer # "COMPLETED"
    BY <1>1, <1>2, <2>2 DEF WorkerKnows, CreatorKnows, Following, NoAnswer
  <2>6. WorkerOK(n, op', purge)
    BY <2>2, <2>3, <2>4, <2>5 DEF WorkerOK, WorkerKnows, CreatorKnows, Creating, Following
  <2>7. AccountsInv'
    BY <1>1, AccountsKept DEF DeletionInv
  <2>8. QED
    BY <1>1, <1>4, <2>1, <2>3, <2>6, <2>7, OpWritten
<1>5. QED
  BY <1>3, <1>4

\* A row with another status.
LEMMA StatusIs ==
  ASSUME NEW old \in Operation, NEW status \in Progress
  PROVE  \E o \in Operation : /\ o = [old EXCEPT !.status = status]
                              /\ o.status = status /\ o.known = old.known
                              /\ o.completed = old.completed /\ o.login = old.login
<1> DEFINE o == [old EXCEPT !.status = status]
<1>1. /\ o \in Operation /\ o.status = status /\ o.known = old.known
      /\ o.completed = old.completed /\ o.login = old.login
  BY DEF Operation
<1>2. QED
  BY <1>1

\* What refresh writes is true if the answer is.
LEMMA RefreshedIs ==
  ASSUME NEW old \in Operation, NEW seen \in Operation, NEW status \in Progress,
         NEW u, NEW Q, DeletionOK(old, u, Q), status = "COMPLETED" => u = "COMPLETED"
  PROVE  \E o \in Operation : /\ o = Refreshed(old, seen, status) /\ DeletionOK(o, u, Q)
                              /\ o.known = old.known /\ o.login = old.login
                              /\ old.completed => o.completed
<1> DEFINE s == IF status = seen.status THEN old.status ELSE status
           c == old.completed \/ status = "COMPLETED"
           o == [old EXCEPT !.status = s, !.completed = c]
<1>1. o = Refreshed(old, seen, status)
  BY DEF Refreshed, Operation
<1>2. s \in Progress /\ c \in BOOLEAN /\ s \in {old.status, status} /\ (old.completed => c)
      /\ (c => old.completed \/ status = "COMPLETED")
  BY DEF Operation
<1> HIDE DEF s, c
<1>3. /\ o \in Operation /\ o.known = old.known /\ o.login = old.login
      /\ o.status = s /\ o.completed = c
  BY <1>2 DEF Operation
<1> HIDE DEF o
<1>4. o # NoOp /\ old # NoOp
  BY <1>3 DEF Operation, NoOp
<1>5. DeletionOK(o, u, Q)
  BY <1>2, <1>3, <1>4 DEF DeletionOK
<1>6. QED
  BY <1>1, <1>2, <1>3, <1>5

\* The request of a new deletion fails; the engine may have taken it.
LEMMA CreateFailsInv ==
  ASSUME DeletionInv, NEW w \in Worker, CreateFails(w)
  PROVE  DeletionInv'
<1>1. /\ worker[w].pc \in Creating /\ worker[w].pc # "idle" /\ worker' = [worker EXCEPT ![w] = Off]
      /\ UNCHANGED <<account, past, row, profile, audit, call, purge, cron>>
  BY DEF CreateFails, rowsOfAccounts, Creating, Stop
<1> PICK d \in Deletion : d = DelOf(w)
  BY <1>1, AtWork
<1>2. /\ op[d] \in Operation /\ DeletionOK(op[d], purge[d], past) /\ ~op[d].known /\ ~op[d].completed
  BY <1>1, AtWork DEF WorkerKnows, CreatorKnows, Creating, Following
<1>3. "FAILED" \in Progress
  BY DEF Progress, Terminal
<1> PICK o \in Operation : /\ o = [op[d] EXCEPT !.status = "FAILED"]
                           /\ o.status = "FAILED" /\ o.known = op[d].known
                           /\ o.completed = op[d].completed /\ o.login = op[d].login
  BY <1>2, <1>3, StatusIs
<1>4. op' = [op EXCEPT ![d] = o]
  BY DEF CreateFails, DeletionInv, DeletionType
<1>5. DeletionOK(o, purge[d], past)
  BY <1>2 DEF DeletionOK, Operation, NoOp
<1>6. AccountsInv' /\ Creates(w, d)
  BY <1>1, AccountsKept DEF DeletionInv, Creates, DelOf
<1>7. QED
  BY <1>1, <1>2, <1>4, <1>5, <1>6, OffKnows, OpWritten

\* What the engine said of the new deletion is written; the account is marked
\* only if it is gone.
LEMMA WriteCreatedInv ==
  ASSUME DeletionInv, NEW w \in Worker, WriteCreated(w)
  PROVE  DeletionInv'
<1>1. /\ worker[w].pc = "created" /\ worker' = [worker EXCEPT ![w] = Off]
      /\ UNCHANGED <<account, past, profile, audit, call, purge, cron>>
  BY DEF WriteCreated, Stop
<1> PICK d \in Deletion : d = DelOf(w)
  BY <1>1, AtWork
<1>2. /\ WorkerKnows(worker[w], op[d], purge[d]) /\ DeletionOK(op[d], purge[d], past)
      /\ op[d] \in Operation \cup {NoOp}
  BY <1>1, AtWork
<1>3. /\ worker[w].answer \in {"PENDING", "COMPLETED"} /\ purge[d] # NoAnswer
      /\ op[d] \in Operation /\ op[d].login = worker[w].login /\ ~op[d].known /\ ~op[d].completed
      /\ worker[w].answer = "COMPLETED" => purge[d] = "COMPLETED"
  BY <1>1, <1>2 DEF WorkerKnows, CreatorKnows, Creating, Following
<1> PICK l \in Login : l = op[d].login
  BY <1>3 DEF Operation
<1> PICK status \in {"PENDING", "COMPLETED"} : status = worker[w].answer
  BY <1>3
<1> DEFINE done == status = "COMPLETED"
           o == [op[d] EXCEPT !.status = status, !.known = TRUE, !.completed = done]
           S == IF done /\ worker[w].seen.status # "DELETED" THEN {worker[w].login} ELSE {}
<1>4. op' = [op EXCEPT ![d] = o] /\ Archive(S)
  BY DEF WriteCreated, DeletionInv, DeletionType
<1>5. o \in Operation /\ o.status = status /\ o.known /\ o.completed = done /\ o.login = l
  BY <1>3 DEF Operation, Progress, Terminal
<1>6. op[d] # NoOp /\ (purge[d] = "COMPLETED" => past[l].ended)
  BY <1>2, <1>3 DEF DeletionOK, Operation, NoOp
<1>7. \A m \in Login : m \in S => past[m].ended
  BY <1>3, <1>6
<1> HIDE DEF o, S
<1>8. AccountsInv' /\ Creates(w, d)
  BY <1>1, <1>4, <1>7, ArchiveOK DEF DeletionInv, Creates, Creating, DelOf
<1>9. DeletionOK(o, purge[d], past)
  BY <1>3, <1>5, <1>6 DEF DeletionOK, Operation, NoOp
<1>10. QED
  BY <1>1, <1>3, <1>4, <1>5, <1>8, <1>9, OffKnows, OpWritten

\* What was read of a deletion is written, however much later.
LEMMA WriteReadInv ==
  ASSUME DeletionInv, NEW w \in Worker, WriteRead(w)
  PROVE  DeletionInv'
<1>1. /\ worker[w].pc = "polled"
      /\ UNCHANGED <<account, past, profile, audit, call, purge, cron>>
  BY DEF WriteRead
<1> PICK d \in Deletion : d = DelOf(w)
  BY <1>1, AtWork
<1>2. /\ WorkerKnows(worker[w], op[d], purge[d]) /\ DeletionOK(op[d], purge[d], past)
      /\ op[d] \in Operation \cup {NoOp}
  BY <1>1, AtWork
<1>3. /\ FollowerKnows(worker[w], op[d])
      /\ worker[w].answer = "COMPLETED" => purge[d] = "COMPLETED"
  BY <1>1, <1>2 DEF WorkerKnows, Following
<1>4. /\ op[d] \in Operation /\ op[d] # NoOp /\ op[d].login = worker[w].login /\ op[d].known
      /\ worker[w].answer \in Progress /\ worker[w].seen \in Operation
  BY <1>1, <1>2, <1>3 DEF FollowerKnows
<1> PICK l \in Login : l = op[d].login
  BY <1>4 DEF Operation
<1> PICK o \in Operation : /\ o = Refreshed(op[d], worker[w].seen, worker[w].answer)
                           /\ DeletionOK(o, purge[d], past)
                           /\ o.known = op[d].known /\ o.login = op[d].login
                           /\ op[d].completed => o.completed
  <2> PICK seen \in Operation : seen = worker[w].seen
    BY <1>4
  <2> PICK status \in Progress : status = worker[w].answer
    BY <1>4
  <2>1. status = "COMPLETED" => purge[d] = "COMPLETED"
    BY <1>3
  <2> PICK old \in Operation : old = op[d]
    BY <1>4
  <2>2. DeletionOK(old, purge[d], past)
    BY <1>2
  <2>3. \E o \in Operation : /\ o = Refreshed(old, seen, status)
                             /\ DeletionOK(o, purge[d], past)
                             /\ o.known = old.known /\ o.login = old.login
                             /\ old.completed => o.completed
    BY <2>1, <2>2, RefreshedIs
  <2>4. QED
    BY <2>3
<1>5. op' = [op EXCEPT ![d] = o] /\ op'[d] = o
  BY DEF WriteRead, DeletionInv, DeletionType
<1>6. AccountsInv'
  <2> DEFINE S == IF Marks(worker[w].seen, worker[w].answer) THEN {worker[w].login} ELSE {}
  <2>1. Archive(S)
    BY DEF WriteRead
  <2>2. \A m \in Login : m \in S => past[m].ended
    BY <1>2, <1>3, <1>4 DEF Marks, DeletionOK
  <2> HIDE DEF S
  <2>3. QED
    BY <1>1, <2>1, <2>2, ArchiveOK DEF DeletionInv
<1>7. CASE worker[w].act = "retry" /\ op'[d].status = "PARTIAL"
  <2>1. Advance(w, "resend")
    BY <1>7 DEF WriteRead
  <2> PICK n \in Working : /\ worker' = [worker EXCEPT ![w] = n]
                           /\ n.pc = "resend" /\ n.answer = worker[w].answer /\ n.del = d
                           /\ n.login = worker[w].login /\ n.seen = worker[w].seen
    BY <1>1, <2>1, AdvanceIs
  <2>2. o # NoOp
    BY DEF Operation, NoOp
  <2>3. WorkerOK(n, op', purge)
    BY <1>3, <1>4, <1>5, <2>2 DEF WorkerOK, WorkerKnows, FollowerKnows, Following
  <2>4. QED
    BY <1>1, <1>4, <1>5, <1>6, <2>3, OpWritten DEF Creating
<1>8. CASE ~(worker[w].act = "retry" /\ op'[d].status = "PARTIAL")
  <2>1. worker' = [worker EXCEPT ![w] = Off]
    BY <1>8 DEF WriteRead, Stop
  <2>2. QED
    BY <1>1, <1>4, <1>5, <1>6, <2>1, OffKnows, OpWritten
<1>9. QED
  BY <1>7, <1>8

\* The answer to a retry is written.
LEMMA WriteResentInv ==
  ASSUME DeletionInv, NEW w \in Worker, WriteResent(w)
  PROVE  DeletionInv'
<1>1. /\ worker[w].pc = "resent" /\ worker' = [worker EXCEPT ![w] = Off]
      /\ UNCHANGED <<account, past, row, profile, audit, call, purge, cron>>
  BY DEF WriteResent, Stop, rowsOfAccounts
<1> PICK d \in Deletion : d = DelOf(w)
  BY <1>1, AtWork
<1>2. /\ WorkerKnows(worker[w], op[d], purge[d]) /\ DeletionOK(op[d], purge[d], past)
      /\ op[d] \in Operation \cup {NoOp}
  BY <1>1, AtWork
<1>3. /\ op[d] \in Operation /\ op[d].known /\ worker[w].answer \in Progress
      /\ worker[w].answer = "COMPLETED" => purge[d] = "COMPLETED"
  BY <1>1, <1>2 DEF WorkerKnows, FollowerKnows, Following
<1> PICK o \in Operation : /\ o = [op[d] EXCEPT !.status = worker[w].answer]
                           /\ o.status = worker[w].answer /\ o.known = op[d].known
                           /\ o.completed = op[d].completed /\ o.login = op[d].login
  BY <1>3, StatusIs
<1>4. op' = [op EXCEPT ![d] = o]
  BY DEF WriteResent, DeletionInv, DeletionType
<1>5. DeletionOK(o, purge[d], past)
  BY <1>2, <1>3 DEF DeletionOK, Operation, NoOp
<1>6. AccountsInv'
  BY <1>1, AccountsKept DEF DeletionInv
<1>7. QED
  BY <1>1, <1>3, <1>4, <1>5, <1>6, OffKnows, OpWritten

-----------------------------------------------------------------------------
(* The polling pass, and the steps of Accounts *)

\* What a step that is not of a worker has to establish.
LEMMA PassStep ==
  ASSUME DeletionInv, AccountsInv', UNCHANGED <<purge, worker>>, cron' \in Polling,
         op' \in [Deletion -> Operation \cup {NoOp}],
         Kept, \A d \in Deletion : LeavesCreator(d),
         \A d \in Deletion : /\ DeletionOK(op'[d], purge[d], past')
                             /\ CronKnows(cron', d, op'[d], purge[d])
  PROVE  DeletionInv'
<1>1. \A w \in Worker : WorkerOK(worker[w], op', purge')
  BY WorkerStays DEF DeletionInv, DeletionType
<1>2. Alone' <=> Alone
  BY DEF Alone, Creates
<1>3. QED
  BY <1>1, <1>2 DEF DeletionInv, DeletionType

\* The pass goes on without having written anything.
LEMMA PassOnly ==
  ASSUME DeletionInv, UNCHANGED <<account, past, row, profile, audit, call, purge, op, worker>>,
         cron' \in Polling, \A d \in Deletion : CronKnows(cron', d, op[d], purge[d])
  PROVE  DeletionInv'
<1>1. AccountsInv' /\ Kept /\ \A d \in Deletion : LeavesCreator(d)
  BY AccountsKept DEF DeletionInv, Kept, LeavesCreator
<1>2. op' \in [Deletion -> Operation \cup {NoOp}]
  BY DEF DeletionInv, DeletionType
<1>3. \A d \in Deletion : /\ DeletionOK(op'[d], purge[d], past')
                          /\ CronKnows(cron', d, op'[d], purge[d])
  BY DEF DeletionInv
<1>4. QED
  BY <1>1, <1>2, <1>3, PassStep

\* A pass that has not begun knows nothing.
LEMMA AsleepKnows == Asleep \in Polling /\ \A d \in Deletion : \A o, u : CronKnows(Asleep, d, o, u)
<1>1. Asleep \in Polling
  BY DEF Asleep, Polling
<1>2. \A d \in Deletion : \A o, u : CronKnows(Asleep, d, o, u)
  BY DEF Asleep, CronKnows
<1>3. QED
  BY <1>1, <1>2

\* The pass loads the deletions that the engine knows.
LEMMA StartSyncInv ==
  ASSUME DeletionInv, StartSync
  PROVE  DeletionInv'
<1> DEFINE S == {d \in Deletion : op[d].status \in {"PENDING", "PARTIAL"} /\ op[d].known}
           seen == [d \in Deletion |-> IF d \in S THEN op[d] ELSE NoOp]
           answer == [d \in Deletion |-> NoAnswer]
           c == [on |-> TRUE, left |-> S, seen |-> seen, answer |-> answer]
<1>1. op \in [Deletion -> Operation \cup {NoOp}]
  BY DEF DeletionInv, DeletionType
<1>2. S \subseteq Deletion /\ \A d \in S : op[d] # NoOp /\ op[d].known
  BY DEF NoOp, NoAnswer
<1>3. /\ seen \in [Deletion -> Operation \cup {NoOp}] /\ \A d \in S : seen[d] = op[d]
      /\ answer \in [Deletion -> Progress \cup {NoAnswer}]
      /\ \A d \in Deletion : answer[d] = NoAnswer
  BY <1>1, <1>2
<1>4. cron' = c /\ UNCHANGED <<account, past, row, profile, audit, call, purge, op, worker>>
  BY DEF StartSync, rowsOfAccounts
<1> HIDE DEF S, seen, answer
<1>5. c \in Polling
  BY <1>2, <1>3 DEF Polling
<1>6. ASSUME NEW d \in Deletion
      PROVE  CronKnows(c, d, op[d], purge[d])
  BY <1>1, <1>2, <1>3 DEF CronKnows, NoAnswer
<1> HIDE DEF c
<1>7. QED
  BY <1>4, <1>5, <1>6, PassOnly

\* The pass asks about one of them.
LEMMA SyncAsksInv ==
  ASSUME DeletionInv, NEW d \in Deletion, SyncAsks(d)
  PROVE  DeletionInv'
<1>1. /\ d \in cron.left /\ cron' = [cron EXCEPT !.left = @ \ {d}, !.answer[d] = purge[d]]
      /\ UNCHANGED <<account, past, row, profile, audit, call, purge, op, worker>>
  BY DEF SyncAsks, rowsOfAccounts
<1>2. /\ cron \in Polling /\ purge[d] \in Progress \cup {NoAnswer}
      /\ \A e \in Deletion : CronKnows(cron, e, op[e], purge[e])
  BY DEF DeletionInv, DeletionType
<1>3. /\ cron' \in Polling /\ cron'.seen = cron.seen /\ cron'.left = cron.left \ {d}
      /\ cron'.answer[d] = purge[d] /\ \A e \in Deletion \ {d} : cron'.answer[e] = cron.answer[e]
  BY <1>1, <1>2 DEF Polling
<1>4. ASSUME NEW e \in Deletion
      PROVE  CronKnows(cron', e, op[e], purge[e])
  <2>1. CronKnows(cron, e, op[e], purge[e])
    BY <1>2
  <2>2. CASE e = d
    BY <1>1, <1>3, <2>1, <2>2 DEF CronKnows
  <2>3. CASE e # d
    BY <1>3, <2>1, <2>3 DEF CronKnows
  <2>4. QED
    BY <2>2, <2>3
<1>5. QED
  BY <1>1, <1>3, <1>4, PassOnly

\* The pass gives up on one of them.
LEMMA SyncSkipsInv ==
  ASSUME DeletionInv, NEW d \in Deletion, SyncSkips(d)
  PROVE  DeletionInv'
<1>1. /\ cron' = [cron EXCEPT !.left = @ \ {d}]
      /\ UNCHANGED <<account, past, row, profile, audit, call, purge, op, worker>>
  BY DEF SyncSkips, rowsOfAccounts
<1>2. cron \in Polling /\ \A e \in Deletion : CronKnows(cron, e, op[e], purge[e])
  BY DEF DeletionInv, DeletionType
<1>3. /\ cron' \in Polling /\ cron'.seen = cron.seen /\ cron'.left = cron.left \ {d}
      /\ cron'.answer = cron.answer
  BY <1>1, <1>2 DEF Polling
<1>4. \A e \in Deletion : CronKnows(cron', e, op[e], purge[e])
  BY <1>2, <1>3 DEF CronKnows
<1>5. QED
  BY <1>1, <1>3, <1>4, PassOnly

\* The pass dies.
LEMMA SyncDiesInv ==
  ASSUME DeletionInv, SyncDies
  PROVE  DeletionInv'
BY AsleepKnows, PassOnly DEF SyncDies, rowsOfAccounts

\* The pass writes what it heard, over whatever was written meanwhile.
LEMMA SyncCommitsInv ==
  ASSUME DeletionInv, SyncCommits
  PROVE  DeletionInv'
<1> DEFINE heard == {d \in Deletion : cron.answer[d] # NoAnswer}
           S == {op[d].login : d \in {x \in heard : Marks(cron.seen[x], cron.answer[x])}}
<1>1. /\ op' = [d \in Deletion |-> IF d \in heard THEN Refreshed(op[d], cron.seen[d], cron.answer[d])
                                                  ELSE op[d]]
      /\ Archive(S) /\ cron' = Asleep
      /\ UNCHANGED <<account, past, profile, audit, call, purge, worker>>
  BY DEF SyncCommits
<1>2. /\ op \in [Deletion -> Operation \cup {NoOp}] /\ cron \in Polling
      /\ \A d \in Deletion : DeletionOK(op[d], purge[d], past) /\ CronKnows(cron, d, op[d], purge[d])
  BY DEF DeletionInv, DeletionType
<1>3. ASSUME NEW d \in Deletion, d \in heard
      PROVE  /\ op[d] \in Operation /\ op[d].known /\ cron.seen[d] \in Operation
             /\ cron.answer[d] \in Progress
             /\ cron.answer[d] = "COMPLETED" => purge[d] = "COMPLETED" /\ past[op[d].login].ended
  <2>1. CronKnows(cron, d, op[d], purge[d]) /\ DeletionOK(op[d], purge[d], past)
    BY <1>2
  <2>2. cron.answer[d] \in Progress /\ op[d] \in Operation \cup {NoOp}
    BY <1>2, <1>3 DEF Polling
  <2>3. QED
    BY <1>3, <2>1, <2>2 DEF CronKnows, DeletionOK
<1>4. ASSUME NEW d \in Deletion, d \in heard
      PROVE  /\ op'[d] \in Operation /\ DeletionOK(op'[d], purge[d], past)
             /\ op'[d].known = op[d].known /\ op'[d].login = op[d].login
             /\ op[d].completed => op'[d].completed
  <2> PICK old \in Operation : old = op[d]
    BY <1>3, <1>4
  <2> PICK seen \in Operation : seen = cron.seen[d]
    BY <1>3, <1>4
  <2> PICK status \in Progress : status = cron.answer[d]
    BY <1>3, <1>4
  <2>1. DeletionOK(old, purge[d], past) /\ (status = "COMPLETED" => purge[d] = "COMPLETED")
    BY <1>2, <1>3, <1>4
  <2>2. op'[d] = Refreshed(old, seen, status)
    BY <1>1, <1>4
  <2>3. \E o \in Operation : /\ o = Refreshed(old, seen, status) /\ DeletionOK(o, purge[d], past)
                             /\ o.known = old.known /\ o.login = old.login
                             /\ old.completed => o.completed
    BY <2>1, RefreshedIs
  <2>4. QED
    BY <2>2, <2>3
<1>5. \A d \in Deletion : d \notin heard => op'[d] = op[d]
  BY <1>1
<1>6. \A m \in Login : m \in S => past[m].ended
  BY <1>3 DEF Marks
<1>7. AccountsInv'
  BY <1>1, <1>6, ArchiveOK DEF DeletionInv
<1>8. op' \in [Deletion -> Operation \cup {NoOp}]
  <2>1. \A d \in Deletion : op'[d] \in Operation \cup {NoOp}
    BY <1>2, <1>4, <1>5
  <2>2. QED
    BY <1>1, <2>1
<1> HIDE DEF heard, S
<1>9. \A d \in Deletion : op[d] # NoOp => op'[d] # NoOp
  BY <1>4, <1>5 DEF Operation, NoOp
<1>10. Kept
  BY <1>1, <1>4, <1>5, <1>9 DEF Kept
<1>11. \A d \in Deletion : LeavesCreator(d)
  BY <1>1, <1>3, <1>5 DEF LeavesCreator
<1>12. \A d \in Deletion : /\ DeletionOK(op'[d], purge[d], past')
                           /\ CronKnows(cron', d, op'[d], purge[d])
  BY <1>1, <1>2, <1>4, <1>5, AsleepKnows
<1>13. QED
  BY <1>1, <1>7, <1>8, <1>10, <1>11, <1>12, AsleepKnows, PassStep

\* What was asked stays asked, and an account that was ever deleted stays one that
\* was.
LEMMA BecomesEnds ==
  ASSUME AccountsTypeOK, NEW l, NEW a, NEW X, Becomes(l, a, X)
  PROVE  \A m \in Login : /\ past[m].ended => past'[m].ended
                          /\ past[m].asked \subseteq past'[m].asked
<1> DEFINE q == [led |-> past[l].led \/ a.leader,
                 asked |-> past[l].asked \cup X,
                 ended |-> past[l].ended \/ a = Absent,
                 rates |-> past[l].rates \cup ({a.rate} \ {NoRate})]
<1>1. past' = [past EXCEPT ![l] = q] /\ (past[l].ended => q.ended) /\ past[l].asked \subseteq q.asked
  BY DEF Becomes
<1> HIDE DEF q
<1>2. QED
  BY <1>1 DEF AccountsTypeOK

\* Steps of Accounts only add to the past.
LEMMA EndedStays ==
  ASSUME AccountsTypeOK, AccountsNext
  PROVE  \A m \in Login : /\ past[m].ended => past'[m].ended
                          /\ past[m].asked \subseteq past'[m].asked
<1>1. ASSUME NEW p \in Request, Requests(p)
      PROVE  UNCHANGED past
  BY <1>1 DEF Requests, Openings, AccountChanges, Strategies, StrategyChanges, StartCreate,
     StartRegister, StartImport, StartUpdate, StartProfile, StartAdopt, StartRate, Begin
<1>2. ASSUME NEW p \in Request,
             EngineOpens(p) \/ EnginePatches(p) \/ EngineEnables(p) \/ EngineRates(p)
      PROVE  \E a, X : Becomes(LoginOf(p), a, X)
  BY <1>2 DEF EngineOpens, EnginePatches, EngineEnables, EngineRates
<1>3. ASSUME NEW p \in Request,
             \/ EngineShows(p) \/ InsertRow(p) \/ WriteUpdate(p) \/ WriteEnabled(p)
             \/ InsertProfile(p) \/ WriteRate(p) \/ Abandon(p)
      PROVE  UNCHANGED past
  BY <1>3 DEF EngineShows, InsertRow, WriteUpdate, WriteEnabled, InsertProfile, WriteRate, Abandon
<1>4. ASSUME NEW l \in Login, OthersAct(l)
      PROVE  \E a, X : Becomes(l, a, X)
  BY <1>4 DEF OthersAct
<1>5. QED
  BY <1>1, <1>2, <1>3, <1>4, BecomesEnds DEF AccountsNext, Handled

\* A step of Accounts disturbs no deletion.
LEMMA AccountsAlone ==
  ASSUME DeletionInv, AccountsNext, UNCHANGED <<purge, op, worker, cron>>
  PROVE  DeletionInv'
<1>1. AccountsInv' /\ \A m \in Login : past[m].ended => past'[m].ended
  BY AccountsNextInv, EndedStays DEF DeletionInv, AccountsInv
<1>2. /\ op' \in [Deletion -> Operation \cup {NoOp}] /\ cron' \in Polling
      /\ Kept /\ \A d \in Deletion : LeavesCreator(d)
  BY DEF DeletionInv, DeletionType, Kept, LeavesCreator
<1>3. ASSUME NEW d \in Deletion
      PROVE  /\ DeletionOK(op'[d], purge[d], past')
             /\ CronKnows(cron', d, op'[d], purge[d])
  <2>1. DeletionOK(op[d], purge[d], past) /\ CronKnows(cron, d, op[d], purge[d])
    BY DEF DeletionInv
  <2>2. op[d] # NoOp => op[d].login \in Login
    BY DEF DeletionInv, DeletionType, Operation
  <2>3. QED
    BY <1>1, <2>1, <2>2 DEF DeletionOK
<1>4. QED
  BY <1>1, <1>2, <1>3, PassStep

-----------------------------------------------------------------------------
(* The invariant *)

\* The first state.
LEMMA DeletionInitInv == DeletionInit => DeletionInv
<1> SUFFICES ASSUME DeletionInit PROVE DeletionInv
  OBVIOUS
<1>1. AccountsInv
  BY AccountsInitInv DEF DeletionInit
<1>2. DeletionType
  BY AsleepKnows DEF DeletionInit, DeletionType
<1>3. \A d \in Deletion : DeletionOK(op[d], purge[d], past) /\ CronKnows(cron, d, op[d], purge[d])
  BY AsleepKnows DEF DeletionInit, DeletionOK
<1>4. \A w \in Worker : WorkerOK(worker[w], op, purge) /\ worker[w] = Off
  BY OffKnows DEF DeletionInit
<1>5. Alone
  BY <1>4, OffKnows DEF Alone, Creates
<1>6. QED
  BY <1>1, <1>2, <1>3, <1>4, <1>5 DEF DeletionInv

\* Every step.
LEMMA DeletionNextInv == DeletionInv /\ [DeletionNext]_deletionVars => DeletionInv'
<1> SUFFICES ASSUME DeletionInv, [DeletionNext]_deletionVars PROVE DeletionInv'
  OBVIOUS
<1>1. CASE UNCHANGED deletionVars
  BY <1>1, PassOnly DEF deletionVars, DeletionInv, DeletionType
<1>2. CASE AccountsNext /\ UNCHANGED <<purge, op, worker, cron>>
  BY <1>2, AccountsAlone
<1>3. CASE DeletionStep
  <2>1. ASSUME NEW d \in Deletion, EngineAdvances(d) \/ SyncAsks(d) \/ SyncSkips(d)
        PROVE  DeletionInv'
    BY <2>1, AdvancesInv, SyncAsksInv, SyncSkipsInv
  <2>2. ASSUME NEW w \in Worker,
               \/ Requested(w) \/ Followed(w) \/ ImpactKnown(w) \/ InsertOp(w) \/ CreateFails(w)
               \/ WriteCreated(w) \/ WriteRead(w) \/ WriteResent(w) \/ Drop(w)
        PROVE  DeletionInv'
    BY <2>2, RequestedInv, FollowedInv, ImpactInv, InsertOpInv, CreateFailsInv, WriteCreatedInv,
       WriteReadInv, WriteResentInv, DropInv
  <2>3. ASSUME NEW w \in Worker, EngineTakes(w) \/ EngineTells(w) \/ EngineResumes(w)
        PROVE  DeletionInv'
    BY <2>3, TakesInv, TellsInv, ResumesInv
  <2>4. QED
    BY <1>3, <2>1, <2>2, <2>3, StartSyncInv, SyncCommitsInv, SyncDiesInv DEF DeletionStep
<1>4. QED
  BY <1>1, <1>2, <1>3 DEF DeletionNext

\* The invariant of the deletions, for every number of accounts, requests and
\* deletions.
THEOREM DeletionInvariant == DeletionSpec => []DeletionInv
BY DeletionInitInv, DeletionNextInv, PTL DEF DeletionSpec

\* Type correctness of MamDeletionService, MamAccountService and the profiles.
THEOREM DeletionTypeCorrect == DeletionSpec => []DeletionTypeOK
<1>1. DeletionInv => DeletionTypeOK
  BY DEF DeletionInv, AccountsInv, DeletionType, DeletionTypeOK
<1>2. QED
  BY <1>1, DeletionInvariant, PTL

\* The engine takes no deletion that has no row here: the row is committed
\* before the engine is asked.
THEOREM PurgesAreRecorded == DeletionSpec => []PurgeIsRecorded
<1>1. DeletionInv => PurgeIsRecorded
  <2> SUFFICES ASSUME DeletionInv, NEW d \in Deletion, purge[d] # NoAnswer
               PROVE  Said(d)
    BY DEF PurgeIsRecorded
  <2>1. op[d] \in Operation
    BY DEF DeletionInv, DeletionType, DeletionOK
  <2>2. QED
    BY <2>1 DEF Said, Operation, Progress, Terminal, NoAnswer
<1>2. QED
  BY <1>1, DeletionInvariant, PTL

\* However requests, deletions and polls race: no row of an account says more
\* than the engine ever said.
THEOREM RowsStayTrue == DeletionSpec => []RowsAreTrue
<1>1. DeletionInv => RowsAreTrue
  BY DEF DeletionInv, AccountsInv, RowOK, RowsAreTrue
<1>2. QED
  BY <1>1, DeletionInvariant, PTL

\* No profile, and no audited change, has a rate that the engine never took.
THEOREM ProfilesStayTrue == DeletionSpec => []ProfilesAreTrue
<1>1. DeletionInv => ProfilesAreTrue
  BY DEF DeletionInv, AccountsInv, ProfileOK, ProfilesAreTrue
<1>2. QED
  BY <1>1, DeletionInvariant, PTL

-----------------------------------------------------------------------------
(* Deletions and PATCHes delete                                            *)
(*                                                                         *)
(* An account is archived by a deletion that the engine has completed, or by *)
(* a PATCH that the engine took; and a deletion that is known to be complete *)
(* has archived its account, unless the engine took a PATCH with another     *)
(* status, which may be written late.                                      *)

\* Another status than DELETED was asked for.
Revived(q) == q.asked \ {"DELETED"} # {}

\* A status changes to one that the engine was asked for; a new row is DELETED
\* only if that was asked.
Honest ==
  \A l \in Login : \/ row'[l].status = row[l].status
                   \/ row'[l].status \in past[l].asked
                   \/ row[l] = NoRow /\ row'[l].status # "DELETED"

\* What requests write.
LEMMA WritesHonest ==
  ASSUME AccountsInv, NEW p \in Request, InsertRow(p) \/ WriteUpdate(p) \/ WriteEnabled(p)
  PROVE  Honest
<1>1. AccountsTypeOK
  BY DEF AccountsInv
<1>2. CASE InsertRow(p)
  <2>1. call[p].pc = "insert" /\ call[p].op \in {"create", "register", "import"}
    BY <1>2 DEF InsertRow
  <2> PICK l \in Login : LoginOf(p) = l
    BY <2>1, Busy
  <2> DEFINE o == [status |-> Answer(p).status, leader |-> Answer(p).leader]
  <2>2. EngineOK(Answer(p), past[l])
    BY <2>1, Busy DEF RequestOK, CallOK, Answer, LoginOf
  <2>3. o.status = "DELETED" => "DELETED" \in past[l].asked
    BY <2>2 DEF EngineOK
  <2>4. row' = IF row[l] # NoRow THEN row ELSE [row EXCEPT ![l] = o]
    BY <1>2 DEF InsertRow
  <2> HIDE DEF o
  <2>5. QED
    BY <1>1, <2>3, <2>4 DEF Honest, AccountsTypeOK
<1>3. CASE WriteUpdate(p) \/ WriteEnabled(p)
  <2>1. /\ call[p].pc # "idle" /\ call[p].op \in {"update", "profile"} /\ Written(p)
        /\ call[p].op = "update" => call[p].pc = "write"
        /\ call[p].op = "profile" => call[p].pc = "enabled"
    BY <1>3 DEF WriteUpdate, WriteEnabled, At
  <2> PICK l \in Login : LoginOf(p) = l
    BY <2>1, Busy
  <2>2. RequestOK(call[p], row, profile, past)
    BY <2>1, Busy
  <2>3. call[p].op = "update" => call[p].want \in Patches /\ PatchOK(call[p].want, past[l])
    BY <2>1, <2>2, AccountsAssumption DEF RequestOK, CallOK, Asks, LoginOf
  <2>4. call[p].op = "profile" => past[l].led
    BY <2>1, <2>2 DEF RequestOK, CallOK, LoginOf
  <2>5. [leader |-> TRUE] \in Patches
    BY DEF Patches
  <2> PICK w \in Patches : w = IF call[p].op = "update" THEN call[p].want ELSE [leader |-> TRUE]
    BY <2>3, <2>5
  <2>6. PatchOK(w, past[l])
    BY <2>1, <2>3, <2>4 DEF PatchOK
  <2> PICK o \in Row : /\ row' = [row EXCEPT ![l] = o]
                       /\ o.status = row[l].status \/ o.status \in past[l].asked
    BY <2>1, <2>6, WrittenIs
  <2>7. QED
    BY <1>1 DEF Honest, AccountsTypeOK
<1>4. QED
  BY <1>2, <1>3

\* Every step of Accounts.
LEMMA AccountsHonest ==
  ASSUME AccountsInv, AccountsNext
  PROVE  Honest
<1>1. ASSUME NEW p \in Request, Requests(p)
      PROVE  UNCHANGED row
  BY <1>1 DEF Requests, Openings, AccountChanges, Strategies, StrategyChanges, StartCreate,
     StartRegister, StartImport, StartUpdate, StartProfile, StartAdopt, StartRate, Begin
<1>2. ASSUME NEW p \in Request,
             \/ EngineOpens(p) \/ EngineShows(p) \/ EnginePatches(p) \/ EngineEnables(p)
             \/ EngineRates(p) \/ InsertProfile(p) \/ WriteRate(p) \/ Abandon(p)
      PROVE  UNCHANGED row
  BY <1>2 DEF EngineOpens, EngineShows, EnginePatches, EngineEnables, EngineRates, InsertProfile,
     WriteRate, Abandon
<1>3. ASSUME NEW l \in Login, OthersAct(l)
      PROVE  UNCHANGED row
  BY <1>3 DEF OthersAct
<1>4. UNCHANGED row => Honest
  BY DEF Honest
<1>5. QED
  BY <1>1, <1>2, <1>3, <1>4, WritesHonest DEF AccountsNext, Handled

\* Some deletion of the account of l is complete.
Purged(l, O, U) == \E d \in Deletion : O[d] # NoOp /\ O[d].login = l /\ U[d] = "COMPLETED"

\* The account of l is archived, or another status was asked for.
Archived(l, R, Q) == R[l].status = "DELETED" \/ Revived(Q[l])

\* The worker x that is to create a deletion saw an archived account only if it
\* is archived.
Remembers(x, R, Q) ==
  x.pc \notin Following \cup {"idle"} /\ x.seen.status = "DELETED" => Archived(x.login, R, Q)

ArchiveInv ==
  /\ \A l \in Login :
       row[l].status = "DELETED" => Purged(l, op, purge) \/ "DELETED" \in past[l].asked
  /\ \A d \in Deletion : op[d] # NoOp /\ op[d].completed => Archived(op[d].login, row, past)
  /\ \A w \in Worker : Remembers(worker[w], row, past)

\* What a step has to establish.
LEMMA ArchiveStep ==
  ASSUME DeletionInv, DeletionInv', ArchiveInv,
         \A l \in Login : past[l].asked \subseteq past'[l].asked,
         \A d \in Deletion : op[d] # NoOp => op'[d] # NoOp /\ op'[d].login = op[d].login,
         \A d \in Deletion : purge[d] = "COMPLETED" => purge'[d] = "COMPLETED",
         \A l \in Login : row[l].status = "DELETED" => Archived(l, row', past'),
         \A l \in Login : row'[l].status = "DELETED" =>
           row[l].status = "DELETED" \/ Purged(l, op, purge) \/ "DELETED" \in past'[l].asked,
         \A d \in Deletion : op'[d] # NoOp /\ op'[d].completed =>
           \/ op[d] # NoOp /\ op[d].completed
           \/ Archived(op'[d].login, row', past'),
         \A w \in Worker : worker'[w] = worker[w] \/ Remembers(worker'[w], row, past)
  PROVE  ArchiveInv'
<1>1. \A l \in Login : Purged(l, op, purge) => Purged(l, op', purge')
  BY DEF Purged
<1>2. \A d \in Deletion : op[d] # NoOp => op[d].login \in Login
  BY DEF DeletionInv, DeletionType, Operation
<1>3. \A l \in Login : Archived(l, row, past) => Archived(l, row', past')
  BY DEF Archived, Revived
<1>4. \A d \in Deletion : op'[d] # NoOp /\ op'[d].completed => Archived(op'[d].login, row', past')
  BY <1>2, <1>3 DEF ArchiveInv
<1>5. ASSUME NEW w \in Worker
      PROVE  Remembers(worker'[w], row', past')
  <2>1. Remembers(worker'[w], row, past)
    BY DEF ArchiveInv
  <2>2. CASE worker'[w] = Off
    BY <2>2 DEF Remembers, Off
  <2>3. CASE worker'[w] \in Working
    <3>1. worker'[w].login \in Login
      BY <2>3 DEF Working
    <3>2. QED
      BY <1>3, <2>1, <3>1 DEF Remembers
  <2>4. QED
    BY <2>2, <2>3 DEF DeletionInv, DeletionType
<1>6. \A l \in Login : row'[l].status = "DELETED" =>
        Purged(l, op', purge') \/ "DELETED" \in past'[l].asked
  BY <1>1 DEF ArchiveInv
<1>7. QED
  BY <1>4, <1>5, <1>6 DEF ArchiveInv, Purged, Remembers, Archived, Revived

\* A worker goes on as x, with nothing new to remember.
LEMMA RemembersStep ==
  ASSUME DeletionType, NEW w \in Worker, NEW x \in Working \cup {Off},
         worker' = [worker EXCEPT ![w] = x], Remembers(x, row, past)
  PROVE  \A v \in Worker : worker'[v] = worker[v] \/ Remembers(worker'[v], row, past)
BY DEF DeletionType

\* Steps that write nothing.
LEMMA ArchiveQuiet ==
  ASSUME DeletionInv, DeletionInv', ArchiveInv, UNCHANGED <<past, row, purge, op>>,
         \A w \in Worker : worker'[w] = worker[w] \/ Remembers(worker'[w], row, past)
  PROVE  ArchiveInv'
BY ArchiveStep DEF Archived

\* Only rows that are marked change.
LEMMA ArchiveIs ==
  ASSUME DeletionInv, NEW S, Archive(S), NEW l \in Login
  PROVE  row'[l].status = "DELETED" <=> row[l].status = "DELETED" \/ l \in S
<1>1. row[l] \in Row \cup {NoRow}
  BY DEF DeletionInv, AccountsInv, AccountsTypeOK
<1> PICK o \in Row : o = [row[l] EXCEPT !.status = "DELETED"] /\ o.status = "DELETED"
  BY <1>1, MarkedIs
<1>2. row'[l] = IF l \in S THEN o ELSE row[l]
  BY DEF Archive
<1>3. QED
  BY <1>2

\* The engine gets on with a deletion.
LEMMA ArchivePurge ==
  ASSUME DeletionInv, DeletionInv', ArchiveInv, NEW d \in Deletion, NEW l \in Login, NEW status,
         Purge(d, l, status), purge[d] # "COMPLETED", UNCHANGED <<row, op>>,
         \A w \in Worker : worker'[w] = worker[w] \/ Remembers(worker'[w], row, past)
  PROVE  ArchiveInv'
<1>1. \A m \in Login : past[m].asked \subseteq past'[m].asked
  <2>1. CASE status = "COMPLETED"
    BY <2>1, BecomesEnds DEF Purge, DeletionInv, AccountsInv
  <2>2. CASE status # "COMPLETED"
    BY <2>2 DEF Purge
  <2>3. QED
    BY <2>1, <2>2
<1>2. \A e \in Deletion : purge[e] = "COMPLETED" => purge'[e] = "COMPLETED"
  BY DEF Purge, DeletionInv, DeletionType
<1>3. QED
  BY <1>1, <1>2, ArchiveStep DEF Archived

\* The row o of a deletion is written, with the marks S.
LEMMA ArchiveWrites ==
  ASSUME DeletionInv, DeletionInv', ArchiveInv, UNCHANGED <<past, purge>>,
         NEW d \in Deletion, NEW o \in Operation, op' = [op EXCEPT ![d] = o],
         op[d] # NoOp => o.login = op[d].login,
         NEW S, Archive(S), \A l \in Login : l \in S => Purged(l, op, purge),
         o.completed => \/ op[d] # NoOp /\ op[d].completed
                        \/ o.login \in S \/ Archived(o.login, row, past),
         \A w \in Worker : worker'[w] = worker[w] \/ Remembers(worker'[w], row, past)
  PROVE  ArchiveInv'
<1>1. DeletionType
  BY DEF DeletionInv
<1>2. op'[d] = o /\ \A e \in Deletion \ {d} : op'[e] = op[e]
  BY <1>1 DEF DeletionType
<1>3. o # NoOp /\ o.login \in Login
  BY DEF Operation, NoOp
<1>4. \A e \in Deletion : op[e] # NoOp => op'[e] # NoOp /\ op'[e].login = op[e].login
  BY <1>2, <1>3
<1>5. \A l \in Login : row'[l].status = "DELETED" <=> row[l].status = "DELETED" \/ l \in S
  BY ArchiveIs
<1>6. \A l \in Login : row[l].status = "DELETED" \/ l \in S => Archived(l, row', past')
  BY <1>5 DEF Archived
<1>7. \A e \in Deletion : op'[e] # NoOp /\ op'[e].completed
        => (op[e] # NoOp /\ op[e].completed) \/ Archived(op'[e].login, row', past')
  BY <1>2, <1>3, <1>6 DEF Archived
<1>8. QED
  BY <1>4, <1>5, <1>6, <1>7, ArchiveStep

\* A step that marks nothing.
LEMMA NoMarks == AccountsTypeOK /\ UNCHANGED row => Archive({})
BY DEF AccountsTypeOK, Archive

\* Requests that only read, and the engine.
LEMMA ArchiveReads ==
  ASSUME DeletionInv, DeletionInv', ArchiveInv, NEW w \in Worker,
         Requested(w) \/ Followed(w) \/ EngineTells(w) \/ ImpactKnown(w) \/ Drop(w)
  PROVE  ArchiveInv'
<1>1. UNCHANGED <<past, row, purge, op>>
  BY DEF Requested, Followed, StartRequest, StartRead, EngineTells, ImpactKnown, Drop, rowsOfAccounts
<1>2. DeletionType /\ \A v \in Worker : worker'[v] \in Working \cup {Off}
  BY DEF DeletionInv, DeletionType
<1>3. \A v \in Worker \ {w} : worker'[v] = worker[v]
  BY <1>2 DEF Requested, Followed, StartRequest, StartRead, EngineTells, ImpactKnown, Drop,
     Hear, Advance, Stop, DeletionType
<1>4. Remembers(worker'[w], row, past)
  <2>1. CASE Requested(w)
    <3> PICK d \in Deletion, l \in Login : StartRequest(w, d, l)
      BY <2>1 DEF Requested
    <3>1. worker'[w] = [pc |-> "impact", act |-> "request", del |-> d, login |-> l,
                        seen |-> row[l], answer |-> NoAnswer]
      BY <1>2 DEF StartRequest, DeletionType
    <3>2. QED
      BY <3>1 DEF Remembers, Archived
  <2>2. CASE Followed(w)
    <3> PICK d \in Deletion, act \in {"get", "retry"} : StartRead(w, d, act)
      BY <2>2 DEF Followed
    <3>1. worker'[w].pc \in {"poll", "polled"}
      BY <1>2 DEF StartRead, DeletionType
    <3>2. QED
      BY <3>1 DEF Remembers, Following
  <2>3. CASE EngineTells(w)
    <3>1. worker[w].pc = "poll" /\ Hear(w, "polled", purge[DelOf(w)])
      BY <2>3 DEF EngineTells
    <3>2. worker'[w].pc = "polled"
      BY <1>2, <3>1, AtWork DEF Hear, DeletionType, Working
    <3>3. QED
      BY <3>2 DEF Remembers, Following
  <2>4. CASE ImpactKnown(w)
    <3>1. worker[w].pc = "impact" /\ Advance(w, "insert")
      BY <2>4 DEF ImpactKnown
    <3>2. worker'[w].seen = worker[w].seen /\ worker'[w].login = worker[w].login
      BY <1>2, <3>1, AtWork DEF Advance, DeletionType, Working
    <3>3. QED
      BY <3>1, <3>2 DEF ArchiveInv, Remembers, Following
  <2>5. CASE Drop(w)
    BY <1>2, <2>5 DEF Drop, Stop, DeletionType, Remembers, Off
  <2>6. QED
    BY <2>1, <2>2, <2>3, <2>4, <2>5
<1>5. QED
  BY <1>1, <1>3, <1>4, ArchiveQuiet

\* What the engine takes or resumes.
LEMMA ArchiveAnswers ==
  ASSUME DeletionInv, DeletionInv', ArchiveInv, NEW w \in Worker, EngineTakes(w) \/ EngineResumes(w)
  PROVE  ArchiveInv'
<1>1. /\ worker[w].pc \in {"create", "resend"} /\ UNCHANGED <<row, op>>
      /\ DeletionType
  BY DEF EngineTakes, EngineResumes, rowsOfAccounts, DeletionInv
<1> PICK d \in Deletion : d = DelOf(w)
  BY <1>1, AtWork
<1> PICK l \in Login : l = worker[w].login
  BY <1>1, AtWork
<1>2. WorkerKnows(worker[w], op[d], purge[d])
  BY <1>1, AtWork
<1>3. purge[d] # "COMPLETED"
  <2>1. CASE EngineTakes(w)
    BY <1>2, <2>1 DEF EngineTakes, WorkerKnows, CreatorKnows, Following, NoAnswer
  <2>2. CASE EngineResumes(w)
    BY <2>2 DEF EngineResumes
  <2>3. QED
    BY <2>1, <2>2
<1> PICK status \in {"PENDING", "COMPLETED"}, pc \in {"created", "resent"} :
      /\ Purge(d, l, status) /\ Hear(w, pc, status)
      /\ worker[w].pc = "create" => pc = "created"
      /\ worker[w].pc = "resend" => pc = "resent"
  BY DEF EngineTakes, EngineResumes
<1>4. status \in Progress
  BY DEF Progress, Terminal
<1> PICK n \in Working : /\ worker' = [worker EXCEPT ![w] = n]
                         /\ n.pc = pc /\ n.login = l /\ n.seen = worker[w].seen
  BY <1>1, <1>4, HearIs
<1>5. Remembers(worker[w], row, past)
  BY DEF ArchiveInv
<1>6. Remembers(n, row, past)
  BY <1>1, <1>5 DEF Remembers, Following
<1>7. QED
  BY <1>1, <1>3, <1>6, RemembersStep, ArchivePurge

\* The row of a new deletion.
LEMMA ArchiveInserts ==
  ASSUME DeletionInv, DeletionInv', ArchiveInv, NEW w \in Worker, InsertOp(w)
  PROVE  ArchiveInv'
<1>1. /\ worker[w].pc = "insert" /\ UNCHANGED <<past, row, purge>>
      /\ DeletionType /\ AccountsTypeOK
  BY DEF InsertOp, rowsOfAccounts, DeletionInv, AccountsInv
<1> PICK d \in Deletion : d = DelOf(w)
  BY <1>1, AtWork
<1> PICK l \in Login : l = worker[w].login
  BY <1>1, AtWork
<1>2. Remembers(worker[w], row, past)
  BY DEF ArchiveInv
<1>3. CASE op[d] # NoOp
  <2>1. UNCHANGED op /\ worker' = [worker EXCEPT ![w] = Off] /\ Remembers(Off, row, past)
    BY <1>3 DEF InsertOp, Stop, Remembers, Off
  <2>2. QED
    BY <1>1, <2>1, RemembersStep, ArchiveQuiet
<1>4. CASE op[d] = NoOp
  <2> DEFINE o == [status |-> "PENDING", known |-> FALSE, completed |-> FALSE, login |-> l]
  <2>1. op' = [op EXCEPT ![d] = o] /\ Advance(w, "create")
    BY <1>4 DEF InsertOp
  <2>2. o \in Operation /\ ~o.completed
    BY DEF Operation, Progress, Terminal
  <2> PICK n \in Working : /\ worker' = [worker EXCEPT ![w] = n]
                           /\ n.pc = "create" /\ n.login = l /\ n.seen = worker[w].seen
    BY <1>1, <2>1, AdvanceIs
  <2>3. Remembers(n, row, past)
    BY <1>1, <1>2 DEF Remembers, Following
  <2>4. Archive({})
    BY <1>1, NoMarks
  <2> HIDE DEF o
  <2>5. QED
    BY <1>1, <1>4, <2>1, <2>2, <2>3, <2>4, RemembersStep, ArchiveWrites
<1>5. QED
  BY <1>3, <1>4

\* A status that is written over another leaves completed_at and the account.
LEMMA ArchiveStatus ==
  ASSUME DeletionInv, DeletionInv', ArchiveInv, NEW w \in Worker, CreateFails(w) \/ WriteResent(w)
  PROVE  ArchiveInv'
<1>1. /\ worker[w].pc \in {"create", "created", "resent"} /\ UNCHANGED <<past, row, purge>>
      /\ worker' = [worker EXCEPT ![w] = Off] /\ Remembers(Off, row, past)
      /\ DeletionType /\ AccountsTypeOK
  BY DEF CreateFails, WriteResent, Stop, rowsOfAccounts, DeletionInv, AccountsInv, Remembers, Off
<1> PICK d \in Deletion : d = DelOf(w)
  BY <1>1, AtWork
<1>2. WorkerKnows(worker[w], op[d], purge[d]) /\ op[d] \in Operation \cup {NoOp}
  BY <1>1, AtWork
<1>3. op[d] \in Operation /\ op[d] # NoOp /\ (worker[w].pc = "resent" => worker[w].answer \in Progress)
  BY <1>1, <1>2 DEF WorkerKnows, CreatorKnows, FollowerKnows, Creating, Following
<1> DEFINE status == IF worker[w].pc = "resent" THEN worker[w].answer ELSE "FAILED"
<1>4. status \in Progress
  BY <1>3 DEF Progress, Terminal
<1>5. op' = [op EXCEPT ![d].status = status]
  BY DEF CreateFails, WriteResent
<1> HIDE DEF status
<1> PICK o \in Operation : /\ o = [op[d] EXCEPT !.status = status]
                           /\ o.completed = op[d].completed /\ o.login = op[d].login
  BY <1>3, <1>4, StatusIs
<1>6. op' = [op EXCEPT ![d] = o]
  BY <1>1, <1>5 DEF DeletionType
<1>7. QED
  BY <1>1, <1>3, <1>6, NoMarks, RemembersStep, ArchiveWrites

\* The answer to a request: a completed deletion archives the account, which
\* its creator saw archived otherwise.
LEMMA ArchiveCreated ==
  ASSUME DeletionInv, DeletionInv', ArchiveInv, NEW w \in Worker, WriteCreated(w)
  PROVE  ArchiveInv'
<1>1. /\ worker[w].pc = "created" /\ UNCHANGED <<past, purge>>
      /\ worker' = [worker EXCEPT ![w] = Off] /\ Remembers(Off, row, past) /\ DeletionType
  BY DEF WriteCreated, Stop, DeletionInv, Remembers, Off
<1> PICK d \in Deletion : d = DelOf(w)
  BY <1>1, AtWork
<1>2. WorkerKnows(worker[w], op[d], purge[d]) /\ op[d] \in Operation \cup {NoOp}
  BY <1>1, AtWork
<1>3. /\ worker[w].answer \in {"PENDING", "COMPLETED"} /\ op[d] \in Operation /\ op[d] # NoOp
      /\ op[d].login = worker[w].login
      /\ worker[w].answer = "COMPLETED" => purge[d] = "COMPLETED"
  BY <1>1, <1>2 DEF WorkerKnows, CreatorKnows, Creating, Following
<1> PICK l \in Login : l = op[d].login
  BY <1>3 DEF Operation
<1> PICK status \in {"PENDING", "COMPLETED"} : status = worker[w].answer
  BY <1>3
<1> DEFINE done == status = "COMPLETED"
           o == [op[d] EXCEPT !.status = status, !.known = TRUE, !.completed = done]
           S == IF done /\ worker[w].seen.status # "DELETED" THEN {l} ELSE {}
<1>4. op' = [op EXCEPT ![d] = o]
  BY DEF WriteCreated, DeletionInv, DeletionType
<1>5. Archive(S)
  BY <1>3 DEF WriteCreated
<1>6. o \in Operation /\ o.completed = done /\ o.login = l
  BY <1>3 DEF Operation, Progress, Terminal
<1>7. \A m \in Login : m \in S => Purged(m, op, purge)
  BY <1>3 DEF Purged
<1>8. done => l \in S \/ Archived(l, row, past)
  <2>1. worker[w].seen.status = "DELETED" => Archived(l, row, past)
    BY <1>1, <1>3 DEF ArchiveInv, Remembers, Following
  <2>2. QED
    BY <2>1
<1> HIDE DEF o, S
<1>9. o.completed => o.login \in S \/ Archived(o.login, row, past)
  BY <1>6, <1>8
<1>10. \A v \in Worker : worker'[v] = worker[v] \/ Remembers(worker'[v], row, past)
  BY <1>1, RemembersStep
<1> HIDE DEF done
<1>11. op[d] # NoOp => o.login = op[d].login
  BY <1>6
<1>12. QED
  BY <1>1, <1>4, <1>5, <1>6, <1>7, <1>9, <1>10, <1>11, ArchiveWrites

\* What refresh makes of completed_at.
LEMMA RefreshedCompletes ==
  ASSUME NEW old \in Operation, NEW seen \in Operation, NEW status \in Progress
  PROVE  Refreshed(old, seen, status).completed
           => old.completed \/ seen.completed \/ Marks(seen, status)
<1> DEFINE s == IF status = seen.status THEN old.status ELSE status
           c == old.completed \/ status = "COMPLETED"
<1>1. Refreshed(old, seen, status) = [old EXCEPT !.status = s, !.completed = c]
  BY DEF Refreshed, Operation
<1>2. c => old.completed \/ seen.completed \/ Marks(seen, status)
  BY DEF Marks
<1> HIDE DEF s, c
<1>3. [old EXCEPT !.status = s, !.completed = c].completed = c
  BY DEF Operation
<1>4. QED
  BY <1>1, <1>2, <1>3

\* What was read: whoever saw the deletion incomplete archives the account.
LEMMA ArchiveRead ==
  ASSUME DeletionInv, DeletionInv', ArchiveInv, NEW w \in Worker, WriteRead(w)
  PROVE  ArchiveInv'
<1>1. worker[w].pc = "polled" /\ UNCHANGED <<past, purge>> /\ DeletionType
  BY DEF WriteRead, DeletionInv
<1> PICK d \in Deletion : d = DelOf(w)
  BY <1>1, AtWork
<1>2. /\ WorkerKnows(worker[w], op[d], purge[d]) /\ DeletionOK(op[d], purge[d], past)
      /\ op[d] \in Operation \cup {NoOp}
  BY <1>1, AtWork
<1>3. /\ op[d] \in Operation /\ op[d] # NoOp /\ op[d].login = worker[w].login
      /\ worker[w].answer \in Progress /\ worker[w].seen \in Operation
      /\ worker[w].seen.completed => op[d].completed
      /\ worker[w].answer = "COMPLETED" => purge[d] = "COMPLETED"
  BY <1>1, <1>2 DEF WorkerKnows, FollowerKnows, Following
<1> PICK l \in Login : l = op[d].login
  BY <1>3 DEF Operation
<1> PICK old \in Operation : old = op[d]
  BY <1>3
<1> PICK seen \in Operation : seen = worker[w].seen
  BY <1>3
<1> PICK status \in Progress : status = worker[w].answer
  BY <1>3
<1>4. DeletionOK(old, purge[d], past) /\ (status = "COMPLETED" => purge[d] = "COMPLETED")
  BY <1>2, <1>3
<1> PICK o \in Operation : o = Refreshed(old, seen, status) /\ o.login = l
  BY <1>4, RefreshedIs
<1> DEFINE S == IF Marks(seen, status) THEN {l} ELSE {}
<1>5. op' = [op EXCEPT ![d] = o]
  BY DEF WriteRead, DeletionInv, DeletionType
<1>6. Archive(S)
  BY <1>3 DEF WriteRead
<1>7. \A m \in Login : m \in S => Purged(m, op, purge)
  BY <1>3 DEF Purged, Marks
<1>8. o.completed => op[d].completed \/ l \in S
  BY <1>3, RefreshedCompletes
<1> HIDE DEF S
<1>9. PICK n \in Working \cup {Off} : worker' = [worker EXCEPT ![w] = n] /\ Remembers(n, row, past)
  <2>1. CASE worker[w].act = "retry" /\ op'[d].status = "PARTIAL"
    <3>1. Advance(w, "resend")
      BY <2>1 DEF WriteRead
    <3>2. \E n \in Working : worker' = [worker EXCEPT ![w] = n] /\ n.pc = "resend"
      BY <1>1, <3>1, AdvanceIs
    <3>3. QED
      BY <3>2 DEF Remembers, Following
  <2>2. CASE ~(worker[w].act = "retry" /\ op'[d].status = "PARTIAL")
    <3>1. worker' = [worker EXCEPT ![w] = Off] /\ Remembers(Off, row, past)
      BY <2>2 DEF WriteRead, Stop, Remembers, Off
    <3>2. QED
      BY <3>1
  <2>3. QED
    BY <2>1, <2>2
<1>10. \A v \in Worker : worker'[v] = worker[v] \/ Remembers(worker'[v], row, past)
  BY <1>1, <1>9, RemembersStep
<1>11. /\ op[d] # NoOp => o.login = op[d].login
       /\ o.completed => (op[d] # NoOp /\ op[d].completed) \/ o.login \in S
  BY <1>3, <1>8
<1>12. QED
  BY <1>1, <1>5, <1>6, <1>7, <1>10, <1>11, ArchiveWrites

\* The pass archives whatever it has seen incomplete and hears to be complete.
LEMMA ArchiveSync ==
  ASSUME DeletionInv, DeletionInv', ArchiveInv, SyncCommits
  PROVE  ArchiveInv'
<1> DEFINE heard == {d \in Deletion : cron.answer[d] # NoAnswer}
           S == {op[d].login : d \in {x \in heard : Marks(cron.seen[x], cron.answer[x])}}
<1>1. /\ op' = [d \in Deletion |-> IF d \in heard THEN Refreshed(op[d], cron.seen[d], cron.answer[d])
                                                  ELSE op[d]]
      /\ Archive(S) /\ UNCHANGED <<past, purge, worker>>
  BY DEF SyncCommits
<1>2. ASSUME NEW d \in Deletion, d \in heard
      PROVE  /\ op[d] \in Operation /\ op[d] # NoOp /\ cron.seen[d] \in Operation
             /\ cron.answer[d] \in Progress /\ (cron.seen[d].completed => op[d].completed)
             /\ cron.answer[d] = "COMPLETED" => purge[d] = "COMPLETED"
  <2>1. CronKnows(cron, d, op[d], purge[d])
    BY DEF DeletionInv
  <2>2. cron.answer[d] \in Progress /\ op[d] \in Operation \cup {NoOp}
    BY <1>2 DEF DeletionInv, DeletionType, Polling
  <2>3. QED
    BY <1>2, <2>1, <2>2 DEF CronKnows
<1>3. ASSUME NEW d \in Deletion, d \in heard
      PROVE  /\ op'[d] # NoOp /\ op'[d].login = op[d].login
             /\ op'[d].completed => op[d].completed \/ op[d].login \in S
  <2> PICK old \in Operation : old = op[d]
    BY <1>2, <1>3
  <2> PICK seen \in Operation : seen = cron.seen[d]
    BY <1>2, <1>3
  <2> PICK status \in Progress : status = cron.answer[d]
    BY <1>2, <1>3
  <2>1. DeletionOK(old, purge[d], past) /\ (status = "COMPLETED" => purge[d] = "COMPLETED")
    BY <1>2, <1>3 DEF DeletionInv
  <2> PICK o \in Operation : o = Refreshed(old, seen, status) /\ o.login = old.login
    BY <2>1, RefreshedIs
  <2>2. op'[d] = o /\ o # NoOp
    BY <1>1, <1>3 DEF Operation, NoOp
  <2>3. o.completed => old.completed \/ seen.completed \/ Marks(seen, status)
    BY RefreshedCompletes
  <2>4. Marks(seen, status) => op[d].login \in S
    BY <1>3
  <2>5. QED
    BY <1>2, <1>3, <2>2, <2>3, <2>4
<1>4. \A d \in Deletion : d \notin heard => op'[d] = op[d]
  BY <1>1
<1>5. \A l \in Login : l \in S => Purged(l, op, purge)
  BY <1>2 DEF Marks, Purged
<1> HIDE DEF heard, S
<1>6. \A l \in Login : row'[l].status = "DELETED" <=> row[l].status = "DELETED" \/ l \in S
  BY <1>1, ArchiveIs
<1>7. \A d \in Deletion : /\ op[d] # NoOp => op'[d] # NoOp /\ op'[d].login = op[d].login
                          /\ op'[d] # NoOp => op[d] # NoOp /\ op[d].login \in Login
  BY <1>2, <1>3, <1>4 DEF DeletionInv, DeletionType, Operation
<1>8. ASSUME NEW d \in Deletion, op'[d] # NoOp, op'[d].completed
      PROVE  (op[d] # NoOp /\ op[d].completed) \/ Archived(op'[d].login, row', past')
  BY <1>3, <1>4, <1>6, <1>7, <1>8 DEF Archived
<1>9. \A l \in Login : row[l].status = "DELETED" => Archived(l, row', past')
  BY <1>6 DEF Archived
<1>10. QED
  BY <1>1, <1>5, <1>6, <1>7, <1>8, <1>9, ArchiveStep

\* Every step.
LEMMA ArchiveNextInv ==
  ASSUME DeletionInv, DeletionInv', ArchiveInv, [DeletionNext]_deletionVars
  PROVE  ArchiveInv'
<1>1. CASE UNCHANGED deletionVars
  BY <1>1, ArchiveQuiet DEF deletionVars
<1>2. CASE AccountsNext /\ UNCHANGED <<purge, op, worker, cron>>
  <2>1. AccountsInv /\ Honest /\ \A l \in Login : past[l].asked \subseteq past'[l].asked
    BY <1>2, AccountsHonest, EndedStays DEF DeletionInv, AccountsInv
  <2>2. ASSUME NEW l \in Login
        PROVE  /\ row[l].status = "DELETED" => Archived(l, row', past')
               /\ row'[l].status = "DELETED" =>
                    row[l].status = "DELETED" \/ "DELETED" \in past'[l].asked
    BY <2>1 DEF Honest, Archived, Revived, NoRow
  <2>3. QED
    BY <1>2, <2>1, <2>2, ArchiveStep DEF Archived
<1>3. CASE DeletionStep
  <2>1. ASSUME NEW d \in Deletion, EngineAdvances(d)
        PROVE  ArchiveInv'
    <3>1. purge[d] = "PENDING" /\ UNCHANGED <<row, op, worker>>
      BY <2>1 DEF EngineAdvances, rowsOfAccounts
    <3>2. op[d].login \in Login
      BY <3>1 DEF DeletionInv, DeletionOK, DeletionType, Operation, NoAnswer
    <3> PICK l \in Login : l = op[d].login
      BY <3>2
    <3> PICK status : Purge(d, l, status)
      BY <2>1 DEF EngineAdvances
    <3>3. QED
      BY <3>1, ArchivePurge
  <2>2. ASSUME \/ \E d \in Deletion : SyncAsks(d) \/ SyncSkips(d)
               \/ StartSync \/ SyncDies
        PROVE  ArchiveInv'
    BY <2>2, ArchiveQuiet DEF SyncAsks, SyncSkips, StartSync, SyncDies, rowsOfAccounts
  <2>3. ASSUME NEW w \in Worker,
               \/ Requested(w) \/ Followed(w) \/ EngineTells(w) \/ ImpactKnown(w) \/ Drop(w)
               \/ EngineTakes(w) \/ EngineResumes(w)
        PROVE  ArchiveInv'
    BY <2>3, ArchiveReads, ArchiveAnswers
  <2>4. ASSUME NEW w \in Worker,
               \/ InsertOp(w) \/ CreateFails(w) \/ WriteResent(w) \/ WriteCreated(w) \/ WriteRead(w)
        PROVE  ArchiveInv'
    BY <2>4, ArchiveInserts, ArchiveStatus, ArchiveCreated, ArchiveRead
  <2>5. QED
    BY <1>3, <2>1, <2>2, <2>3, <2>4, ArchiveSync DEF DeletionStep
<1>4. QED
  BY <1>1, <1>2, <1>3 DEF DeletionNext

\* The first state.
LEMMA ArchiveInitInv == DeletionInit => ArchiveInv
BY DEF DeletionInit, AccountsInit, ArchiveInv, NoRow, Remembers, Off

\* An account is archived only by a deletion that the engine has completed or by a
\* PATCH that it took, and whoever records a completion archives the account with
\* it, whatever was written in between, unless a PATCH asked for another status.
THEOREM ArchivesFollowPurges == DeletionSpec => []ArchivedIsPurged
<1>1. DeletionInv /\ ArchiveInv => ArchivedIsPurged
  <2> SUFFICES ASSUME DeletionInv, ArchiveInv PROVE ArchivedIsPurged
    OBVIOUS
  <2>1. \A d \in Deletion : Said(d) <=> op[d] # NoOp
    BY DEF Said, DeletionInv, DeletionType, NoOp, Operation, Progress, Terminal, NoAnswer
  <2>2. \A d \in Deletion : DeletionOK(op[d], purge[d], past)
    BY DEF DeletionInv
  <2>3. QED
    BY <2>1, <2>2 DEF ArchivedIsPurged, DeletionOK, ArchiveInv, Purged, Archived, Revived
<1>2. DeletionInv /\ DeletionInv' /\ ArchiveInv /\ [DeletionNext]_deletionVars => ArchiveInv'
  BY ArchiveNextInv
<1>3. QED
  BY <1>1, <1>2, ArchiveInitInv, DeletionInvariant, PTL DEF DeletionSpec
=============================================================================
