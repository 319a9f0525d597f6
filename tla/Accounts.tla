------------------------------ MODULE Accounts ------------------------------
(***************************************************************************)
(* MT5 accounts and leader profiles, between the MAM engine that owns them *)
(* and the rows that repeat them (MamAccountService, MamLeaderService).    *)
(*                                                                         *)
(* A request loads the row, awaits the engine and commits what the engine  *)
(* accepted, over whatever another request committed in between; a column  *)
(* is written only where it differs from the loaded one.  The engine also  *)
(* serves others, and may carry out a request of ours whose answer is      *)
(* lost: both are OthersAct.                                               *)
(***************************************************************************)
CONSTANTS
  Login,    \* the MT5 logins
  Request,  \* the HTTP requests handled at the same time
  Rate,     \* the performance fee rates of a strategy
  NoRate,   \* no strategy
  Patch     \* bound: the changes of an account that clients ask for

Status == {"ACTIVE", "INACTIVE", "DELETED"}

\* A PATCH of one column.
Patches == [leader : BOOLEAN] \cup [status : Status]

ASSUME AccountsAssumption == NoRate \notin Rate /\ Patch \subseteq Patches

VARIABLES
  account,  \* the accounts of the engine
  past,     \* what the engine has ever said of an account
  row,      \* mam_accounts
  profile,  \* mam_leader_profiles: the rate, or NoRate without a profile
  audit,    \* mam_fee_config_changes: the rate of the last change
  call      \* what each request is doing

accountVars == <<account, past, row, profile, audit, call>>

-----------------------------------------------------------------------------
(* States                                                                  *)

\* An account of the engine, with the rate of its strategy if it is a leader.
Account == [status : Status, leader : BOOLEAN, rate : Rate \cup {NoRate}]
Absent == [status |-> "ABSENT", leader |-> FALSE, rate |-> NoRate]

\* led: it could be a leader; asked: the statuses that a PATCH gave it; ended: a
\* deletion removed it; rates: those it had.
Past == [led : BOOLEAN, asked : SUBSET Status, ended : BOOLEAN, rates : SUBSET Rate]

Row == [status : Status, leader : BOOLEAN]
NoRow == [status |-> "NONE", leader |-> FALSE]

\* The rate of a profile, and the rate of the last change.
Profile == Rate \cup {NoRate}

Audit == Rate \cup {NoRate}

Idle == [pc |-> "idle"]

\* What a request may ask for: a capability, a status, a rate, or nothing.
Wanted == Patches \cup Rate \cup {NoRate}

Running == [pc : {"enable", "enabled", "ask", "insert", "write"},
            op : {"create", "register", "import", "update", "profile", "adopt", "rate"},
            login : Login, want : Wanted,
            seen : Row \cup {NoRow}, rate : Rate \cup {NoRate},
            answer : Account \cup {Absent}]

At(p, op, pc) == call[p].pc = pc /\ call[p].op = op
LoginOf(p) == call[p].login
Seen(p) == call[p].seen
Answer(p) == call[p].answer

Goto(p, pc) == call' = [call EXCEPT ![p].pc = pc]
End(p) == call' = [call EXCEPT ![p] = Idle]

\* A request starts with the row or the profile as it is, if it is to write it.
Begin(p, op, pc, l, want) ==
  /\ call[p] = Idle
  /\ call' = [call EXCEPT ![p] = [pc |-> pc, op |-> op, login |-> l, want |-> want,
                                  seen |-> IF op \in {"update", "profile"} THEN row[l] ELSE NoRow,
                                  rate |-> IF op = "rate" THEN profile[l] ELSE NoRate,
                                  answer |-> Absent]]
  /\ UNCHANGED <<account, past, row, profile, audit>>

\* Of the account of l the engine says a from now on; asked is the status that a
\* PATCH asked it for, if any.
Becomes(l, a, asked) ==
  /\ account' = [account EXCEPT ![l] = a]
  /\ past' = [past EXCEPT ![l] = [led |-> past[l].led \/ a.leader,
                                  asked |-> past[l].asked \cup asked,
                                  ended |-> past[l].ended \/ a = Absent,
                                  rates |-> past[l].rates \cup ({a.rate} \ {NoRate})]]

\* The engine does not know l yet; a login it has deleted does not come back.
Fresh(l) == account[l] = Absent /\ ~past[l].ended

Patched(a, w) == [a EXCEPT !.leader = IF "leader" \in DOMAIN w THEN w.leader ELSE @,
                           !.status = IF "status" \in DOMAIN w THEN w.status ELSE @]

StatusIn(w) == {w[c] : c \in DOMAIN w \cap {"status"}}

Opened(leader) == [status |-> "ACTIVE", leader |-> leader, rate |-> NoRate]

AccountsInit ==
  /\ account = [l \in Login |-> Absent]
  /\ past = [l \in Login |-> [led |-> FALSE, asked |-> {}, ended |-> FALSE, rates |-> {}]]
  /\ row = [l \in Login |-> NoRow]
  /\ profile = [l \in Login |-> NoRate]
  /\ audit = [l \in Login |-> NoRate]
  /\ call = [p \in Request |-> Idle]

-----------------------------------------------------------------------------
(* Requests                                                                *)

\* create_account: the engine is to open a new MT5 account.
StartCreate(p, l, b) ==
  /\ Fresh(l) /\ row[l] = NoRow
  /\ Begin(p, "create", "ask", l, [leader |-> b])

\* register_account: the engine is to take an MT5 account it does not have.
StartRegister(p, l, b) == row[l] = NoRow /\ Begin(p, "register", "ask", l, [leader |-> b])

\* import_account: the engine has it already, and says how it is.
StartImport(p, l) == row[l] = NoRow /\ Begin(p, "import", "ask", l, NoRate)

UpdateFirst(p, l, w) == row[l] # NoRow /\ Begin(p, "update", "write", l, w)

\* update_account: a capability or the status.
StartUpdate(p, l, w) == row[l] # NoRow /\ Begin(p, "update", "ask", l, w)

ProfileFirst(p, l, r) ==
  /\ row[l] # NoRow /\ profile[l] = NoRate /\ call[p] = Idle
  /\ profile' = [profile EXCEPT ![l] = r]
  /\ UNCHANGED <<account, past, row, audit, call>>

\* create_profile: the account becomes a strategy with rate r.
StartProfile(p, l, r) ==
  /\ row[l] # NoRow /\ profile[l] = NoRate
  /\ Begin(p, "profile", IF row[l].leader THEN "ask" ELSE "enable", l, r)

\* import_profile: the engine has the strategy already.
StartAdopt(p, l) ==
  row[l] # NoRow /\ profile[l] = NoRate /\ Begin(p, "adopt", "ask", l, NoRate)

\* update_profile: a new rate.
StartRate(p, l, r) == profile[l] # NoRate /\ Begin(p, "rate", "ask", l, r)

-----------------------------------------------------------------------------
(* The engine carries out the request, or refuses it (End).                *)

\* It says how the account is now, and the request goes on at pc.  Only a new
\* row is made from what it says; a change writes what was asked for.
Reply(p, pc, a) ==
  call' = [call EXCEPT ![p].pc = pc, ![p].answer = IF pc = "insert" THEN a ELSE Absent]

EngineOpens(p) ==
  LET a == Opened(call[p].want.leader)
  IN  /\ At(p, "create", "ask") \/ At(p, "register", "ask")
      /\ Fresh(LoginOf(p))
      /\ Becomes(LoginOf(p), a, {}) /\ Reply(p, "insert", a)
      /\ UNCHANGED <<row, profile, audit>>

EngineShowsAnything(p) ==
  /\ At(p, "import", "ask") \/ At(p, "adopt", "ask")
  /\ Reply(p, "insert", account[LoginOf(p)])
  /\ UNCHANGED <<account, past, row, profile, audit>>

EngineShows(p) ==
  LET a == account[LoginOf(p)]
  IN  /\ \/ At(p, "import", "ask") /\ a # Absent
         \/ At(p, "adopt", "ask") /\ a.rate # NoRate
      /\ Reply(p, "insert", a)
      /\ UNCHANGED <<account, past, row, profile, audit>>

EnginePatches(p) ==
  LET a == Patched(account[LoginOf(p)], call[p].want)
  IN  /\ At(p, "update", "ask") /\ account[LoginOf(p)] # Absent
      /\ Becomes(LoginOf(p), a, StatusIn(call[p].want)) /\ Reply(p, "write", a)
      /\ UNCHANGED <<row, profile, audit>>

EngineEnables(p) ==
  LET a == [account[LoginOf(p)] EXCEPT !.leader = TRUE]
  IN  /\ At(p, "profile", "enable") /\ account[LoginOf(p)] # Absent
      /\ Becomes(LoginOf(p), a, {}) /\ Reply(p, "enabled", a)
      /\ UNCHANGED <<row, profile, audit>>

\* The rate of a new strategy, or of one that exists.
EngineRates(p) ==
  LET old == account[LoginOf(p)]
      a == [old EXCEPT !.rate = call[p].want]
  IN  /\ \/ At(p, "profile", "ask") /\ old.leader /\ old.rate = NoRate
         \/ At(p, "rate", "ask") /\ old.rate # NoRate
      /\ Becomes(LoginOf(p), a, {})
      /\ Reply(p, IF call[p].op = "rate" THEN "write" ELSE "insert", a)
      /\ UNCHANGED <<row, profile, audit>>

\* The broker or another system changes an account, or a request of ours is
\* carried out although its answer never reaches us.
OthersAct(l) ==
  /\ \/ Fresh(l) /\ \E b \in BOOLEAN : Becomes(l, Opened(b), {})
     \/ account[l] # Absent /\ \E w \in Patch : Becomes(l, Patched(account[l], w), StatusIn(w))
     \/ account[l].leader /\ \E r \in Rate : Becomes(l, [account[l] EXCEPT !.rate = r], {})
  /\ UNCHANGED <<row, profile, audit, call>>

-----------------------------------------------------------------------------
(* The rows                                                                *)

\* _persist: the row is inserted as the engine said it is, unless another
\* request has inserted it: then the unique login refuses.
InsertRow(p) ==
  /\ call[p].pc = "insert" /\ call[p].op \in {"create", "register", "import"}
  /\ row' = IF row[LoginOf(p)] # NoRow THEN row
            ELSE [row EXCEPT ![LoginOf(p)] = [status |-> Answer(p).status,
                                              leader |-> Answer(p).leader]]
  /\ End(p)
  /\ UNCHANGED <<account, past, profile, audit>>

\* The columns that were asked for are written where they differ from what
\* was loaded.
Written(p) ==
  LET l == LoginOf(p)
      new == Patched(Seen(p), IF call[p].op = "update" THEN call[p].want ELSE [leader |-> TRUE])
  IN  row' = [row EXCEPT ![l].status = IF new.status = Seen(p).status THEN @ ELSE new.status,
                         ![l].leader = IF new.leader = Seen(p).leader THEN @ ELSE new.leader]

WriteUpdate(p) ==
  /\ At(p, "update", "write")
  /\ Written(p) /\ End(p)
  /\ UNCHANGED <<account, past, profile, audit>>

\* create_profile commits the capability before it asks for the profile.
WriteEnabled(p) ==
  /\ At(p, "profile", "enabled")
  /\ Written(p) /\ Goto(p, "ask")
  /\ UNCHANGED <<account, past, profile, audit>>

\* The profile is inserted, unless the account has one.
InsertProfile(p) ==
  LET l == LoginOf(p)
  IN  /\ At(p, "profile", "insert") \/ At(p, "adopt", "insert")
      /\ profile' = [profile EXCEPT ![l] = IF @ = NoRate THEN Answer(p).rate ELSE @]
      /\ End(p)
      /\ UNCHANGED <<account, past, row, audit>>

\* update_profile: the new rate and its audit are one commit.
WriteRate(p) ==
  LET l == LoginOf(p)
  IN  /\ At(p, "rate", "write")
      /\ profile' = [profile EXCEPT ![l] = IF call[p].want = call[p].rate THEN @ ELSE call[p].want]
      /\ audit' = [audit EXCEPT ![l] = call[p].want]
      /\ End(p)
      /\ UNCHANGED <<account, past, row>>

\* The engine refuses or does not answer, or the process dies.
Abandon(p) ==
  /\ call[p] # Idle
  /\ End(p)
  /\ UNCHANGED <<account, past, row, profile, audit>>

Openings(p) == \E l \in Login :
  \/ \E b \in BOOLEAN : StartCreate(p, l, b) \/ StartRegister(p, l, b)
  \/ StartImport(p, l)

AccountChanges(p) == \E l \in Login, w \in Patch : StartUpdate(p, l, w)

Strategies(p) == \E l \in Login :
  \/ \E r \in Rate : StartProfile(p, l, r)
  \/ StartAdopt(p, l)

StrategyChanges(p) == \E l \in Login, r \in Rate : StartRate(p, l, r)

Requests(p) == Openings(p) \/ AccountChanges(p) \/ Strategies(p) \/ StrategyChanges(p)

Handled(p) ==
  \/ EngineOpens(p) \/ EngineShows(p) \/ EnginePatches(p) \/ EngineEnables(p) \/ EngineRates(p)
  \/ InsertRow(p) \/ WriteUpdate(p) \/ WriteEnabled(p) \/ InsertProfile(p) \/ WriteRate(p)
  \/ Abandon(p)

AccountsNext ==
  \/ \E p \in Request : Requests(p) \/ Handled(p)
  \/ \E l \in Login : OthersAct(l)

AccountsSpec == AccountsInit /\ [][AccountsNext]_accountVars

-----------------------------------------------------------------------------
(* Properties                                                              *)

\* Type correctness.
AccountsTypeOK ==
  /\ account \in [Login -> Account \cup {Absent}]
  /\ past \in [Login -> Past]
  /\ row \in [Login -> Row \cup {NoRow}]
  /\ profile \in [Login -> Profile]
  /\ audit \in [Login -> Audit]
  /\ call \in [Request -> Running \cup {Idle}]

\* However the requests race: no row says that an account can be a leader, or
\* that it is deleted, unless the engine has said so.
RowsAreTrue ==
  \A l \in Login :
    /\ row[l].leader => past[l].led
    /\ row[l].status = "DELETED" => past[l].ended \/ "DELETED" \in past[l].asked

\* No profile has, and no audited change gives, a rate that the engine did not
\* take; and only an account of ours that could be a leader has a profile.
ProfilesAreTrue ==
  \A l \in Login :
    /\ {profile[l], audit[l]} \subseteq past[l].rates \cup {NoRate}
    /\ profile[l] # NoRate => row[l] # NoRow /\ past[l].led
=============================================================================
