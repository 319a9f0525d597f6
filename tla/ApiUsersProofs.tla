--------------------------- MODULE ApiUsersProofs ---------------------------
(***************************************************************************)
(* That nobody is locked out, for any users, keys and requests.  The first *)
(* user is one of them, and nobody is none.                                *)
(***************************************************************************)
EXTENDS ApiUsers, TLAPS

Handling == [pc : {"read", "write"}, op : {"create", "update", "delete", "regenerate", "trader"},
             user : User, want : Roles, seen : Roles \cup {Unborn, Gone}, old : SUBSET Key]

TypeOK ==
  /\ role \in [User -> Roles \cup {Unborn, Gone}]
  /\ holder \in [Key -> User \cup {Nobody}]
  /\ active \subseteq Key
  /\ call \in [Client -> Handling \cup {Idle}]

\* What a request is to revoke belongs to the user it was asked about, however
\* long ago that was: a key never changes hands.
RevokesOwn == \A p \in Client : call[p] # Idle => \A k \in call[p].old : holder[k] = Target(p)

UsersInv == TypeOK /\ RevokesOwn /\ NobodyIsLost

\* The users are what the two assumptions of the theorem say.
Sane == First \in User /\ Nobody \notin User

-----------------------------------------------------------------------------
\* A running handler is a record of Handling: what its fields are.
LEMMA HandlingFields ==
  ASSUME TypeOK, NEW p \in Client, call[p].pc \in {"read", "write"}
  PROVE  /\ call[p] # Idle /\ call[p] \in Handling
         /\ Target(p) \in User /\ call[p].want \in Roles /\ call[p].old \subseteq Key
<1>1. call[p] # Idle
  BY DEF Idle
<1>2. call[p] \in Handling
  BY <1>1 DEF TypeOK
<1> QED
  BY <1>1, <1>2 DEF Handling, Target

\* A request that ends leaves the others as they were.
LEMMA EndKeeps ==
  ASSUME TypeOK, RevokesOwn, NEW p \in Client, End(p),
         \A k \in Key : holder[k] # Nobody => holder'[k] = holder[k], Sane
  PROVE  call' \in [Client -> Handling \cup {Idle}] /\ RevokesOwn'
<1>1. call' \in [Client -> Handling \cup {Idle}]
  BY DEF TypeOK, End
<1>2. ASSUME NEW q \in Client, call'[q] # Idle, NEW k \in call'[q].old
      PROVE  holder'[k] = call'[q].user
  <2>1. call'[q] = call[q] /\ call[q] # Idle
    BY <1>2 DEF TypeOK, End
  <2>2. call[q] \in Handling
    BY <2>1 DEF TypeOK
  <2>3. k \in Key /\ call[q].user \in User
    BY <1>2, <2>1, <2>2 DEF Handling
  <2>4. holder[k] = call[q].user
    BY <1>2, <2>1 DEF RevokesOwn, Target
  <2> QED
    BY <2>1, <2>3, <2>4 DEF Sane
<1> QED
  BY <1>1, <1>2 DEF RevokesOwn, Target

\* A request that only goes on, with its keys to revoke checked, disturbs nothing.
LEMMA GoesOn ==
  ASSUME UsersInv, NEW p \in Client, UNCHANGED <<role, holder, active, trades>>,
         NEW c \in Handling, call' = [call EXCEPT ![p] = c],
         \A k \in c.old : holder[k] = c.user
  PROVE  UsersInv'
<1>1. TypeOK'
  BY DEF UsersInv, TypeOK
<1>2. RevokesOwn'
  BY DEF UsersInv, TypeOK, RevokesOwn, Target
<1>3. NobodyIsLost'
  BY DEF UsersInv, NobodyIsLost, Users, KeysOf
<1> QED
  BY <1>1, <1>2, <1>3 DEF UsersInv

\* A request that ends without a write disturbs nothing.
LEMMA EndsOnly ==
  ASSUME UsersInv, Sane, NEW p \in Client, End(p), UNCHANGED <<role, holder, active, trades>>
  PROVE  UsersInv'
<1>1. call' \in [Client -> Handling \cup {Idle}] /\ RevokesOwn'
  BY EndKeeps DEF UsersInv
<1>2. NobodyIsLost'
  BY DEF UsersInv, NobodyIsLost, Users, KeysOf
<1> QED
  BY <1>1, <1>2 DEF UsersInv, TypeOK

\* A key is issued to u, who is a user then, and only keys of u are revoked.
LEMMA IssueKeeps ==
  ASSUME TypeOK, NobodyIsLost, Sane, NEW u \in User, NEW revoked \in SUBSET Key,
         \A k \in revoked : holder[k] = u, Issue(u, revoked),
         role' \in [User -> Roles \cup {Unborn, Gone}], role'[u] \in Roles,
         \A v \in User \ {u} : role'[v] = role[v], trades' = trades
  PROVE  /\ holder' \in [Key -> User \cup {Nobody}] /\ active' \subseteq Key
         /\ \A k \in Key : holder[k] # Nobody => holder'[k] = holder[k]
         /\ NobodyIsLost'
<1>1. PICK k \in Key : /\ holder[k] = Nobody /\ holder' = [holder EXCEPT ![k] = u]
                       /\ active' = (active \ revoked) \cup {k}
  BY DEF Issue
<1>2. /\ holder' \in [Key -> User \cup {Nobody}] /\ active' \subseteq Key
      /\ \A x \in Key : holder[x] # Nobody => holder'[x] = holder[x]
      /\ holder'[k] = u
  BY <1>1 DEF TypeOK
<1>3. ASSUME NEW v \in Users' PROVE KeysOf(v)' # {}
  <2>1. CASE v = u
    <3>1. k \in KeysOf(v)'
      BY <1>1, <1>2, <2>1 DEF KeysOf
    <3> QED
      BY <3>1
  <2>2. CASE v # u
    <3>1. v \in Users
      BY <2>2 DEF Users
    <3>2. PICK x \in active : holder[x] = v
      BY <3>1 DEF NobodyIsLost, KeysOf
    <3>3. x \in Key /\ holder[x] # Nobody
      BY <3>1, <3>2 DEF TypeOK, Users, Sane
    <3>4. x \notin revoked
      BY <2>2, <3>2
    <3>5. x \in KeysOf(v)'
      BY <1>1, <1>2, <3>2, <3>3, <3>4 DEF KeysOf
    <3> QED
      BY <3>5
  <2> QED
    BY <2>1, <2>2
<1>4. ASSUME NEW x \in active' PROVE holder'[x] \in Users'
  <2>1. CASE x = k
    BY <1>2, <2>1 DEF Users
  <2>2. CASE x # k
    <3>1. x \in active /\ x \in Key /\ holder'[x] = holder[x]
      BY <1>1, <1>2, <2>2 DEF TypeOK
    <3>2. holder[x] \in Users
      BY <3>1 DEF NobodyIsLost
    <3> QED
      BY <3>1, <3>2 DEF Users
  <2> QED
    BY <2>1, <2>2
<1>5. trades' \subseteq Users'
  BY DEF NobodyIsLost, Users
<1> QED
  BY <1>2, <1>3, <1>4, <1>5 DEF NobodyIsLost

-----------------------------------------------------------------------------
\* The first state.
LEMMA UsersInvInit == ASSUME Sane, ApiUsersInit PROVE UsersInv
<1>1. TypeOK
  BY DEF Sane, ApiUsersInit, TypeOK, Roles, Unborn, Gone
<1>2. RevokesOwn
  BY DEF ApiUsersInit, RevokesOwn
<1>3. PICK k \in Key : active = {k} /\ holder = [x \in Key |-> IF x = k THEN First ELSE Nobody]
  BY DEF ApiUsersInit
<1>4. Users = {First}
  BY DEF Sane, ApiUsersInit, Users, Roles, Unborn
<1>5. NobodyIsLost
  BY <1>3, <1>4 DEF NobodyIsLost, KeysOf, ApiUsersInit
<1> QED
  BY <1>1, <1>2, <1>5 DEF UsersInv

\* The script issues a key to a user that is there, or is made with it.
LEMMA ScriptKeeps ==
  ASSUME Sane, UsersInv, NEW u \in User, NEW r \in Roles, ScriptIssues(u, r)
  PROVE  UsersInv'
<1>1. /\ role' \in [User -> Roles \cup {Unborn, Gone}] /\ role'[u] \in Roles
      /\ \A v \in User \ {u} : role'[v] = role[v]
  BY DEF UsersInv, TypeOK, ScriptIssues
<1>2. /\ holder' \in [Key -> User \cup {Nobody}] /\ active' \subseteq Key
      /\ \A k \in Key : holder[k] # Nobody => holder'[k] = holder[k]
      /\ NobodyIsLost'
  BY <1>1, IssueKeeps, {} \in SUBSET Key DEF UsersInv, ScriptIssues
<1>3. TypeOK'
  BY <1>1, <1>2 DEF UsersInv, TypeOK, ScriptIssues
<1>4. ASSUME NEW q \in Client, call'[q] # Idle, NEW k \in call'[q].old
      PROVE  holder'[k] = call'[q].user
  <2>1. call' = call /\ call[q] \in Handling
    BY <1>4 DEF UsersInv, TypeOK, ScriptIssues
  <2>2. k \in Key /\ call[q].user \in User /\ holder[k] = call[q].user
    BY <1>4, <2>1 DEF UsersInv, RevokesOwn, Target, Handling
  <2> QED
    BY <1>2, <2>1, <2>2 DEF Sane
<1> QED
  BY <1>2, <1>3, <1>4 DEF UsersInv, RevokesOwn, Target

\* A request that starts has nothing to revoke yet.
LEMMA StartsKeep ==
  ASSUME UsersInv, NEW p \in Client, NEW u \in User, NEW r \in Roles,
         NEW op \in {"create", "update", "delete", "regenerate"},
         StartAdmin(p, op, u, r) \/ StartTrader(p, u)
  PROVE  UsersInv'
<1>1. CASE StartAdmin(p, op, u, r)
  <2> DEFINE c == [pc |-> IF op = "create" THEN "write" ELSE "read", op |-> op,
                   user |-> u, want |-> r, seen |-> Unborn, old |-> {}]
  <2>1. c \in Handling /\ c.old = {}
    BY DEF Handling
  <2> QED
    BY <1>1, <2>1, GoesOn DEF StartAdmin
<1>2. CASE StartTrader(p, u)
  <2> DEFINE c == [pc |-> "write", op |-> "trader", user |-> u, want |-> "USER",
                   seen |-> role[u], old |-> {}]
  <2>1. c \in Handling /\ c.old = {}
    BY DEF Handling, UsersInv, TypeOK, Roles
  <2> QED
    BY <1>2, <2>1, GoesOn DEF StartTrader
<1> QED
  BY <1>1, <1>2

\* update and delete remember the role they loaded.
LEMMA CheckKeeps ==
  ASSUME Sane, UsersInv, NEW p \in Client, Check(p)
  PROVE  UsersInv'
<1>1. call[p] # Idle /\ call[p] \in Handling /\ Target(p) \in User
  BY HandlingFields DEF UsersInv, Check, At
<1>2. CASE End(p)
  BY <1>2, EndsOnly DEF Check
<1>3. CASE call' = [call EXCEPT ![p].pc = "write", ![p].seen = role[Target(p)]]
  <2> DEFINE c == [call[p] EXCEPT !.pc = "write", !.seen = role[Target(p)]]
  <2>1. c \in Handling /\ c.old = call[p].old /\ c.user = call[p].user
    BY <1>1 DEF Handling, UsersInv, TypeOK
  <2>2. \A k \in c.old : holder[k] = c.user
    BY <1>1, <2>1 DEF UsersInv, RevokesOwn, Target
  <2>3. call' = [call EXCEPT ![p] = c]
    BY <1>3
  <2> QED
    BY <2>1, <2>2, <2>3, GoesOn DEF Check
<1> QED
  BY <1>2, <1>3 DEF Check

\* regenerate_key remembers keys of its user.
LEMMA RevokeKeeps ==
  ASSUME Sane, UsersInv, NEW p \in Client, Revoke(p)
  PROVE  UsersInv'
<1>1. call[p] # Idle /\ call[p] \in Handling /\ Target(p) \in User
  BY HandlingFields DEF UsersInv, Revoke, At
<1>2. CASE End(p)
  BY <1>2, EndsOnly DEF Revoke
<1>3. CASE call' = [call EXCEPT ![p].pc = "write", ![p].old = KeysOf(Target(p))]
  <2> DEFINE c == [call[p] EXCEPT !.pc = "write", !.old = KeysOf(Target(p))]
  <2>1. KeysOf(Target(p)) \in SUBSET Key
    BY DEF KeysOf, UsersInv, TypeOK
  <2>2. c \in Handling /\ c.old = KeysOf(Target(p)) /\ c.user = Target(p)
    BY <1>1, <2>1 DEF Handling, Target
  <2>3. \A k \in c.old : holder[k] = c.user
    BY <2>2 DEF KeysOf
  <2>4. call' = [call EXCEPT ![p] = c]
    BY <1>3
  <2> QED
    BY <2>2, <2>3, <2>4, GoesOn DEF Revoke
<1> QED
  BY <1>2, <1>3 DEF Revoke

\* create issues the first key of its user, in the same commit.
LEMMA WriteCreateKeeps ==
  ASSUME Sane, UsersInv, NEW p \in Client, WriteCreate(p)
  PROVE  UsersInv'
<1>1. Target(p) \in User /\ call[p].want \in Roles
  BY HandlingFields DEF UsersInv, WriteCreate, At
<1>2. CASE role[Target(p)] = Unborn
  <2>1. /\ role' \in [User -> Roles \cup {Unborn, Gone}] /\ role'[Target(p)] \in Roles
        /\ \A v \in User \ {Target(p)} : role'[v] = role[v]
    BY <1>1, <1>2 DEF UsersInv, TypeOK, WriteCreate
  <2>2. /\ holder' \in [Key -> User \cup {Nobody}] /\ active' \subseteq Key
        /\ \A k \in Key : holder[k] # Nobody => holder'[k] = holder[k]
        /\ NobodyIsLost'
    BY <1>1, <1>2, <2>1, IssueKeeps, {} \in SUBSET Key DEF UsersInv, WriteCreate
  <2>3. call' \in [Client -> Handling \cup {Idle}] /\ RevokesOwn'
    BY <2>2, EndKeeps DEF UsersInv, WriteCreate
  <2> QED
    BY <2>1, <2>2, <2>3 DEF UsersInv, TypeOK
<1>3. CASE role[Target(p)] # Unborn
  BY <1>3, EndsOnly DEF WriteCreate
<1> QED
  BY <1>2, <1>3

\* A role is replaced by a role: the users stay the same.
LEMMA WriteRoleKeeps ==
  ASSUME Sane, UsersInv, NEW p \in Client, WriteRole(p)
  PROVE  UsersInv'
<1>1. Target(p) \in User /\ call[p].want \in Roles
  BY HandlingFields DEF UsersInv, WriteRole, At
<1>2. role' \in [User -> Roles \cup {Unborn, Gone}] /\ Users' = Users
  BY <1>1 DEF UsersInv, TypeOK, WriteRole, Users
<1>3. call' \in [Client -> Handling \cup {Idle}] /\ RevokesOwn'
  BY EndKeeps DEF UsersInv, WriteRole
<1>4. NobodyIsLost'
  BY <1>2 DEF UsersInv, NobodyIsLost, WriteRole, KeysOf
<1> QED
  BY <1>2, <1>3, <1>4 DEF UsersInv, TypeOK, WriteRole

\* The new key comes in the commit that revokes, even if what it revokes was
\* read before another request issued a key.
LEMMA WriteKeyKeeps ==
  ASSUME Sane, UsersInv, NEW p \in Client, WriteKey(p)
  PROVE  UsersInv'
<1>1. /\ Target(p) \in User /\ call[p].old \in SUBSET Key
      /\ \A k \in call[p].old : holder[k] = Target(p)
  BY HandlingFields DEF UsersInv, WriteKey, At, RevokesOwn
<1>2. CASE Target(p) \in Users
  <2>1. /\ role' \in [User -> Roles \cup {Unborn, Gone}] /\ role'[Target(p)] \in Roles
        /\ \A v \in User \ {Target(p)} : role'[v] = role[v]
    BY <1>2 DEF UsersInv, TypeOK, WriteKey, Users
  <2>2. /\ holder' \in [Key -> User \cup {Nobody}] /\ active' \subseteq Key
        /\ \A k \in Key : holder[k] # Nobody => holder'[k] = holder[k]
        /\ NobodyIsLost'
    BY <1>1, <1>2, <2>1, IssueKeeps DEF UsersInv, WriteKey
  <2>3. call' \in [Client -> Handling \cup {Idle}] /\ RevokesOwn'
    BY <2>2, EndKeeps DEF UsersInv, WriteKey
  <2> QED
    BY <2>1, <2>2, <2>3 DEF UsersInv, TypeOK
<1>3. CASE Target(p) \notin Users
  BY <1>3, EndsOnly DEF WriteKey
<1> QED
  BY <1>2, <1>3

\* Who is deleted takes the keys along, and had no traders at that moment.
LEMMA WriteDeleteKeeps ==
  ASSUME Sane, UsersInv, NEW p \in Client, WriteDelete(p)
  PROVE  UsersInv'
<1>1. CASE Target(p) \in Users \ trades
  <2>1. role' \in [User -> Roles \cup {Unborn, Gone}] /\ Users' = Users \ {Target(p)}
    BY <1>1 DEF UsersInv, TypeOK, WriteDelete, Users, Roles, Gone
  <2>2. /\ holder' = holder /\ trades' = trades
        /\ active' = {k \in active : holder[k] # Target(p)}
    BY <1>1 DEF WriteDelete, KeysOf
  <2>3. call' \in [Client -> Handling \cup {Idle}] /\ RevokesOwn'
    BY <2>2, EndKeeps DEF UsersInv, WriteDelete
  <2>4. NobodyIsLost'
    BY <1>1, <2>1, <2>2 DEF UsersInv, NobodyIsLost, KeysOf
  <2> QED
    BY <2>1, <2>2, <2>3, <2>4 DEF UsersInv, TypeOK
<1>2. CASE Target(p) \notin Users \ trades
  BY <1>2, EndsOnly DEF WriteDelete
<1> QED
  BY <1>1, <1>2

\* A new trader is given to a user that is there.
LEMMA WriteTraderKeeps ==
  ASSUME Sane, UsersInv, NEW p \in Client, WriteTrader(p)
  PROVE  UsersInv'
<1>1. call' \in [Client -> Handling \cup {Idle}] /\ RevokesOwn'
  BY EndKeeps DEF UsersInv, WriteTrader
<1>2. NobodyIsLost'
  BY DEF UsersInv, NobodyIsLost, WriteTrader, Users, KeysOf
<1> QED
  BY <1>1, <1>2 DEF UsersInv, TypeOK, WriteTrader

\* Every step.
LEMMA UsersInvNext == ASSUME Sane, UsersInv, [ApiUsersNext]_vars PROVE UsersInv'
<1>1. ASSUME NEW u \in User, NEW r \in Roles, ScriptIssues(u, r) PROVE UsersInv'
  BY <1>1, ScriptKeeps
<1>2. ASSUME NEW p \in Client, Creations(p) PROVE UsersInv'
  BY <1>2, StartsKeep DEF Creations
<1>3. ASSUME NEW p \in Client, RoleChanges(p) PROVE UsersInv'
  BY <1>3, StartsKeep DEF RoleChanges
<1>4. ASSUME NEW p \in Client, KeyChanges(p) \/ Deletions(p) PROVE UsersInv'
  <2>1. "USER" \in Roles
    BY DEF Roles
  <2> QED
    BY <1>4, <2>1, StartsKeep DEF KeyChanges, Deletions
<1>5. ASSUME NEW p \in Client, Registrations(p) PROVE UsersInv'
  <2>1. "USER" \in Roles
    BY DEF Roles
  <2> QED
    BY <1>5, <2>1, StartsKeep DEF Registrations
<1>6. ASSUME NEW p \in Client, Check(p) \/ Revoke(p) PROVE UsersInv'
  BY <1>6, CheckKeeps, RevokeKeeps
<1>7. ASSUME NEW p \in Client,
             WriteCreate(p) \/ WriteRole(p) \/ WriteKey(p) \/ WriteDelete(p) \/ WriteTrader(p)
      PROVE  UsersInv'
  BY <1>7, WriteCreateKeeps, WriteRoleKeeps, WriteKeyKeeps, WriteDeleteKeeps, WriteTraderKeeps
<1>8. CASE UNCHANGED vars
  BY <1>8 DEF vars, UsersInv, TypeOK, RevokesOwn, Target, NobodyIsLost, Users, KeysOf
<1> QED
  BY <1>1, <1>2, <1>3, <1>4, <1>5, <1>6, <1>7, <1>8 DEF ApiUsersNext

\* Nobody is locked out and no trader loses its owner, for any number of users,
\* keys and requests: whatever update, delete, regenerate_key and the script
\* read before they commit, a user has a key, and a key and a trader a user.
THEOREM NobodyIsEverLost ==
  ASSUME First \in User, Nobody \notin User
  PROVE  ApiUsersSpec => []NobodyIsLost
<1>1. Sane
  BY DEF Sane
<1>2. ApiUsersInit => UsersInv
  BY <1>1, UsersInvInit
<1>3. UsersInv /\ [ApiUsersNext]_vars => UsersInv'
  BY <1>1, UsersInvNext
<1>4. UsersInv => NobodyIsLost
  BY DEF UsersInv
<1> QED
  BY <1>2, <1>3, <1>4, PTL DEF ApiUsersSpec
=============================================================================
