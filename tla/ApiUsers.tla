------------------------------ MODULE ApiUsers ------------------------------
(***************************************************************************)
(* The users of the API, their keys and the traders they own               *)
(* (ApiUserService, TraderService.register_trader, require_api_key).       *)
(*                                                                         *)
(* A request proves who it is with a key, reads what it needs, and commits *)
(* later: the rows are not locked, and only the foreign keys and the rows  *)
(* that are gone can stop it then.                                         *)
(***************************************************************************)
CONSTANTS
  User,     \* the api_users there may ever be
  First,    \* the one that exists from the beginning, an ADMIN
  Key,      \* the keys there may ever be
  Client    \* the requests handled at the same time

VARIABLES
  role,    \* api_users: the role of each
  holder,  \* api_keys: whom each key belongs to
  active,  \* the keys with is_active
  trades,  \* the users that own traders
  call     \* what each request is doing

vars == <<role, holder, active, trades, call>>

Roles == {"ADMIN", "USER"}
Unborn == "NONE"
Gone == "GONE"
Nobody == "nobody"

Users == {u \in User : role[u] \in Roles}
Admins == {u \in User : role[u] = "ADMIN"}
KeysOf(u) == {k \in active : holder[k] = u}

\* seen: the role that was loaded; old: the keys to revoke.
Idle == [pc |-> "idle"]
At(p, op, pc) == call[p].pc = pc /\ call[p].op = op
End(p) == call' = [call EXCEPT ![p] = Idle]
Target(p) == call[p].user

\* The script has made the first ADMIN; each of the others comes later.
ApiUsersInit ==
  /\ role = [u \in User |-> IF u = First THEN "ADMIN" ELSE Unborn]
  /\ \E k \in Key : /\ active = {k}
                    /\ holder = [x \in Key |-> IF x = k THEN First ELSE Nobody]
  /\ trades = {}
  /\ call = [p \in Client |-> Idle]

-----------------------------------------------------------------------------
\* require_api_key: the key is active and so is its user.
Presents(k) == k \in active /\ holder[k] \in Users

\* generate_api_key: a key nobody had before, for u.
Issue(u, revoked) ==
  \E k \in Key : /\ holder[k] = Nobody
                 /\ holder' = [holder EXCEPT ![k] = u]
                 /\ active' = (active \ revoked) \cup {k}

\* The script makes a user, or gives one that exists another key.
ScriptIssues(u, r) ==
  /\ role[u] # Gone
  /\ role' = [role EXCEPT ![u] = IF @ = Unborn THEN r ELSE @]
  /\ Issue(u, {})
  /\ UNCHANGED <<trades, call>>

\* A request of an ADMIN (require_admin) for user u; want is a new role.
StartAdmin(p, op, u, want) ==
  /\ call[p] = Idle
  /\ \E k \in Key : Presents(k) /\ holder[k] \in Admins
  /\ call' = [call EXCEPT ![p] = [pc |-> IF op = "create" THEN "write" ELSE "read", op |-> op,
                                  user |-> u, want |-> want, seen |-> Unborn, old |-> {}]]
  /\ UNCHANGED <<role, holder, active, trades>>

\* A user registers a trader of its own.
StartTrader(p, u) ==
  /\ call[p] = Idle
  /\ \E k \in Key : Presents(k) /\ holder[k] = u
  /\ call' = [call EXCEPT ![p] = [pc |-> "write", op |-> "trader", user |-> u, want |-> "USER",
                                  seen |-> role[u], old |-> {}]]
  /\ UNCHANGED <<role, holder, active, trades>>

\* The only ADMIN keeps the role and is not deleted.
Spares(p) ==
  /\ role[Target(p)] = "ADMIN"
  /\ call[p].op = "delete" \/ call[p].want # "ADMIN"
  /\ Admins = {Target(p)}

\* update, delete: the user is loaded and the checks are made.
Check(p) ==
  /\ At(p, "update", "read") \/ At(p, "delete", "read")
  /\ IF \/ Target(p) \notin Users
        \/ call[p].op = "delete" /\ Target(p) \in trades
        \/ Spares(p)
       THEN End(p)
       ELSE call' = [call EXCEPT ![p].pc = "write", ![p].seen = role[Target(p)]]
  /\ UNCHANGED <<role, holder, active, trades>>

\* regenerate_key: the keys that are active now are the ones to revoke.
Revoke(p) ==
  /\ At(p, "regenerate", "read")
  /\ IF Target(p) \in Users
       THEN call' = [call EXCEPT ![p].pc = "write", ![p].old = KeysOf(Target(p))]
       ELSE End(p)
  /\ UNCHANGED <<role, holder, active, trades>>

\* create: the user and its key are one commit; an email that is taken ends it.
WriteCreate(p) ==
  /\ At(p, "create", "write")
  /\ IF role[Target(p)] = Unborn
       THEN role' = [role EXCEPT ![Target(p)] = call[p].want] /\ Issue(Target(p), {})
       ELSE UNCHANGED <<role, holder, active>>
  /\ End(p)
  /\ UNCHANGED trades

\* update: the role is written if it differs from the one loaded.
WriteRole(p) ==
  /\ At(p, "update", "write")
  /\ role' = IF Target(p) \in Users /\ call[p].want # call[p].seen
               THEN [role EXCEPT ![Target(p)] = call[p].want] ELSE role
  /\ End(p)
  /\ UNCHANGED <<holder, active, trades>>

\* regenerate_key: one commit revokes and issues.
WriteKey(p) ==
  /\ At(p, "regenerate", "write")
  /\ IF Target(p) \in Users THEN Issue(Target(p), call[p].old) ELSE UNCHANGED <<holder, active>>
  /\ End(p)
  /\ UNCHANGED <<role, trades>>

\* delete: the keys go with the user; a trader registered meanwhile stops it.
WriteDelete(p) ==
  /\ At(p, "delete", "write")
  /\ IF Target(p) \in Users \ trades
       THEN /\ role' = [role EXCEPT ![Target(p)] = Gone]
            /\ active' = active \ KeysOf(Target(p))
       ELSE UNCHANGED <<role, active>>
  /\ End(p)
  /\ UNCHANGED <<holder, trades>>

\* register_trader: the owner must still be there.
WriteTrader(p) ==
  /\ At(p, "trader", "write")
  /\ trades' = trades \cup ({Target(p)} \cap Users)
  /\ End(p)
  /\ UNCHANGED <<role, holder, active>>

Creations(p) == \E u \in User, r \in Roles : StartAdmin(p, "create", u, r)

RoleChanges(p) == \E u \in User, r \in Roles : StartAdmin(p, "update", u, r)

KeyChanges(p) == \E u \in User : StartAdmin(p, "regenerate", u, "USER")

Deletions(p) == \E u \in User : StartAdmin(p, "delete", u, "USER")

Registrations(p) == \E u \in User : StartTrader(p, u)

ApiUsersNext ==
  \/ \E u \in User, r \in Roles : ScriptIssues(u, r)
  \/ \E p \in Client :
       \/ Creations(p) \/ RoleChanges(p) \/ KeyChanges(p) \/ Deletions(p) \/ Registrations(p)
       \/ Check(p) \/ Revoke(p)
       \/ WriteCreate(p) \/ WriteRole(p) \/ WriteKey(p) \/ WriteDelete(p) \/ WriteTrader(p)

ApiUsersSpec == ApiUsersInit /\ [][ApiUsersNext]_vars

-----------------------------------------------------------------------------
\* The checks of update and delete are there so that some ADMIN is always left.
SomeAdmin == Admins # {}

\* Nobody is locked out, and nobody's traders lose their owner: a user that
\* exists has an active key, a key that works has a user, traders have theirs.
NobodyIsLost ==
  /\ \A u \in Users : KeysOf(u) # {}
  /\ \A k \in active : holder[k] \in Users
  /\ trades \subseteq Users
=============================================================================
