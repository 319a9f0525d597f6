SPECIFICATION ApiUsersSpec
CONSTANTS
  User = {u1, u2}
  First = u1
  Key = {k1, k2, k3}
  Client = {c1, c2}
INVARIANTS
  SomeAdmin
SYMMETRY Symmetric
CHECK_DEADLOCK FALSE
