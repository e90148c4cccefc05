CONSTANTS
  Users = {u1, u2, u3}
  Managers = {m1, m2, m3}
  Roles = {"owner", "admin"}
  Tokens = {}
  Visitors = {}
  TTL = 2
  Touch = 2
  IdleLimit = 4
  Lifetime = 4
  Slow = 0
SPECIFICATION Spec
SYMMETRY Symmetry
INVARIANT
  LastOwnerRemains
CHECK_DEADLOCK FALSE
