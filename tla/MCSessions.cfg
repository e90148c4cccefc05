CONSTANTS
  Users = {u1, u2}
  Managers = {m1}
  Roles = {"owner", "bookkeeper"}
  Tokens = {t1}
  Visitors = {v1, v2}
  TTL = 2
  Touch = 2
  IdleLimit = 4
  Lifetime = 6
  Slow = 1
SPECIFICATION Spec
SYMMETRY Symmetry
INVARIANTS
  TypeOK
  StaleAtMostTTL
  UseKeepsAlive
PROPERTIES
  LetInInTime
CHECK_DEADLOCK FALSE
