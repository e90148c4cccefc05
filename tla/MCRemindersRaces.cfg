CONSTANTS
  Rules = {r1}
  NoRule = NoRule
  Subjects = {s1}
  Ids = {i1, i2}
  Evaluators = {e1, e2}
  Clerks = {c1, c2}
  Watched = "site_visit"
  Offset <- DayOffsets
  MaxDay = 1
SPECIFICATION Spec
SYMMETRY Alike
INVARIANTS
  TypeOK
  OneOpenPerRule
PROPERTIES
  DoneStaysDone
CHECK_DEADLOCK FALSE
