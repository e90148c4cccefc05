CONSTANTS
  Rules = {r1}
  NoRule = NoRule
  Subjects = {s1}
  Ids = {i1, i2}
  Evaluators = {e1}
  Clerks = {c1}
  Watched = "site_visit"
  Offset <- DayOffsets
  MaxDay = 2
SPECIFICATION Spec
PROPERTIES
  Said
  RaisedWhenTrue
CHECK_DEADLOCK FALSE
