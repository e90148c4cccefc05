CONSTANTS
  Sessions = {e1, e2}
  Nobody = Nobody
  Tasks = {t1, t2, t3}
  NoTask = NoTask
  Editors = {e1, e2}
  Planners = {}
  Edits = {"create", "import", "update", "void"}
  MaxDay = 2
  Spans <- ShortSpans
  MaxDrift = 1
  Lags <- TouchingLags
SPECIFICATION Spec
SYMMETRY EditorSymmetry
INVARIANTS
  TypeOK
  NoLoop
  NothingWaitsOnVoid
CHECK_DEADLOCK FALSE
