CONSTANTS
  Sessions = {e1, p1}
  Nobody = Nobody
  Tasks = {t1, t2, t3}
  NoTask = NoTask
  Editors = {e1}
  Planners = {p1}
  Edits = {"create", "update"}
  MaxDay = 2
  Spans <- ShortSpans
  MaxDrift = 1
  Lags <- TouchingLags
SPECIFICATION Spec
SYMMETRY TaskSymmetry
PROPERTIES
  ConfirmedMoveIsThePreview
  StartedTasksStay
  MovesKeepGaps
  MovesRestateLags
CHECK_DEADLOCK FALSE
