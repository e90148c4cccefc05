CONSTANTS
  Tasks = {t1, t2, t3}
  NoTask = NoTask
  Editors = {e1, e2}
  Duration <- OneLong
  Lags <- OverlapOrGap
  Start = 5
SPECIFICATION Spec
SYMMETRY EditorSymmetry
INVARIANTS
  TypeOK
  LoopsAreRefused
  ImportKeepsTheOrder
CHECK_DEADLOCK FALSE
