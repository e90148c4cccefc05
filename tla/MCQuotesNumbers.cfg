CONSTANTS
  Sessions = {s1, s2}
  NoSession = NoSession
  MaxQuotes = 2
  MaxNumber = 2
  StageTargets = {"lead", "on_hold", "in_progress"}
SPECIFICATION Spec
SYMMETRY SessionSymmetry
INVARIANTS
  NumberIdentifiesDocument
  TemplateNeverCollides
