CONSTANTS
  Sessions = {s1, s2}
  NoSession = NoSession
  MaxQuotes = 3
  MaxNumber = 0
  StageTargets = {}
SPECIFICATION Spec
SYMMETRY SessionSymmetry
INVARIANTS
  TypeOK
  NumberedWithoutGaps
  SupersededHasSuccessor
  OneAcceptedPerDocument
PROPERTIES
  AcceptanceKeepsOtherContracts
  ImplementsContract
