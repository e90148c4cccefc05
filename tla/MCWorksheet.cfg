CONSTANTS
  Sessions = {s1, s2}
  Senders = {s2}
  Rebuilders = {s1}
  Prices <- PricedOrNot
  AddedItems = {"templated", "percent"}
  MaxAdded = 1
  MaxLines = 3
SPECIFICATION Spec
INVARIANTS
  TypeOK
  StaleHasACause
  QuietlySentStands
PROPERTIES
  SentHeaderIsFinal
  RegenerationReplaces
  EditsReachTheHeader
CHECK_DEADLOCK FALSE
