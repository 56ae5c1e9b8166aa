SPECIFICATION Spec
CONSTANTS
  Size = 5
  Location = {0, 1, 2}
  Fields = {"f", "g"}
  Preds <- TwoPreds
  Spaces <- RestSpaces
  Pures <- NoPures
  ShomCheck <- CheckSyn
INVARIANTS Justified
CHECK_DEADLOCK FALSE
