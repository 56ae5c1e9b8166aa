SPECIFICATION Spec
CONSTANTS
  Size = 3
  Location = {0, 1, 2, 3}
  Fields = {"f"}
  Preds <- LsPred
  Spaces <- SmallSpaces
  Pures <- SmallPures
  ShomCheck <- CheckSyn
INVARIANTS TypeOK Sound Complete Justified
PROPERTY Separated
CHECK_DEADLOCK FALSE
