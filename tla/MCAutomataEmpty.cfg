SPECIFICATION Spec
CONSTANTS
  Size = 6
  Location = {0}
  Preds <- MCPreds
  FieldOrder <- MCFieldOrder
  Checks <- MCChecks
INVARIANT NonEmpty
CHECK_DEADLOCK FALSE
