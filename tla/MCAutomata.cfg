SPECIFICATION Spec
CONSTANTS
  Size = 6
  Location = {0}
  Preds <- MCPreds
  FieldOrder <- MCFieldOrder
  Checks <- MCChecks
INVARIANTS TypeOK Spans Sound Complete Translates
CHECK_DEADLOCK FALSE
