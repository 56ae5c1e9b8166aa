SPECIFICATION Spec
CONSTANTS
  Size = 3
  Location = {0, 1, 2}
  Fields = {0, 1}
  Preds <- MCPreds
  Spaces <- MCSpaces
  Forms <- MCForms
  Rec <- MCRec
  SrcRec <- MCSrcRec
  TypeInfo <- MCTypeInfo
INVARIANTS TypeOK Encoded Adequate Tight
CHECK_DEADLOCK FALSE
