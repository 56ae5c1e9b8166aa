SPECIFICATION Spec
CONSTANTS
  Size = 3
  Location = {0, 1, 2}
  Fields = {0, 1}
  Preds <- MCPreds
  Spaces <- MCSpaces
  Forms <- TwoDirForms
  Rec <- MCRec
  SrcRec <- MCSrcRec
  TypeInfo <- MCTypeInfo
INVARIANT StaysSat
CHECK_DEADLOCK FALSE
