CONSTANTS
  Size = 1
  Location = {0}
  DllName = "dll"
  Signatures <- MCSignatures
  Meaning <- MCMeaning
SPECIFICATION Spec
CONSTRAINT OneFamily
INVARIANT LemmasHold
CHECK_DEADLOCK FALSE
