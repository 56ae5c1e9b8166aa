SPECIFICATION Spec
CONSTANTS
  x = x
  y = y
  a = a
  b = b
  c = c
  GlobalNames <- Globals
  LocalNames <- Locals
  MaxPreds = 1
  MaxAsserts = 1
  MaxLocals = 2
  MaxUses = 1
  MaxRules = 1
  TopExists = FALSE
SYMMETRY Names
INVARIANTS TypeOK GlobalsKept FormsResolve PredsResolve
PROPERTY FormsStable
