SPECIFICATION Spec
CONSTANTS
  Model = {h1, h2}
  Emp = {h1}
  Terms <- MCTerms
  MaxAsserts = 1
INVARIANTS TypeOK GraphsExist AuxReleased
PROPERTIES Refines
