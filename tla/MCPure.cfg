SPECIFICATION Spec
CONSTANTS
  Size = 4
  Location = {0, 1, 2, 3}
INVARIANTS TypeOK Sound
PROPERTIES NeverForgets EqClosesRows
