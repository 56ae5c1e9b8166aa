SPECIFICATION Spec
CONSTANTS
  Size = 4
  Location <- MCLocation
  Records = {"A", "B"}
  SpatialModels <- FewSpatial
  SpatialVars <- FewVars
  MaxAtoms = 1
INVARIANTS TypeOK EntriesHold StaysSat Complete
