SPECIFICATION Spec
CONSTANTS
  Size = 7
  Location = {0, 1, 2}
  DllName = 1
  Commands <- MCCommands
  MayFollow <- MCMayFollow
INVARIANTS TypeOK PureMeans SpaceMeans ShareMeans RulesMean Covered Ordered
CHECK_DEADLOCK FALSE
