SPECIFICATION FairSpec
CONSTANTS
  mine = mine
  other = other
  newKey = newKey
  oldKey = oldKey
  foreignKey = foreignKey
  noKey = noKey
  Model <- Names
  Key <- Keys
  NoKey = noKey
  Preferred = 1
  Window = 3
  OldPorts = {1, 3}
  Mine = mine
  NewKey = newKey
  OldKey = oldKey
  Scenarios <- AllScenes
CHECK_DEADLOCK FALSE
INVARIANTS
  ServedByOwnRuntime
  
PROPERTIES
  FreePortIsFound
  DeployEnds
