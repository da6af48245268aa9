SPECIFICATION Spec
CONSTANTS
  Cli = {c1, c2}
  Nobody = nobody
  Id = {a, b}
  NoId = noId
  Pid = {p1, p2}
  NoPid = noPid
  Workers = "none"
  StrangersLead = FALSE
  Strangers = {}
  MaxExtras = 0
  Alien = {b}
  MaxDeploys = 2
  MaxFaults = 1
  FaultKinds = {"crash", "store", "disk"}
  FaultPoints <- Anywhere
INVARIANTS
  TypeOK
  MutualExclusion
  
  OneActive
  NothingDroppedWhileRunning
  RuntimeAccounted
  NoResidue
  RecoverySettles
PROPERTIES
  ImplementsDeployments
  AlienDataKept
SYMMETRY CliAndPidSymmetry
