SPECIFICATION Spec
CONSTANTS
  Cli = {c1}
  Nobody = nobody
  Id = {a}
  NoId = noId
  Pid = {p1, p2}
  NoPid = noPid
  Workers = "same"
  StrangersLead = FALSE
  Strangers = {}
  MaxExtras = 2
  Alien = {}
  MaxDeploys = 2
  MaxFaults = 2
  FaultKinds = {"stop", "probe"}
  FaultPoints <- Anywhere
INVARIANTS
  NothingDroppedWhileRunning
PROPERTIES
  ImplementsDeployments
