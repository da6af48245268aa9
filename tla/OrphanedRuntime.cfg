SPECIFICATION Spec
CONSTANTS
  Cli = {c1}
  Nobody = nobody
  Id = {a}
  NoId = noId
  Pid = {p1, p2}
  NoPid = noPid
  Workers = "distinct"
  StrangersLead = FALSE
  Strangers = {}
  MaxExtras = 3
  Alien = {}
  MaxDeploys = 1
  MaxFaults = 1
  FaultKinds = {"crash"}
  FaultPoints <- Anywhere
INVARIANT
  NothingDroppedWhileRunning
