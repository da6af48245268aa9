SPECIFICATION PersistentSpec
CONSTANTS
  Cli = {c1, c2}
  Nobody = nobody
  Id = {a}
  NoId = noId
  Pid = {p1}
  NoPid = noPid
  Workers = "none"
  StrangersLead = FALSE
  Strangers = {}
  MaxExtras = 0
  Alien = {}
  MaxDeploys = 1
  MaxFaults = 1
  FaultKinds = {"crash", "store", "disk"}
  FaultPoints <- OutsideCacheWindows
PROPERTIES
  LockComesBack
  
