SPECIFICATION FairSpec
CONSTANTS
  Cli = cli
  Proxy = proxy
  Main = main
  Forked = {worker, loner}
  Loner = {loner}
  Text = {"plain", "secret", "long"}
  Capacity = 2
  MaxLines = 3
  Faults = {"open", "disk"}
CHECK_DEADLOCK FALSE
INVARIANTS
  LogFaithful
  HeardUnlessFailed
PROPERTIES
  ProxyEnds
  WriterUnblocked
