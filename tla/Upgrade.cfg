SPECIFICATION FairSpec
CONSTANTS
  p1 = p1
  p2 = p2
  p3 = p3
  Proc = {p1, p2, p3}
  Nobody = nobody
  Known <- Upgrading
  Faults = {"kill", "busy"}
INVARIANTS
  StoresComplete
  FailureIsLostRace
PROPERTIES
  Implements
  RepeatedOpenSucceeds
