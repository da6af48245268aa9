SPECIFICATION Spec
CONSTANTS
  MiB = 4
  MiBPerGiB = 2
  CatalogQuant = "nvfp4"
  CatalogVRAMGiB = 32
  Half = 1048576
  DefaultContext = 4
  Scenarios <- AllScenarios
CHECK_DEADLOCK FALSE
INVARIANTS
  DeploysWhatItEstimated
  PlanPredictsDeploy
  GateImpliesVRAMCheck
  AdmittedHasRoom
  DoctorAgreesWithPreflight
