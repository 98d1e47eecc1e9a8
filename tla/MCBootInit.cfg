SPECIFICATION FairSpec
CONSTANTS
  Manifest <- MCManifest
  Class <- MCClass
  Required <- MCRequired
  Deps <- MCDeps
  Bootstrap = {"namesvc", "process_manager"}
  ProcessManager = "process_manager"
  Reporting <- MCReporting
  Supervisor = "servicemgr"
  Profiles <- MCProfiles
  HandoffRetries = 1
INVARIANTS
  DependenciesHeld
  HealthyCore
  CompensationVisible

  
CHECK_DEADLOCK FALSE
