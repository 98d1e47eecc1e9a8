SPECIFICATION FairSpec
CONSTANTS
  Setups <- MCSetups
  MaxServices = 2
  MaxProcesses = 2
  HeartbeatTimeout = 1
  InitialBackoff = 1
  MaxBackoff = 2
  MaxRestarts = 2
  HandoffRetries = 1
  ExitReported = TRUE
INVARIANTS  RunningReported StableEarned RetryStartsAfresh
PROPERTIES CrashNoticed  RestartGoesOn
CHECK_DEADLOCK FALSE
