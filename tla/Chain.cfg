SPECIFICATION Spec
CONSTANTS
  MaxRuns = 3
  MaxEvents = 3
  MaxFailures = 2
CHECK_DEADLOCK FALSE
INVARIANTS CleanChainVerifies NoSilentGap RetouchingDetected
