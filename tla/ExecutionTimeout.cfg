SPECIFICATION Spec
CONSTANTS
  Actions <- MCActions
  Registered <- MCRegistered
  NoField = "no field"
  NoSession = "none"
  Stored <- MCStored
  Detectors <- MCDetectors
  Hidden <- MCHidden
  Words = {"plain", "name", "mail"}
  TimeoutSecs = 1
  MaxOutput = 2
  MaxWritten = 0
INVARIANT TimedOutIsDead
CHECK_DEADLOCK FALSE
