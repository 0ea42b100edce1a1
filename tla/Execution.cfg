SPECIFICATION Spec
CONSTANTS
  Actions <- MCActions
  Registered <- MCRegistered
  NoField = "no field"
  NoSession = "none"
  Stored <- MCStored
  Detectors <- MCDetectors
  Hidden <- MCHidden
  Words = {"plain", "name", "mail"}
  TimeoutSecs = 1
  MaxOutput = 2
  MaxWritten = 3
INVARIANTS
  ReportTrue
  ResultClean
  OutputWhole
PROPERTIES
  StartedEnds
CHECK_DEADLOCK FALSE
