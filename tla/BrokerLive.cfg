SPECIFICATION FairSpec
CONSTANTS
  Ids = {i1, i2}
  Codes = {c1}
  NoCode = NoCode
  Approvers = {a1}
  Readers = {}
  PendingTTL = 1
  ResultTTL = 1
  RunLimit = 1
  MaxRejects = 1
  MaxRestarts = 1
INVARIANTS ResultHasAHome
PROPERTIES PendingEnds EveryRecordPurged ApprovalAnswered
