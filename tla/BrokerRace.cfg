SPECIFICATION CliSpec
CONSTANTS
  Ids = {i1}
  Codes = {c1, c2}
  NoCode = NoCode
  Approvers = {a1, a2}
  Readers = {r1, r2}
  PendingTTL = 1
  ResultTTL = 2
  RunLimit = 3
  MaxRejects = 1
  MaxRestarts = 1
  MaxPolls = 2
SYMMETRY Symmetry
INVARIANTS OneFate AuditTrail ResultOnRecord PrintedIsMine AcceptedNeverEndsOtherwise
PROPERTIES CodeGate PromiseKept
