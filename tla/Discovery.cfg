SPECIFICATION DiscoverySpec
CONSTANTS
  Daemon = {d1, d2, d3}
  Client = {c1}
  Addr = {a1, a2}
  Empty = Empty
  None = None
SYMMETRY Symmetry
INVARIANTS CodesStayWithOperator AnsweredByItsDaemon LastStartIsFound
CHECK_DEADLOCK FALSE
