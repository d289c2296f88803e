SPECIFICATION Spec
CONSTANTS
  Conns = {c1}
  MaxRequests = 1
  NoConn = NoConn
  c1 = c1
INVARIANTS CommitIsReported
CHECK_DEADLOCK FALSE
