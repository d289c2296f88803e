SPECIFICATION Spec
CONSTANTS
  Conns = {c1, c2}
  MaxRequests = 2
  NoConn = NoConn
  c1 = c1
  c2 = c2
SYMMETRY ConnSymmetry
INVARIANTS TypeOK CompletedOnce PendingHasSession OneSession AnswersItsRequest
PROPERTIES NewestSnapshotWins ImplementsCalls
CHECK_DEADLOCK FALSE
