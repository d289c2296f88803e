SPECIFICATION FairSpec
CONSTANTS
  Conns = {c1, c2}
  MaxRequests = 1
  NoConn = NoConn
  c1 = c1
  c2 = c2
PROPERTIES CallerIsAnswered SlotIsFreed
CHECK_DEADLOCK FALSE
