SPECIFICATION FairSpec
CONSTANTS
  Procs = {p1, p2}
  Clients = {c1, c2}
  MaxCred = 3
  None = None
  p1 = p1
  p2 = p2
  c1 = c1
  c2 = c2
INVARIANTS OneOwner NothingUsedAfterClose ServingIsReachable CredentialHolds
PROPERTIES ShutdownEnds
