SPECIFICATION Spec
CONSTANTS
  MaxTrack = 2
  Candidates <- MCCandidates
  Refreshers = {r1, r2}
  MaxRevision = 2
  MaxBytes <- MCBytes
  PageSize = 2
  None = None
  r1 = r1
  r2 = r2
  q1 = q1
  q2 = q2
SYMMETRY Symmetry
INVARIANTS StaleIsOwed
PROPERTIES PlaylistNotLost MissingIsWhole
