SPECIFICATION Spec
CONSTANTS
  Tracks = {t1}
  Versions = {v1, v2}
  Requests = {r1, r2, r3}
  Slots = 2
  Inodes = {i1, i2, i3, i4}
  i1 = i1
  i2 = i2
  i3 = i3
  i4 = i4
  None = None
  t1 = t1
  v1 = v1
  v2 = v2
  r1 = r1
  r2 = r2
  r3 = r3
SYMMETRY Symmetry
INVARIANTS ServesRequestedVersion SlotsAreCounted NothingServedAfterStop
