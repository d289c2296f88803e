SPECIFICATION Spec
CONSTANTS
  Tracks = {t1, t2}
  Videos = {v1}
  Urls = {v1, d1}
  Metas = {m1}
  Exts = {mp3}
  Workers = {w1, w2}
  MaxWork = 3
  MaxRevision = 0
  MaxReceipts = 0
  EditContents = {}
  Absent = Absent
  Blocked = Blocked
  Junk = Junk
  Ours = Ours
  NoTrack = NoTrack
  NoUrl = NoUrl
  NoExt = NoExt
  NoWorker = NoWorker
  NoInspection = NoInspection
  t1 = t1
  t2 = t2
  v1 = v1
  d1 = d1
  m1 = m1
  mp3 = mp3
  w1 = w1
  w2 = w2
SYMMETRY Symmetry
INVARIANTS TypeOK OneActivePerTrack RunningIsOwned
PROPERTIES ImplementsLedger
