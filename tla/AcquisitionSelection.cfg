SPECIFICATION Spec
CONSTANTS
  Tracks = {t1}
  Videos = {v1, v2}
  Urls = {v1, v2}
  Metas = {m1}
  Exts = {mp3}
  Workers = {w1}
  MaxWork = 2
  MaxRevision = 4
  MaxReceipts = 2
  EditContents = {}
  Absent = Absent
  Blocked = Blocked
  Junk = Junk
  Ours = Ours
  NoTrack = NoTrack
  NoUrl = NoUrl
  NoExt = NoExt
  NoWorker = NoWorker
  NoInspection = NoInspection
  t1 = t1
  v1 = v1
  v2 = v2
  m1 = m1
  mp3 = mp3
  w1 = w1
SYMMETRY ChoiceSymmetry
INVARIANTS OneOpenYouTubePerTrack RetrievesDurableSource
PROPERTIES SourceFrozen SpentReceiptStartsNothing
