SPECIFICATION Spec
CONSTANTS
  Tracks = {t1}
  Videos = {v1}
  Urls = {v1}
  Metas = {m1}
  Exts = {mp3, ogg}
  Workers = {w1}
  MaxWork = 2
  MaxRevision = 0
  MaxReceipts = 0
  EditContents = {Absent, Blocked, Junk, f1, f2}
  Absent = Absent
  Blocked = Blocked
  Junk = Junk
  Ours = Ours
  NoTrack = NoTrack
  NoUrl = NoUrl
  NoExt = NoExt
  NoWorker = NoWorker
  NoInspection = NoInspection
  t1 = t1
  v1 = v1
  m1 = m1
  mp3 = mp3
  ogg = ogg
  w1 = w1
  f1 = f1
  f2 = f2
INVARIANTS RegisteredFileExists OneFilePerTrack OrphanIsRecoverable
PROPERTIES NeverOverwrites PublishesOnlyMissing
