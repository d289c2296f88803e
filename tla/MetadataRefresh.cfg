SPECIFICATION FairSpec
CONSTANTS
  Texts = {a}
  Arts = {p}
  Foreign = {f1, f2}
  Ours = Ours
  NoText = NoText
  NoArt = NoArt
  Unknown = Unknown
  NoIntent = NoIntent
  Absent = Absent
  Fragment = Fragment
  a = a
  p = p
  f1 = f1
  f2 = f2
INVARIANTS TypeOK ForeignSurvives BooksMatchBytes
PROPERTIES AudioStaysAvailable RecoversAfterCrash
