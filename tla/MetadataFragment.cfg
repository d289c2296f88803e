SPECIFICATION Spec
CONSTANTS
  Texts = {a, b}
  Arts = {p}
  Foreign = {f1, f2}
  Ours = Ours
  NoText = NoText
  NoArt = NoArt
  Unknown = Unknown
  NoIntent = NoIntent
  Absent = Absent
  Fragment = Fragment
  a = a
  b = b
  p = p
  f1 = f1
  f2 = f2
INVARIANTS NeverPublishesFragment
