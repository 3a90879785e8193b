SPECIFICATION Spec
CONSTANTS
  Names = {a, b}
  Ids = {s1, s2}
  Editions = {e1}
  EditorLayouts = {"indented", "own"}
  Stamps = {t1}
  Inodes = {i1, i2, i3, i4, i5}
  EditorSaves = {"replace", "inplace"}
  MaxEdits = 2
  Torn = Torn
  None = None
SYMMETRY Symmetry
INVARIANTS NothingLost OnePlace
PROPERTIES EditsBeforeCheckSurvive DeletedKept
