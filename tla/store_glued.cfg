SPECIFICATION Spec
CONSTANTS
  Keys = {k1, k2}
  Identities = {k1, k2}
  TradeCycleIds = {c1, c2}
  Bars = {b1}
  None = None
  Null = Null
  Absent = Absent
  Values <- States
  KeyOf <- Identity
  InitialValue <- Initial
  Encode <- encode_state_line
  Decode <- decode_state_line
  NoState <- Error
  Found <- NoLines
  Saves <- SavedStates
  Tears = {"fragment", "line"}
  MaxLines = 5
  MaxTexts = 2
INVARIANT ServedIsDurable
