SPECIFICATION Spec
CONSTANTS
  Keys = {k1, k2}
  Identities = {k1, k2}
  TradeCycleIds = {c1, c2}
  Bars = {b1}
  None = None
  Null = Null
  Absent = Absent
  Values <- States
  KeyOf <- Identity
  InitialValue <- Initial
  Encode <- encode_state_line
  Decode <- decode_state_line
  NoState <- Error
  Found <- OneKeysLines
  Saves <- SavedStates
  Tears = {"character", "fragment", "line"}
  MaxLines = 3
  MaxTexts = 1
INVARIANTS ServedIsDurable UpgradeForgetsNothing NothingInvented
PROPERTIES OneTearIsHarmless ImplementsDurableMap
