SPECIFICATION Spec
CONSTANTS
  TradeCycleIds = {c1, c2}
  Protections = {p1, p2}
  LiveEntryMode = "ema_anchor"
  OrderLifetimeBars = 1
  None = None
  MaxClock = 2
SYMMETRY Symmetry
INVARIANTS StatesWellFormed NoOrphan MarkedBeforeSent CycleMatchesExchange JournalTruthful
PROPERTIES FactsSurviveSaves ImplementsLedger
