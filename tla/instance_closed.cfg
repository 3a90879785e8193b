SPECIFICATION Spec
CONSTANTS
  TradeCycleIds = {c1, c2}
  Protections = {p1}
  LiveEntryMode = "ema_anchor"
  OrderLifetimeBars = 1
  None = None
  MaxClock = 2
INVARIANTS FilledCycleReported
