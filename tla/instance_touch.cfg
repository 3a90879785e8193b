SPECIFICATION PSpec
CONSTANTS
  TradeCycleIds = {c1}
  Protections = {p1, p2}
  LiveEntryMode = "touch_trigger"
  OrderLifetimeBars = 1
  None = None
  MaxClock = 3
INVARIANTS TypeOK LifetimeHonoured RemainderGone InductiveInvariant AcknowledgedInForce
