SPECIFICATION FairSpec
CONSTANTS
  TradeCycleIds = {c1}
  Protections = {p1}
  LiveEntryMode = "touch_trigger"
  OrderLifetimeBars = 1
  None = None
  MaxClock = 3
PROPERTIES MarkerResolved
