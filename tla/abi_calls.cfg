SPECIFICATION Spec
CONSTANTS
  TradeCycleIds = {c1, c2}
  Values = {v1, v2}
  None = None
INVARIANTS NothingForgotten ConfirmedIsReal
PROPERTY ProtectionProved
CHECK_DEADLOCK FALSE  \* the finite supply of identities runs out: an idle instance
