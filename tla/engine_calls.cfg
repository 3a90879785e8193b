SPECIFICATION Spec
CONSTANTS
  Prices = {p1, p2}
  None = None
  MaxBar = 3
INVARIANTS DecidedByEngine AsksAboutTheTrade
PROPERTY NoNotationChurn
