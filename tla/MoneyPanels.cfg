SPECIFICATION LiveSpec
CONSTANTS
  Items = {n1, n2}
  Supplied = {n2}
  MaxInvoices = 2
  Cost = 2
  MaxClicks = 3
  None = None
INVARIANTS
  QuietMoneyAgrees
  ChargedOnce
PROPERTIES
  SeedClosesOut
  ButtonsComeBack
CHECK_DEADLOCK FALSE
