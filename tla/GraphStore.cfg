SPECIFICATION Spec
CONSTANTS
  Seeds = {card}
  MaxCalls = 3
  None = None
  card = card
INVARIANTS
  QuietPageAgrees
PROPERTIES
  NoResurrection
CHECK_DEADLOCK FALSE
