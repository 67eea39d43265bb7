SPECIFICATION ConversationsSpec
CONSTANTS
  Advisors = {a1, a2}
  Cards = {c1, c2, c3}
  MaxCrashes = 1
  Nobody = Nobody
  Viewers = {"advisor", "traveler"}
  MaxMessages = 2
  MaxLate = 1
  Watched = "advisor"
INVARIANTS
  EachCardOnce
  SameThread
PROPERTIES
  DrainsEnd
  Converges
CHECK_DEADLOCK FALSE
