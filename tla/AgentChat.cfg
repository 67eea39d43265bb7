SPECIFICATION Spec
CONSTANTS
  Surfaces = {"shell", "prompt", "rail", "concierge"}
  MaxTurns = 2
  MaxSessions = 2
  MaxClicks = 1
  None = None
INVARIANTS
  AnswersFollow
  TranscriptAgrees
PROPERTIES
  ComposerReturns
CHECK_DEADLOCK FALSE
