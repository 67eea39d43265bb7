SPECIFICATION ReviewSpec
CONSTANTS
  c1 = c1
  n1 = n1
  n2 = n2
  Cards = {c1}
  Notes = {n1, n2}
  Added = Added
  None = None
  MaxCalls = 3
  MaxEdits = 2
SYMMETRY NotesAlike
INVARIANTS
  QuietReviewAgrees
PROPERTIES
  NothingLeftProposed
  MoveCarried
  ReconciledSaysTheSame
CHECK_DEADLOCK FALSE
