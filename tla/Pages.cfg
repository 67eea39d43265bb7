SPECIFICATION PagesSpec
CONSTANTS
  Quarters <- CardLengths
  Heights <- CardHeights
  Facts <- CardFacts
  Starts <- FirstStarts
  Others <- OtherStarts
  Windows <- TripDates
  Zooms = {9, 90}
  Pointers = {40, 2700}
  MaxGestures = 2
  MaxMoves = 3
  MaxRows = 4
  MaxClicks = 2
  Priced = {"flight"}
  PerPerson = {"flight"}
  MaxOps = 6
  MaxReads = 3
  Desks = {"ann", "bob"}
  Emails = {"client@home"}
  Devices = {"phone", "laptop"}
  MaxRequests = 3
  Viewers = {"advisor", "traveler"}
  Dates = {0, 1, 2}
  MaxSaves = 2
INVARIANTS
  
  NoCardLost
  UploadedHasBytes
  QuietHouseholdAgrees
  
  InvitesLandOnce
  TimingFollowsMode
PROPERTIES
  GhostSteady
  PrimaryMovesOnPurpose
  GlancesMoveOn
CHECK_DEADLOCK FALSE
