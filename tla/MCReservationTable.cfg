SPECIFICATION FairSpec
CONSTANTS
  trip = trip
  later = later
  plate = plate
  NoText = NoText
  Id = {trip}
  Text = {NoText, plate}
  Matching <- MCMatching
  Place <- MCPlace
  PageSize = 1
  Chip = {"pending", "open"}
  CanBulk = TRUE
  Trouble = {"lost", "inbox"}
  MaxPosts = 1
  MaxLoads = 2
  FirstChip = "pending"
  MaxClicks = 1
  MaxNews = 1
INVARIANTS
  TypeOK
  SelectionIsOnScreen
  SettledTableFollowsFilter
PROPERTIES
  SignalReloadsTable
