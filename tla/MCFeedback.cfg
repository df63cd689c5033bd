SPECIFICATION FairSpec
CONSTANTS
  ann = ann
  per = per
  eve = eve
  Nobody = Nobody
  User = {ann, per, eve}
  FirstRole <- MCFirstRole
  Watched <- MCDesk
  Surface = {"employee", "admin"}
  Forms = {"decide"}
  Crossing = FALSE
  MaxSignIns = 2
  MaxPosts = 1
  MaxRuns = 2
PROPERTIES
  FeedbackIsSeen
CHECK_DEADLOCK FALSE
