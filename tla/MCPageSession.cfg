SPECIFICATION FairSpec
CONSTANTS
  ann = ann
  per = per
  eve = eve
  Nobody = Nobody
  User = {ann, per, eve}
  FirstRole <- MCFirstRole
  Watched <- MCWatched
  Surface = {"employee", "admin"}
  Forms = {"reservation", "quick", "password", "netfleet", "import", "role", "handoff"}
  Crossing = FALSE
  MaxSignIns = 2
  MaxPosts = 1
  MaxRuns = 2
INVARIANTS
  TypeOK
  RefreshIsAllowed
  SettledPageIsMine
PROPERTIES
  SpinnersStop
  LocksEnd
  RefusalIsTold
CHECK_DEADLOCK FALSE
