SPECIFICATION FairSpec
CONSTANTS
  Car = {1, 2}
  LastHour = 5
  Typed = {1, 4}
  DayWindow <- MCDayWindow
  FirstWindow <- MCFirstWindow
  Habit <- MCHabit
  Given <- MCGiven
  Others <- MCOthers
  MaxClock = 1
  MaxEdits = 2
  MaxSends = 1
  MaxLoads = 1
  MaxChanges = 1
INVARIANTS
  TypeOK
  EditedFormIsChecked
  SlotAvoidsShownConflicts
  ClearWindowIsBookable
PROPERTIES
  PreviewSettles
CHECK_DEADLOCK FALSE
