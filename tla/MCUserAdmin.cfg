SPECIFICATION Spec
CONSTANTS
  ana = ana
  boris = boris
  ivan = ivan
  Absent = Absent
  InitialUser <- OneAdmin
  User = {ana, boris, ivan}
  Request = {r1, r2}
  ImportBatch <- EveryBatch
  CanCrash = TRUE
  MaxChanges = 3
INVARIANT TypeOK
PROPERTIES
  RolesKeepAnAdmin
  ChangesAreTraced
CHECK_DEADLOCK FALSE
