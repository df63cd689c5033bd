SPECIFICATION Spec
CONSTANTS
  ivan = ivan
  maria = maria
  approver = approver
  reception = reception
  admin = admin
  Null = Null
  InitialRole <- MCInitialRole
  User = {ivan, reception, admin}
  Car = {car1}
  BlackoutWriter = {w1}
  MaxReservations = 1
  MaxBlackouts = 2
  MaxTime = 2
  MaxUserChanges = 1
INVARIANTS
  TypeOK
  RequesterInformed
  NoDuplicateNotification
PROPERTIES
  CalendarSpec
