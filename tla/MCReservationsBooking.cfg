SPECIFICATION Spec
CONSTANTS
  ivan = ivan
  maria = maria
  approver = approver
  reception = reception
  admin = admin
  Null = Null
  InitialRole <- MCInitialRole
  User = {ivan, reception, admin}
  Car = {car1, car2}
  BlackoutWriter = {}
  MaxReservations = 2
  MaxBlackouts = 0
  MaxTime = 4
  MaxUserChanges = 0
INVARIANTS
  NoDoubleBooking
  AuditMatchesStatus
  AuditIsALifecycle
PROPERTIES
  CalendarSpec
  SettledIsFinal
