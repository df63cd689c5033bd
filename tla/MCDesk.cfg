SPECIFICATION Spec
CONSTANTS
  ana = ana
  boris = boris
  golf = golf
  polo = polo
  lada = lada
  DayLength = 2
  RailSize <- MCRailSize
  Booking <- MCBooking
  Given <- MCGiven
  Visitor <- MCVisitor
  Cars <- MCCars
  Clock = {0, 2}
  Chip = {"open", "pending", "approved", "checked_out"}
  TableLimit = 1
  PulseLimit = 2
  MaxSteps = 2
INVARIANTS
  TypeOK
  OffersAreAccepted
  CalmDeskHasNoWork
  
  NoHandoffIsForgotten
  FreeCarsAreFree
  
PROPERTIES
  NextBusyDaySkipsNothing
