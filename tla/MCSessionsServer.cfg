SPECIFICATION Spec
CONSTANTS
  Nobody = Nobody
  User = {ivan}
  Browser = {phone}
  Call = {poll, click}
  Trouble = {"logout", "refresh_expired", "switched_off", "reload", "lost", "rejected"}
  MaxGrants = 3
INVARIANTS
  TypeOK
  RotationIsAChain
SYMMETRY Interchangeable
\* Everybody may be signed out once MaxGrants grants were issued.
CHECK_DEADLOCK FALSE
