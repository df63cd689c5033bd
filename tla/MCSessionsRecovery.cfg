SPECIFICATION Spec
CONSTANTS
  Nobody = Nobody
  User = {ivan}
  Browser = {phone, laptop}
  Call = {click}
  Trouble = {}
  MaxGrants = 4
INVARIANTS
  CookieKeepsUp
PROPERTIES
  SilentRecovery
