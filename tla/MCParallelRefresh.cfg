SPECIFICATION Spec
CONSTANTS
  Nobody = Nobody
  User = {ivan}
  Browser = {phone}
  Call = {poll, click}
  Trouble = {}
  MaxGrants = 3
PROPERTY SilentRecovery
