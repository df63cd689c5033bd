SPECIFICATION FairSpec
CONSTANTS
  Nobody = Nobody
  User = {ivan}
  Browser = {phone}
  Call = {poll, click}
  Trouble = {"logout", "refresh_expired", "switched_off", "lost", "rejected"}
  MaxGrants = 2
PROPERTY CallsEnd
\* Everybody may be signed out once MaxGrants grants were issued.
CHECK_DEADLOCK FALSE
