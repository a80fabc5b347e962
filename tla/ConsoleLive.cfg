\* One tab, a user who signs in twice, a lost request.
SPECIFICATION FairSpec
CONSTANTS
  ann = ann
  User = {ann}
  MaxLogins = 2
  MaxSends = 2
  MaxFaults = 1
PROPERTY CatchesUp
PROPERTY SentIsShown
CHECK_DEADLOCK FALSE
