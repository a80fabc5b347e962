\* One process, a longer clock, the cadence changed and disabled, a cycle cut short; fair Beat and pool.
SPECIFICATION FairSpec
CONSTANTS
  ann = ann
  server = server
  noon = noon
  p1 = p1
  Account = {ann}
  Admin = {}
  Server = server
  Hour = {noon}
  Proc = {p1}
  Intervals = {0, 1, 2, 3}
  MinInterval = 2
  Default = 2
  MaxTime = 5
  MaxTicks = 1
  MaxSets = 1
  MaxSends = 0
  MaxMails = 0
  MaxFaults = 1
INVARIANT Spaced
PROPERTY DueIsClaimed
PROPERTY ClaimsFinish
