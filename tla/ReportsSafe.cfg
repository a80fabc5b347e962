\* Two processes, two accounts, sends of users and of reports meanwhile.
SPECIFICATION Spec
CONSTANTS
  admin = admin
  ann = ann
  server = server
  noon = noon
  p1 = p1
  p2 = p2
  Account = {admin, ann}
  Admin = {admin}
  Server = server
  Hour = {noon}
  Proc = {p1, p2}
  Intervals = {0, 1}
  MinInterval = 1
  Default = 1
  MaxTime = 1
  MaxTicks = 1
  MaxSets = 0
  MaxSends = 1
  MaxMails = 1
  MaxFaults = 0
INVARIANT ServedExactly
INVARIANT CountsAreCurrent
SYMMETRY ProcSymmetry
