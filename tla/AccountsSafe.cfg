\* Requests that overlap and fail half way, two addresses.
SPECIFICATION Spec
CONSTANTS
  r1 = r1
  r2 = r2
  r3 = r3
  r4 = r4
  r5 = r5
  ann = ann
  bob = bob
  Request = {r1, r2, r3, r4, r5}
  Email = {ann, bob}
  VerifyTTL = 2
  ResetTTL = 1
  MaxOpen = 3
  MaxTime = 1
  MaxFaults = 1
INVARIANT OneAccountPerEmail
INVARIANT ChangedByToken
PROPERTY SpentIsRefused
SYMMETRY Symmetry
CHECK_DEADLOCK FALSE
