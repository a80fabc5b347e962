\* A send to two recipients, looked at while it is written, delivered and repeated; requests fail.
SPECIFICATION FairSpec
CONSTANTS
  K = K
  ann = ann
  bob = bob
  nobody = nobody
  Dispatch = {K}
  Delivery = {ann, bob}
  DispatchOf <- SendOf
  Nobody = nobody
  MaxHistory = 3
  MaxFaults = 2
INVARIANT ViewConsistent
INVARIANT StopsComplete
PROPERTY CatchesUp
CHECK_DEADLOCK FALSE
