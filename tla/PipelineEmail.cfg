\* E-mail: a good and a missing address, one redelivery, one repeated callback, one
\* fault, two webhook requests at a time; safety, and liveness under FairSpec.
SPECIFICATION FairSpec
CONSTANTS
  K1 = K1
  K2 = K2
  D1 = D1
  D2 = D2
  NoRef = NoRef
  NoDelivery = NoDelivery
  Dispatch = {K1}
  Delivery = {D1, D2}
  DispatchOf <- OneDispatch
  NoDestination = {D2}
  BadDestination = {}
  Polled = {}
  Worker = {w1, w2}
  Handler = {h1, h2}
  MaxAttempts = 2
  MaxPolls = 1
  MaxRedeliveries = 1
  MaxRepeats = 1
  MaxFaults = 1
\* The system stops when every accepted send has been worked off.
CHECK_DEADLOCK FALSE
INVARIANTS SingleSender AttemptsBounded ValidationDecides OutcomeIsProviders HistoryIsAPath
PROPERTIES CalledWhileQueued EventuallyAttempted CallbackDecides
