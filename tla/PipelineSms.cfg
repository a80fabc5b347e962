\* SMS: a good and a rejected number, polls, two redeliveries, one fault.
SPECIFICATION Spec
CONSTANTS
  K1 = K1
  K2 = K2
  D1 = D1
  D2 = D2
  NoRef = NoRef
  NoDelivery = NoDelivery
  Dispatch = {K1}
  Delivery = {D1, D2}
  DispatchOf <- OneDispatch
  NoDestination = {}
  BadDestination = {D2}
  Polled = {D1, D2}
  Worker = {w1, w2}
  Handler = {h1}
  MaxAttempts = 2
  MaxPolls = 2
  MaxRedeliveries = 2
  MaxRepeats = 0
  MaxFaults = 1
\* The system stops when every accepted send has been worked off.
CHECK_DEADLOCK FALSE
INVARIANTS Inductive NothingStranded
PROPERTIES LifecycleSpec
