\* A send accepted by a provider whose answer timed out is sent again.
SPECIFICATION Spec
CONSTANTS
  K1 = K1
  K2 = K2
  D1 = D1
  D2 = D2
  NoRef = NoRef
  NoDelivery = NoDelivery
  Dispatch = {K1}
  Delivery = {D1}
  DispatchOf <- OneRecipient
  NoDestination = {}
  BadDestination = {}
  Polled = {}
  Worker = {w1}
  Handler = {h1}
  MaxAttempts = 2
  MaxPolls = 1
  MaxRedeliveries = 0
  MaxRepeats = 0
  MaxFaults = 0
\* The system stops when every accepted send has been worked off.
CHECK_DEADLOCK FALSE
INVARIANTS AtMostOneAccepted
