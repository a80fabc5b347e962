\* Pages of two and a cap of four over five dispatches; the hours are counted alike.
SPECIFICATION Spec
CONSTANTS
  Hour = {0}
  Page = 2
  Cap = 4
  MaxList = 5
  MaxSent = 1
  MaxFaults = 1
INVARIANT CountsBracketed
INVARIANT CopiesBounded
INVARIANT WindowCovered
CHECK_DEADLOCK FALSE
