\* Two smoke checks at once, or a GET /health beside a GET /readyz; one failure.
SPECIFICATION FairSpec
CONSTANTS
  c1 = c1
  c2 = c2
  h = h
  z = z
  Check = {c1, c2}
  Aggregate = {h}
  Ready = {z}
  Scenario = {{c1, c2}, {h, z}}
  Timeout = 1
  MaxFaults = 1
INVARIANT VerdictTruthful
INVARIANT HealthyIsTrue
PROPERTY CheckEnds
PROPERTY ReportEnds
CHECK_DEADLOCK FALSE
