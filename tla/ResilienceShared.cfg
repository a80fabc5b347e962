\* Three threads, two failures in a row, one restart; fair threads.
SPECIFICATION FairSpec
CONSTANTS
  Thread = {t1, t2, t3}
  MaxAttempts = 2
  FailMax = 2
  ResetTimeout = 2
  MaxRuns = 4
  MaxRestarts = 1
\* The system stops when every delivery to the destination has been worked off.
CHECK_DEADLOCK FALSE
INVARIANTS OpenAfterStreak OneCall
PROPERTIES LeftAlone AttemptsSpec RunEnds
