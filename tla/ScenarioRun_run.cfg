SPECIFICATION FairSpec
CONSTANTS
  Documents <- MCDocuments
  MaxSteps = 2
  None = None
INVARIANTS StepsFollowTheDocument CleanupTriedOnce VerdictIsEarned EvidenceTellsAll
PROPERTY RunEnds
CHECK_DEADLOCK FALSE
