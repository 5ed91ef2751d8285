SPECIFICATION FairSpec
CONSTANTS
  Batch = {b1}
  Edit = {e1}
  Task = {t1, t2}
  None = None
  MaxIterations = 2
  MaxFailures = 1
  MaxCrashes = 1
INVARIANTS AtMostOneTask CleanIsDurable
PROPERTIES TaskTerminates CoalescedCommitSaved
CHECK_DEADLOCK FALSE
