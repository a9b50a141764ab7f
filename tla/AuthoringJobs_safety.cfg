\* Two workers on the jobs of one draft, of either kind.
SPECIFICATION Spec
CONSTANTS
  w1 = w1
  w2 = w2
  Workers = {w1, w2}
  Nobody = Nobody
  MaxAttempts = 2
  Stages = 1
  MaxJobs = 2
  MaxRevision = 3
  MaxWaits = 1
CHECK_DEADLOCK FALSE
INVARIANTS
  TypeOK
  StoredOnce
  SucceededIsStored
PROPERTIES
  EndedJobsStay
  EveryJobEnds
