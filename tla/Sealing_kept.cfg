\* A submission whose answer is lost.
SPECIFICATION Spec
CONSTANTS
  Requests = {r1}
  None = None
  MaxSeals = 1
  MaxDeaths = 0
  MaxLost = 1
  MaxFails = 0
CHECK_DEADLOCK FALSE
INVARIANT SubmissionKeepsItsArchive
