\* Two requests of the candidate, three archives, a death, a lost answer and a
\* call that fails unnoticed.
SPECIFICATION Spec
CONSTANTS
  Requests = {r1, r2}
  None = None
  MaxSeals = 3
  MaxDeaths = 1
  MaxLost = 1
  MaxFails = 1
CHECK_DEADLOCK FALSE
INVARIANTS
  TypeOK
  NothingIsLeftBehind
PROPERTIES
  OthersLeaveTheSubmission
  RecordedIsQueued
  RepeatedSubmitsClear
