\* One run, two workers, two operators: every race on one row, under fairness.
SPECIFICATION FairSpec
CONSTANTS
  Runs = {r1}
  Workers = {w1, w2}
  Operators = {o1, o2}
  Outcomes = {pass, fail}
  None = None
  FirstBudget = 2
  RequeueBudget = 1
  MaxBudget = 2
  CandidateLimit = 5
INVARIANTS
  TypeOK
  FencedCopyIsCurrent
  HistoryIsTrue
PROPERTIES
  LiveLeaseIsRespected
  EveryStartUsesATry
  ImplementsLifecycle
  EveryRunSettles
CHECK_DEADLOCK FALSE
