\* Two people and a job on one draft; all requests may be over.
SPECIFICATION Spec
CONSTANTS
  p1 = p1
  p2 = p2
  w1 = w1
  People = {p1, p2}
  Workers = {w1}
  MaxEdits = 3
  MaxRequests = 5
SYMMETRY Symmetric
CHECK_DEADLOCK FALSE
INVARIANTS
  TypeOK
  InReviewWasApproved
PROPERTIES
  PackageIsNotOverwritten
  ImplementsReview
