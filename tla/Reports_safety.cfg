\* Two workers and two people on the reports of one attempt.
SPECIFICATION Spec
CONSTANTS
  Workers = {w1, w2}
  People = {q1, q2}
  Texts = {good, poor}
  Sound = {good}
  None = None
  MaxVersion = 3
  MaxTries = 3
  MaxDecisions = 2
SYMMETRY Interchangeable
INVARIANTS
  TypeOK
  VersionsAreALine
  ReviewHasSomething
  ReadyMeansReleased
  DecisionsAreALine
PROPERTIES
  ImplementsLedger
