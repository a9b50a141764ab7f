\* Two workers, two requests of the owner or of operators with one key.
SPECIFICATION Spec
CONSTANTS
  Workers = {w1, w2}
  People = {r1, r2}
  Cron = cron
  Keys = {k1}
  Nobody = Nobody
  MaxAttempts = 2
  MaxRequests = 2
INVARIANTS
  TypeOK
  SucceededIsSaved
  TriesAreBounded
  KeyActsOnce
PROPERTIES
  EndedStays
  ImportEnds
