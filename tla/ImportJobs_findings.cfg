\* One import whose evidence could not be stored, and its retry.
SPECIFICATION Spec
CONSTANTS
  Workers = {w1}
  People = {r1}
  Cron = cron
  Keys = {k1}
  Nobody = Nobody
  MaxAttempts = 2
  MaxRequests = 0
INVARIANT SucceededHasItsFindings
