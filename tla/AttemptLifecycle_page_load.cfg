\* A submit that dies before it has queued, then page loads.
SPECIFICATION FairSpec
CONSTANTS
  r1 = r1
  r2 = r2
  Requests = {r1}
  Offered = {"accept", "consent", "setup", "start", "submit", "view"}
  UpdateAfter = 1
  Allowed = 0
  Grace = 1
  MaxExtension = 0
  MaxElapsed = 0
  MaxDeaths = 1
  CallsFail = FALSE
PROPERTIES
  RepeatedLoadsComplete
