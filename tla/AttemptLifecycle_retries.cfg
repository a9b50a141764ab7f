\* Submits and page loads, a request that dies, statements that fail.
SPECIFICATION FairSpec
CONSTANTS
  r1 = r1
  r2 = r2
  Requests = {r1, r2}
  Offered = {"accept", "consent", "setup", "start", "submit", "view"}
  UpdateAfter = 1
  Allowed = 0
  Grace = 1
  MaxExtension = 0
  MaxElapsed = 0
  MaxDeaths = 1
  CallsFail = TRUE
PROPERTIES
  RepeatedSubmitsComplete
