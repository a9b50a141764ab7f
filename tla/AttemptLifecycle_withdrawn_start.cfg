\* An acceptance beside a withdrawal, no deaths.
SPECIFICATION Spec
CONSTANTS
  r1 = r1
  r2 = r2
  Requests = {r1, r2}
  Offered = {"accept", "consent", "setup", "start", "withdraw"}
  UpdateAfter = 1
  Allowed = 0
  Grace = 1
  MaxExtension = 1
  MaxElapsed = 2
  MaxDeaths = 0
  CallsFail = FALSE
SYMMETRY Interchangeable
PROPERTIES
  WithdrawnCannotStart
