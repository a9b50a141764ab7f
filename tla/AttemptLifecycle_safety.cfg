\* Two requests of every kind at once, no deaths.
SPECIFICATION Spec
CONSTANTS
  r1 = r1
  r2 = r2
  Requests = {r1, r2}
  Offered = {"accept", "consent", "setup", "start", "submit", "view", "withdraw", "acknowledge", "extend"}
  UpdateAfter = 1
  Allowed = 0
  Grace = 1
  MaxExtension = 1
  MaxElapsed = 2
  MaxDeaths = 0
  CallsFail = FALSE
SYMMETRY Interchangeable
INVARIANTS
  TypeOK
  ReceiptsAreHonoured
  SubmissionsHadTheUpdate
  HistoryIsTrue
  ExtensionsAllCount
PROPERTY ImplementsLedger
