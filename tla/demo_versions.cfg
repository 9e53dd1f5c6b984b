SPECIFICATION Spec
CONSTANTS
  p1 = p1  p2 = p2  p3 = p3
  i1 = i1  i2 = i2
  d1 = d1  d2 = d2
  Submitted = Submitted
  Invalid = Invalid
  None = None
  Procs = {p1, p2, p3}
  Ids = {i1}
  Bodies <- TwoBodies
  Ops = {"get", "create", "update"}
  Collisions = TRUE
  Lag = TRUE
  Faults = {"fail", "lostReply", "crash"}
  MaxVersion = 3
  Retries = 1

SYMMETRY Symmetry3
INVARIANTS TypeOK LatestIsNewest LatestHasVersion HistoryComplete ReadsAreHistory AcknowledgedKept
PROPERTIES VersionRowsFixed SavedOnTopOfLatest ImplementsHistory
