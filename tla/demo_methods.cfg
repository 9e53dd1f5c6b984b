SPECIFICATION Spec
CONSTANTS
  p1 = p1  p2 = p2  p3 = p3
  i1 = i1  i2 = i2
  d1 = d1  d2 = d2
  Submitted = Submitted
  Invalid = Invalid
  None = None
  Procs = {p1, p2}
  Ids = {i1}
  Bodies <- BodyAndInvalid
  Ops = {"get", "create", "update", "updateRevision", "delete", "deleteCompletely"}
  Collisions = FALSE
  Lag = TRUE
  Faults = {"fail", "lostReply", "lostDelete", "crash"}
  MaxVersion = 2
  Retries = 1
SYMMETRY Symmetry2
PROPERTIES NewVersionIsLatest
