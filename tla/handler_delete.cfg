SPECIFICATION HandlerSpec
CONSTANTS
  p1 = p1  p2 = p2
  i1 = i1  i2 = i2
  d1 = d1
  Submitted = Submitted
  Invalid = Invalid
  None = None
  Procs = {p1}
  Ids = {i1}
  Bodies <- OneBody
  Ops = {"get", "create", "update", "deleteCompletely"}
  Collisions = FALSE
  Lag = FALSE
  Faults = {"crash"}
  MaxVersion = 2
  Retries = 2
INVARIANTS DeletedDefinitely
