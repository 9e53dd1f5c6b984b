SPECIFICATION FairHandlerSpec
CONSTANTS
  p1 = p1  p2 = p2
  i1 = i1  i2 = i2
  d1 = d1
  Submitted = Submitted
  Invalid = Invalid
  None = None
  Procs = {p1, p2}
  Ids = {i1}
  Bodies <- OneBody
  Ops = {"get", "create", "update", "deleteCompletely"}
  Collisions = TRUE
  Lag = TRUE
  Faults = {"crash"}
  MaxVersion = 2
  Retries = 2
PROPERTIES EveryRequestAnswered
