SPECIFICATION HandlerSpec
CONSTANTS
  p1 = p1  p2 = p2
  i1 = i1  i2 = i2
  d1 = d1
  Submitted = Submitted
  Invalid = Invalid
  None = None
  Procs = {p1, p2}
  Ids = {i1, i2}
  Bodies <- BodyAndInvalid
  Ops = {"get", "create", "update", "deleteCompletely"}
  Collisions = FALSE
  Lag = FALSE
  Faults = {"fail", "lostReply", "lostDelete", "crash"}
  MaxVersion = 3
  Retries = 2
SYMMETRY Symmetry
VIEW Relevant
INVARIANTS HandlerTypeOK RefusedStoresNothing
PROPERTIES OnlyThePathsDemo
