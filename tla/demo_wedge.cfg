SPECIFICATION Spec
CONSTANTS
  p1 = p1  p2 = p2  p3 = p3
  i1 = i1  i2 = i2
  d1 = d1  d2 = d2
  Submitted = Submitted
  Invalid = Invalid
  None = None
  Procs = {p1, p2, p3}
  Ids = {i1}
  Bodies <- OneBody
  Ops = {"create", "update", "deleteCompletely"}
  Collisions = FALSE
  Lag = FALSE
  Faults = {}
  MaxVersion = 4
  Retries = 2
SYMMETRY Symmetry3
INVARIANTS NextVersionFree
