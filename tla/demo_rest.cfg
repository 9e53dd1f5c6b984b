SPECIFICATION DeletionSpec
CONSTANTS
  p1 = p1  p2 = p2  p3 = p3
  i1 = i1
  d1 = d1
  Submitted = Submitted
  Invalid = Invalid
  None = None
  Procs = {p1, p2, p3}
  Ids = {i1}
  Bodies <- OneBody
  Ops = {"create", "update", "deleteCompletely"}
  Collisions = FALSE
  Lag = TRUE
  Faults = {"lostReply", "lostDelete", "crash"}
  MaxVersion = 3
  Retries = 2
SYMMETRY Symmetry
INVARIANTS DeletedWhatItRead WholeWhileFirst OneDeletionSucceeds KeptUnlessRepeated DeletionInv
