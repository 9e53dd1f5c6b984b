SPECIFICATION ReadsSpec
CONSTANTS
  p1 = p1  r1 = r1
  i1 = i1
  d1 = d1
  Submitted = Submitted
  Invalid = Invalid
  None = None
  Procs = {p1}
  Ids = {i1}
  Bodies <- TwoStatuses
  Ops = {"get", "create", "update", "updateRevision", "delete", "deleteCompletely"}
  Collisions = FALSE
  Lag = FALSE
  Faults = {"fail", "lostReply", "lostDelete", "crash"}
  MaxVersion = 2
  Retries = 2
  Readers = {r1}
  Listings <- EveryListing
  PageSize = 1
  IdOrder <- IdsInOrder
  Radix = 2
INVARIANTS LoopIsComplete OneRowPerDemo
