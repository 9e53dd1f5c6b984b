SPECIFICATION PipelineSpec
CONSTANTS
  s1 = s1
  e1 = e1  e2 = e2
  u1 = u1
  a = a  b = b  c = c
  w1 = w1  w2 = w2
  Shards <- OneShard
  Stream <- Streams
  Notifications <- Declared
  MaxMessages = 2
  QueueLimit = 2
  Faults = {}
  Workers = {w1, w2}
  Capacity = 3
  MaxReceive = 2
  MaxSecret = 2
  Ignore = FALSE
  Mishaps = {}
CHECK_DEADLOCK FALSE
INVARIANTS DeadHasCause
