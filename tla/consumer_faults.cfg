SPECIFICATION FairSpec
CONSTANTS
  s1 = s1  s2 = s2
  e1 = e1  e2 = e2  e3 = e3  e4 = e4  e5 = e5
  r1 = r1  r2 = r2
  a = a  b = b
  Shards <- TwoShards
  Stream <- Streams
  Notifications <- Produced
  MaxMessages = 2
  QueueLimit = 2
  Faults = {"process", "send", "park", "timeout"}
CHECK_DEADLOCK FALSE
INVARIANTS TypeOK NothingLost NothingTwice OrderKept RequestsFit
PROPERTIES EveryEventHandled
