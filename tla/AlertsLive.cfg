SPECIFICATION FairSpec
CONSTANTS
  e1 = e1
  e2 = e2
  kGlobal = kGlobal
  kNear = kNear
  kSwarm = kSwarm
  i1 = i1
  i2 = i2
  w1 = w1
  Events = {e1, e2}
  MaxRev = 2
  Keys = {kSwarm}
  Fires <- FiresSwarm
  Instances = {i1, i2}
  Writers = {w1}
  BatchSizes = {2}
  FetchLimit = 1
  StreamsSupported = TRUE
  IndexAtStart = FALSE
  MaxBoots = 1
  Failing = {"index", "stream"}
  MaxFaults = 1
CHECK_DEADLOCK FALSE
INVARIANTS DedupOnceIndexed
PROPERTIES ReceivedIsEvaluated LoggedIsHandedOver
