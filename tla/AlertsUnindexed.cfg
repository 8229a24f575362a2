SPECIFICATION Spec
CONSTANTS
  e1 = e1
  e2 = e2
  kGlobal = kGlobal
  kNear = kNear
  kSwarm = kSwarm
  i1 = i1
  i2 = i2
  w1 = w1
  Events = {e1}
  MaxRev = 2
  Keys = {kSwarm}
  Fires <- FiresSwarm
  Instances = {i1}
  Writers = {w1}
  BatchSizes = {1}
  FetchLimit = 2
  StreamsSupported = TRUE
  IndexAtStart = FALSE
  MaxBoots = 1
  Failing = {"index"}
  MaxFaults = 1
CHECK_DEADLOCK FALSE
INVARIANTS AtMostOneJob
