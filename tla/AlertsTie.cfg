SPECIFICATION FairSpec
CONSTANTS
  e1 = e1
  e2 = e2
  kGlobal = kGlobal
  kNear = kNear
  kSwarm = kSwarm
  i1 = i1
  i2 = i2
  w1 = w1
  Events = {e1, e2}
  MaxRev = 1
  Keys = {kGlobal}
  Fires <- FiresMC
  Instances = {i1}
  Writers = {w1}
  BatchSizes = {2}
  FetchLimit = 2
  StreamsSupported = FALSE
  IndexAtStart = TRUE
  MaxBoots = 1
  Failing = {}
  MaxFaults = 0
CHECK_DEADLOCK FALSE
PROPERTIES EventuallyEvaluated
