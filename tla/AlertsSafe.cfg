SPECIFICATION Spec
CONSTANTS
  e1 = e1
  e2 = e2
  kGlobal = kGlobal
  kNear = kNear
  kSwarm = kSwarm
  i1 = i1
  i2 = i2
  w1 = w1
  Events = {e1, e2}
  MaxRev = 2
  Keys = {kGlobal, kNear, kSwarm}
  Fires <- FiresMC
  Instances = {i1, i2}
  Writers = {w1}
  BatchSizes = {2}
  FetchLimit = 1
  StreamsSupported = TRUE
  IndexAtStart = TRUE
  MaxBoots = 2
  Failing = {"index", "stream", "query", "rules", "insert", "enqueue"}
  MaxFaults = 2
CHECK_DEADLOCK FALSE
INVARIANTS TypeOK JobsAreLogged AtMostOneJob
PROPERTIES PromiseKept
