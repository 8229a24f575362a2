SPECIFICATION Spec
CONSTANTS
  e1 = e1
  e2 = e2
  Events = {e1, e2}
  MaxRev = 2
  Unstamped = {e2}
  Malformed <- SecondOfE2
  BackfillOnBoot = TRUE
  FirstRunTime = "None"
  MaxBoots = 2
  MaxFaults = 1
  NoEtag = NoEtag
CHECK_DEADLOCK FALSE
INVARIANTS TypeOK StoredBeforeReported RowBeforeComplete
PROPERTIES RegressionNeedsOverlap BackfillRunsOnce
