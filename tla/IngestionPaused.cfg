SPECIFICATION FairSpec
CONSTANTS
  e1 = e1
  e2 = e2
  Events = {e1}
  MaxRev = 1
  Unstamped = {}
  Malformed = {}
  BackfillOnBoot = TRUE
  FirstRunTime = "None"
  MaxBoots = 1
  MaxFaults = 0
  NoEtag = NoEtag
CHECK_DEADLOCK FALSE
PROPERTIES EventuallyAccountedFor
