SPECIFICATION BootSpec
CONSTANTS
  e1 = e1
  e2 = e2
  Events = {e1}
  MaxRev = 2
  Unstamped = {}
  Malformed <- SecondOfE1
  BackfillOnBoot = TRUE
  FirstRunTime = "interval"
  MaxBoots = 2
  MaxFaults = 0
  NoEtag = NoEtag
CHECK_DEADLOCK FALSE
INVARIANTS EtagIsBacked
PROPERTIES PublishedIsLoaded BackfillCompletes
