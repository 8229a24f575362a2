SPECIFICATION FairSpec
CONSTANTS
  a1 = a1
  a2 = a2
  c1 = c1
  c2 = c2
  Alerts = {a1}
  Chats = {c1, c2}
  MaxJobs = 1
  MaxTries = 5
  Failing = {"telegram"}
  MaxFaults = 1
  MaxCrashes = 0
  MaxCommands = 0
CHECK_DEADLOCK FALSE
PROPERTIES FailedSendsAreRetried
