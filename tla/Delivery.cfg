SPECIFICATION FairSpec
CONSTANTS
  a1 = a1
  a2 = a2
  c1 = c1
  c2 = c2
  Alerts = {a1, a2}
  Chats = {c1, c2}
  MaxJobs = 1
  MaxTries = 2
  Failing = {"telegram", "mongo", "timeout"}
  MaxFaults = 1
  MaxCrashes = 2
  MaxCommands = 1
CHECK_DEADLOCK FALSE
INVARIANTS TypeOK CopiesBounded
PROPERTIES  AlertsAreSettled SubscribersAreReached
