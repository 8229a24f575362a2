SPECIFICATION LocSpec
CHECK_DEADLOCK FALSE
CONSTANTS
  r1 = r1
  r2 = r2
  Requests = {r1, r2}
  Queries = {}
  QueryOf <- QueryOfMC
  Point = Point
  MinInterval = 2
  Attempts = 2
  Cap = 1
  MaxLoads = 2
PROPERTIES FormReopens
