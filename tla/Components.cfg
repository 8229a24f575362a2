SPECIFICATION ComponentsSpec
CHECK_DEADLOCK FALSE
CONSTANTS
  e1 = e1
  e2 = e2
  l1 = l1
  r1 = r1
  r2 = r2
  r3 = r3
  r4 = r4
  q1 = q1
  c1 = c1
  c2 = c2
  k1 = k1
  k2 = k2
  u1 = u1
  w1 = w1
  Threshold = 2
  Hour = 3
  Ttl = 13
  MaxUpsert = 1
  NoRow = NoRow
  Failing = {"query", "insert", "enqueue"}
  MaxFaults = 1
  MaxRestarts = 1
  Events = {e1, e2}
  Locations = {l1}
  None = None
  Contents <- ContentsMC
  Sites <- SitesMC
  Distance <- DistanceMC
  Cell <- CellMC
  GlobalMag = 5
  NearMag = 4
  NearRadius = 2
  SwarmRadius = 1
  SwarmWindow = 1
  SwarmMinEvents = 2
  BucketLength = 2
  MaxChanges = 3
  Requests = {r1, r2, r3, r4}
  Queries = {q1}
  QueryOf <- QueryOfMC
  Point = Point
  MinInterval = 2
  Attempts = 2
  Cap = 1
  MaxLoads = 3
  Shakes = {e1, e2}
  Sizes = {0, 1}
  NoCard = NoCard
  NearbyLimit = 1
  Quakes = {e1, e2}
  Windows = {"day", "month"}
  InWindow <- InWindowMC
  FirstWindow = "day"
  TimeOf <- TimeOfMC
  Writers = {w1}
  PageLimit = 1
  ListLimit = 1
  BatchSizes = {2}
  MaxStores = 2
  MaxWire = 1
  MaxMoves = 1
  Refreshes = {k1, k2}
  NoPoll = NoPoll
  WarnAge = 0
  BadAge = 1
  BadStreak = 2
  MaxNow = 2
  MaxRows = 2
  People = {c1, c2}
  Everyone = Everyone
  Updates = {u1}
  Nobody = Nobody
  Unsent = Unsent
  MaxJobsAsked = 2
  MaxTrouble = 1
INVARIANTS TypesOK OncePerHour QuietHourIsReported CardIsKept SwarmIsReported OverCapNeedsOverlap AddedIsShown CardAgrees FeedIsCurrent GoodIsEarned NobodyUnasked
PROPERTIES SilenceIsReported CallsAreSpaced SilenceIsShown SummaryIsAnswered
