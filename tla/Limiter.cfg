SPECIFICATION FairSpec
CONSTANTS
  s1 = s1
  s2 = s2
  c1 = c1
  c2 = c2
  bot = bot
  Senders = {s1, s2}
  Chats = {c1, c2}
  Global = bot
  NoChat = NoChat
  Capacity <- CapacityMC
  Cost <- CostMC
  Second = 2
  MaxWindow = 1
INVARIANTS TypeOK GrantsBounded SendsBounded LinesAreSound
PROPERTIES EverybodyIsServed
