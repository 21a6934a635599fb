CONSTANTS
  a = a
  b = b
  m1 = m1
  m2 = m2
  plain = plain
  long = long
  coded = coded
  ScanPorts = 1
  ScanWindow = 3
  ScanCooldown = 4
  Logins <- LoginsByService
  LoginWindows <- WindowsByService
  LoginCooldown = 3
  RatioMedium = 1
  RatioHigh = 2
  FloodWindow = 2
  MinSyn = 2
  FloodCooldown = 3
  Long = {long}
  Encoded = {long, coded}
  Queries = 2
  QueryWindow = 3
  QueryCooldown = 2
  Announcements = 1
  AnnounceWindow = 2
  Mixes <- OneTarget
  Epoch = 10
SPECIFICATION Spec
INVARIANT HighNotMasked
CHECK_DEADLOCK FALSE
