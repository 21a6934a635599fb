CONSTANTS
  ScanPorts = 15
  ScanWindow = 100
  ScanCooldown = 1200
  Logins <- ConfiguredLogins
  LoginWindows <- ConfiguredWindows
  LoginCooldown = 1200
  RatioMedium = 10
  RatioHigh = 50
  FloodWindow = 100
  MinSyn = 20
  FloodCooldown = 1200
  Long = {"long"}
  Encoded = {"encoded"}
  Queries = 50
  QueryWindow = 1200
  QueryCooldown = 1200
  Announcements = 3
  AnnounceWindow = 1200
  Mixes <- Demonstration
  Epoch = 10000
  SendTimes = {0, 1}
  Pauses = {20, 70, 1400}
  MaxScripts = 2
SPECIFICATION SimSpec
INVARIANT AsAnnounced
CHECK_DEADLOCK FALSE
