CONSTANTS
  Ips = {a, b, w}
  Whitelist = {w}
  NoIp = NoIp
  NoAlert = NoAlert
  Dirs <- Both
  Outcomes = {"ok", "rejected", "hung_before", "hung_after"}
  Crashes = TRUE
  MaxRows = 4
SPECIFICATION HandlerSpec
INVARIANTS TypeOK OneActiveRow WhitelistUntouched HandlerKnows
PROPERTIES RowsFollowFirewall HandlerReturns
