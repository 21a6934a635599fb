CONSTANTS
  Ips = {a, b, w}
  Whitelist = {w}
  NoIp = NoIp
  NoAlert = NoAlert
  Dirs <- Both
  Outcomes = {"ok", "rejected"}
  Crashes = FALSE
  MaxRows = 3
SPECIFICATION Spec
INVARIANT NoOrphanRule
