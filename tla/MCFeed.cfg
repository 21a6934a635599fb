CONSTANTS
  Detectors = {d, e}
  MaxAlerts = 2
  Pages = {p}
  Sockets = {t}
  MaxFaults = 0
SPECIFICATION FeedSpec
INVARIANT NothingSkipped
CHECK_DEADLOCK FALSE
