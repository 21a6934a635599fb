CONSTANTS
  Pages = {p}
  Sockets = {t, u, v}
  Stamps = {1, 2}
  Cutoff = 2
  InOrder = TRUE
  PollFails = TRUE
  MaxRows = 2
  MaxFaults = 2
SPECIFICATION FairSpec
INVARIANTS TypeOK NothingSkipped
PROPERTY EveryPageSees
CHECK_DEADLOCK FALSE
