CONSTANTS
  Detectors = {d, e}
  MaxAlerts = 3
SPECIFICATION FairSpec
INVARIANTS TypeOK ShownIsSaved EachOnceInOrder
PROPERTIES EveryAlertHandled FailureReported
CHECK_DEADLOCK FALSE
