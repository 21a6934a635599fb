CONSTANTS
  port = port
  arp = arp
  Capture = capture
  Detectors <- MCDetectors
  MaxStarts = 2
  MaxSignals = 2
SPECIFICATION FairSpec
INVARIANTS OneThread OneLatePacket
PROPERTIES CallsReturn StopIsFinal
CHECK_DEADLOCK FALSE
