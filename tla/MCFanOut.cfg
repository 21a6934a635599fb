CONSTANTS
  Consumers = {tui, arp, dns}
  Alive = {arp}
  MaxSize = 2
  MaxPackets = 4
SPECIFICATION FairSpec
INVARIANTS TypeOK Accounted LossIsOwnBacklog
PROPERTY OthersUnaffected
CHECK_DEADLOCK FALSE
