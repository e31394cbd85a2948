\* start() and stop() from two threads, two opens, two messages and two bytes.
CONSTANTS
  c1 = c1
  c2 = c2
  Callers <- TwoCallers
  MaxOpen = 2
  MaxSend = 2
  MaxRecv = 2
SPECIFICATION FairSpec
INVARIANTS TypeOK OrderlyUnlessOverlapped
PROPERTIES OutboundIsPipe MessagesServed
CHECK_DEADLOCK FALSE
