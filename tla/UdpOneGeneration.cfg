\* One start(): the data path of one generation of workers.
CONSTANTS
  c1 = c1
  c2 = c2
  Callers <- OneCaller
  Dests <- TwoDests
  Addressees <- AllOrOne
  Overlays <- NoGarbage
  NodeSlots = 2
  MaxStart = 1
  MaxSend = 2
  MaxRecv = 2
  Refused = {1}
SPECIFICATION FairSpec
INVARIANTS TypeOK Routed
PROPERTIES MessagesServed 
CHECK_DEADLOCK FALSE
