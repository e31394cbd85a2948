\* The last element of a deque node, with a payload that takes the node's place.
CONSTANTS
  c1 = c1
  c2 = c2
  Callers <- OneCaller
  Dests <- TwoDests
  Addressees <- OnlyAll
  Overlays <- Garbage
  NodeSlots = 2
  MaxStart = 1
  MaxSend = 2
  MaxRecv = 0
  Refused = {}
SPECIFICATION Spec
INVARIANT RoutedAsDocumented
CHECK_DEADLOCK FALSE
