\* stop() joins for ever while start() succeeds again: two generations of workers.
CONSTANTS
  c1 = c1
  c2 = c2
  Callers <- TwoCallers
  Dests <- OneDest
  Addressees <- OnlyAll
  Overlays <- NoGarbage
  NodeSlots = 2
  MaxStart = 2
  MaxSend = 2
  MaxRecv = 1
  Refused = {}
SYMMETRY CallerSymmetry
SPECIFICATION Spec
INVARIANTS OneGenerationNeverUnderflows SentInOrder TakenOnceHandledOnce
PROPERTIES OutboundIsPipe InboundIsPipe
CHECK_DEADLOCK FALSE
