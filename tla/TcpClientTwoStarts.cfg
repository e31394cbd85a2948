\* Two start() calls: two generations of threads on one member.
CONSTANTS
  c1 = c1
  c2 = c2
  Callers <- OneCaller
  MaxStart = 2
  MaxTry = 2
  MaxSend = 0
  MaxChunk = 1
SPECIFICATION Spec
INVARIANTS NoSocketLeaks OneStartNeverUnderflows
PROPERTY InboundIsPipe
CHECK_DEADLOCK FALSE
