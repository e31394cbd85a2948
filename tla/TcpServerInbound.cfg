\* Two clients with two chunks, a message that may fail, a second start() while the
\* stop() of the callback waits.
CONSTANTS
  c1 = c1
  Callers <- OneCaller
  Registrants <- OneCaller
  MaxConn = 2
  MaxSend = 1
  MaxChunk = 2
  MaxStart = 2
  MaxStray = 1
  Leavers = {}
SPECIFICATION Spec
INVARIANT ClientOrder
PROPERTY InboundIsPipe
CHECK_DEADLOCK FALSE
