\* Three connections and two messages: nested accepts, two writers, failing sends.
CONSTANTS
  c1 = c1
  Callers <- OneCaller
  Registrants <- Nobody
  MaxConn = 3
  MaxSend = 2
  MaxChunk = 0
  MaxStart = 1
  MaxStray = 1
  Leavers <- FirstConn
SPECIFICATION Spec
INVARIANTS TypeOK KeyNamesOneClient AllAcceptsCounted BroadcastComplete
PROPERTY OutboundIsBroadcast
CHECK_DEADLOCK FALSE
