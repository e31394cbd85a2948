\* The unlocked insert of accept_connection().
CONSTANTS
  c1 = c1
  Callers <- OneCaller
  Registrants <- Nobody
  MaxConn = 2
  MaxSend = 0
  MaxChunk = 0
  MaxStart = 1
  MaxStray = 1
  Leavers <- Conns
SPECIFICATION Spec
INVARIANT NoneForgotten
CHECK_DEADLOCK FALSE
