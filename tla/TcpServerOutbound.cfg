\* Two connections and two messages: what happens in the end.
CONSTANTS
  c1 = c1
  Callers <- OneCaller
  Registrants <- Nobody
  MaxConn = 2
  MaxSend = 2
  MaxChunk = 0
  MaxStart = 1
  MaxStray = 1
  Leavers <- Conns
SPECIFICATION FairSpec
PROPERTIES ForgottenOnlyByClear MessagesServed EventsGoOn
CHECK_DEADLOCK FALSE
