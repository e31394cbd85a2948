\* One start(): both directions and their failures.
CONSTANTS
  c1 = c1
  c2 = c2
  Callers <- OneCaller
  MaxStart = 1
  MaxTry = 1
  MaxSend = 2
  MaxChunk = 2
SPECIFICATION FairSpec
INVARIANTS TypeOK SentIsPrefix InOrderButFirst
PROPERTIES MessagesServed ChunksServed
CHECK_DEADLOCK FALSE
