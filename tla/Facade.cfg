\* Four calls of the API from two threads, three when two of them overlap.
CONSTANTS
  c1 = c1
  c2 = c2
  Refused = Refused
  IntMax = 131071
  UIntSize = 262144
  ULongMax = 1048575
  Callers <- TwoCallers
  Ids <- TwoIds
  Configs <- SomeConfigs
  Leftovers <- FirstGivenOut
  MaxFd = 2
  MaxCalls = 4
  MaxMixed = 3
SPECIFICATION FairSpec
INVARIANTS TypeOK NothingOutlivesItsHandler SocketsAreOwn ConfiguredUnlessOverlapped
 
CHECK_DEADLOCK FALSE
