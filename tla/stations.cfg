\* A station without a radio stops, and so does a base that has sent all its
\* pings.
SPECIFICATION FairSpec
CONSTANTS
  Level = {3}
  Scanned <- TwoChannels
  FIFO_DEPTH = 2
  MaxSequence = 2
  MaxStray = 1
CHECK_DEADLOCK FALSE
INVARIANTS
  OkMeansReceived
  OwnPacketsOnly
  NothingDropped
  RestsListening
  FoundIsConfigured
  CompletedWasAnswered
PROPERTIES
  AcknowledgedBeforeAnswer
  PingEnds
  RemoteEmptied
