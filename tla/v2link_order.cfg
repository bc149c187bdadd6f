\* Without a clock; any number of polls, one query.
SPECIFICATION LSpec
CONSTANTS
  FALLBACK_DECEL = 1
  SECOND = 1
  FaultCodes = {}
  BootAges = {5}
  Orders <- OneOrder
  DEPTH = 4
  LIVENESS_TIMEOUT = 2
  MaxGap = 1
  Frames = {}
  RX_DEPTH = 3
  TX_DEPTH = 3
  Elapses = {}
  Lines = {}
  CorruptReads = TRUE
  STAMPS = 6
  Commands <- VersionQuery
  MaxCommands = 1
INVARIANTS
  DrainedBeforeNextFrame
PROPERTY StreamInOrder
