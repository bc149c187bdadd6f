\* Three frames arrive before the first is read; then a fourth.
SPECIFICATION WSpec
CONSTANTS
  FALLBACK_DECEL = 1
  SECOND = 1
  FaultCodes = {}
  BootAges = {5}
  Orders <- OneOrder
  DEPTH = 4
  CorruptReads = FALSE
  LIVENESS_TIMEOUT = 2
  MaxGap = 1
  Elapses = {}
  Frames <- QueryFrames
  Lines <- NoLines
  RX_DEPTH = 3
  TX_DEPTH = 3
  STAMPS = 6
PROPERTY RepliesNotDiscarded
