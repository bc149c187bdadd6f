\* With a clock and every kind of frame and line; the FIFOs hold two entries
\* each.
SPECIFICATION WSpec
CONSTANTS
  FALLBACK_DECEL = 1
  SECOND = 1
  FaultCodes = {}
  BootAges = {1}
  Orders <- OneOrder
  DEPTH = 4
  CorruptReads = TRUE
  LIVENESS_TIMEOUT = 2
  MaxGap = 1
  Elapses = {1}
  Frames <- RadioFrames
  Lines <- ConsoleLines
  RX_DEPTH = 2
  TX_DEPTH = 2
  STAMPS = 1
INVARIANTS
  QueueEmptyBetweenFrames
  NextPollAnswered
  SilenceStopsDriving
