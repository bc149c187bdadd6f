\* With a clock: an armed vehicle whose link fails falls back or is stopped on
\* its console, and the base learns of it once the link is back.  The FIFOs
\* hold two entries each.
SPECIFICATION FairLSpec
CONSTANTS
  FALLBACK_DECEL = 1
  SECOND = 1
  FaultCodes = {}
  BootAges = {5}
  Orders <- OneOrder
  DEPTH = 4
  LIVENESS_TIMEOUT = 1
  MaxGap = 1
  Frames = {}
  RX_DEPTH = 2
  TX_DEPTH = 2
  Elapses = {1}
  Lines <- StopLine
  CorruptReads = FALSE
  STAMPS = 1
  Commands <- ArmOnly
  MaxCommands = 1
PROPERTY BaseEventuallyLearns
