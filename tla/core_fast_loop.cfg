\* The code's constants in microseconds, with a main loop that takes 1 ms.
SPECIFICATION FairSpec
CONSTANTS
  LIVENESS_TIMEOUT = 750000
  FALLBACK_DECEL = 800
  SECOND = 1000000
  MaxGap = 1000
  Elapses = {1000}
  BootAges = {10000}
  FaultCodes = {7}
  Orders <- DriverOrders
PROPERTY FallbackReachesRest
