\* Coarse clock of half seconds: one unit sheds 20000 of the 20000.5 it may,
\* two units 40001, so the ramp's truncation depends on how time is cut into
\* ticks, an extreme order takes one tick or two to decay, and a step may exceed
\* int16_t; the timeout is three units, a pass at most two.  The ramp is over
\* after three units, before MaxCoast stops the clock.
SPECIFICATION FairHSpec
CONSTANTS
  LIVENESS_TIMEOUT = 3
  FALLBACK_DECEL = 40001
  SECOND = 2
  MaxGap = 2
  Elapses = {1, 2}
  BootAges = {0, 2}
  FaultCodes = {0, 7}
  MaxCoast = 4
  Orders <- EdgeOrders
INVARIANTS
  TypeOK
  DisarmedAtRest
  RampWithinOrder
  ActiveMeansHeard
  RampNeverTooSteep
PROPERTIES
  ImplementsContract
  FallbackReachesRest
