\* Power comes and goes between any two SPI exchanges, in both roles.  The
\* counters wrap at 2; a rate of 2 in a second of 5 gives an interval of 2.
SPECIFICATION BoardSpec
CONSTANTS
  COUNT_MOD = 2
  PER_SECOND = 5
  Rates = {2}
INVARIANTS
  ReportTellsWindow
  RateKept
  DeadRadioDark
PROPERTIES
  NeverLouder
  UnreadyIsSilent
  DeadRadioNoticed
  LinkResumes
  LinkTold
