\* Two remotes under fairness, with the statistics, which wrap at 2; without
\* pings.
SPECIFICATION FairSpec
CONSTANTS
  Remotes = {1, 2}
  Lines = {"getver", "stats reset"}
  MoveValues = {}
  SEQ_MOD = 1
  COUNT_MOD = 2
  RX_DEPTH = 1
  Restarts = {}
INVARIANTS
  CountersBalance
PROPERTY PendingResolves
