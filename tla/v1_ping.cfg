\* One remote: pings, typed and periodic, and commands about the movement, with
\* late answers and both restarts; the sequence wraps at 3, the statistics,
\* which v1_ends is about, at 1.
SPECIFICATION Spec
CONSTANTS
  Remotes = {1}
  Lines = {"ping", "poll", "period", "stop", "getstat", "scan"}
  MoveValues = {5}
  SEQ_MOD = 3
  COUNT_MOD = 1
  RX_DEPTH = 1
  Restarts = {"base", "remote"}
INVARIANTS
  TypeOK
  SequenceLockstep
PROPERTIES
  LockstepRegained
  AnswerIsCurrent
  ImplementsExchange
