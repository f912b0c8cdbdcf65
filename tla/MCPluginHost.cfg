SPECIFICATION Spec
CONSTANTS
  None = None
  MaxRestarts = 2
  MaxForgotten = 1
  Escapes = FALSE
  Stalls = TRUE
CHECK_DEADLOCK FALSE
INVARIANT PidIsOurs
INVARIANT WatchdogKillsItsRun
INVARIANT NothingLivesAfterStop
PROPERTY StopEnds
