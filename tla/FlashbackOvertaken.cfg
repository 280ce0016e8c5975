CONSTANTS
  SessionKinds <- AllSessions
  MaxTick = 3
  MaxLap = 2
  MaxFlashbacks = 1
  MaxRestarts = 0
  MaxCrashes = 0
  Kinds <- Laps
  Lags <- NoLag
  Faults <- NoFaults
SPECIFICATION Spec
INVARIANT NoUndoneFrameSurvives
CHECK_DEADLOCK FALSE
