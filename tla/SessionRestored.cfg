CONSTANTS
  SessionKinds <- AllSessions
  MaxTick = 2
  MaxLap = 2
  MaxFlashbacks = 0
  MaxRestarts = 0
  MaxCrashes = 1
  Kinds <- Laps
  Lags <- NoLag
  Faults <- NoFaults
SPECIFICATION FairSpec
CHECK_DEADLOCK FALSE
PROPERTY SessionRowRestored
