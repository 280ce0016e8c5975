CONSTANTS
  SessionKinds <- AllSessions
  MaxTick = 3
  MaxLap = 2
  MaxFlashbacks = 0
  MaxRestarts = 1
  MaxCrashes = 0
  Kinds <- Laps
  Lags <- AnyLag
  Faults <- AnchorFault
SPECIFICATION Spec
INVARIANT OneRowPerFrame
CHECK_DEADLOCK FALSE
