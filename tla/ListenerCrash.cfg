CONSTANTS
  SessionKinds <- JustPractice
  MaxTick = 3
  MaxLap = 2
  MaxFlashbacks = 1
  MaxRestarts = 1
  MaxCrashes = 1
  Kinds <- LapsAndMotionEx
  Lags <- AnyLag
  Faults <- InsertFault
SPECIFICATION Spec
INVARIANT RowsAnchored
INVARIANT ErasedStaysErased
CHECK_DEADLOCK FALSE
