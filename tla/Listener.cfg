CONSTANTS
  SessionKinds <- AllSessions
  MaxTick = 4
  MaxLap = 2
  MaxFlashbacks = 2
  MaxRestarts = 1
  MaxCrashes = 0
  Kinds <- Laps
  Lags <- NoLag
  Faults <- NoFaults
SPECIFICATION Spec
INVARIANT TypeOK
INVARIANT RowsAnchored
INVARIANT ErasedStaysErased
INVARIANT FormationNotRecorded
INVARIANT SnapshotsOfDrivenLaps
PROPERTY RacingLapsRecorded
PROPERTY StandingRowsStay
CHECK_DEADLOCK FALSE
