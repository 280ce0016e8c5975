CONSTANTS
  MaxLap = 3
  Times <- FastAndSlow
  MaxFlashbacks = 1
  MaxFaults = 1
  MaxRestarts = 1
SPECIFICATION FairSpec
INVARIANT TypeOK
INVARIANT LapsAsDriven
INVARIANT BestNamesLap
INVARIANT BestsAsShown
INVARIANT StintsFinal
PROPERTY LapStored
CHECK_DEADLOCK FALSE
