CONSTANTS
  Cars <- TwoCars
  People <- Drivers
  Generic <- Unnamed
  Plate <- OwnPlates
  SeedTeams <- KnownTeams
  Grids <- Starts
  Codes <- AllCodes
  MaxSession = 2
  MaxMoves = 2
  MaxFaults = 1
  MaxRestarts = 1
SPECIFICATION FairSpec
INVARIANT TypeOK
INVARIANT MapIsRecorded
INVARIANT RowsOfTheirDriver
INVARIANT RowsHaveEntries
PROPERTY HumansRecorded
