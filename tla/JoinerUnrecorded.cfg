CONSTANTS
  Cars <- TwoCars
  People <- Drivers
  Generic <- Unnamed
  Plate <- OwnPlates
  SeedTeams <- KnownTeams
  Grids <- Starts
  Codes <- AllCodes
  MaxSession = 1
  MaxMoves = 2
  MaxFaults = 0
  MaxRestarts = 0
SPECIFICATION FairSpec
PROPERTY JoinersCaptured
