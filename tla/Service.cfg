CONSTANTS
  QueueSize = 2
  MaxSent = 3
  MaxStarts = 2
  Drivers <- TwoDrivers
  MaxClock = 3
  MaxFaults = 2
  MaxCrashes = 1
SPECIFICATION FairSpec
INVARIANT TypeOK
INVARIANT ResultKept
INVARIANT ReplayComplete
PROPERTY LettersLeaveStored
PROPERTY ImplementsInbox
PROPERTY HandledInTheEnd
CHECK_DEADLOCK FALSE
