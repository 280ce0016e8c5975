CONSTANTS
  MaxSessions = 3
  Weekends <- TwoWeekends
  Calendars <- OnwardAndBack
  MaxTicks = 2
  MaxTrouble = 1
SPECIFICATION FairSpec
INVARIANT TypeOK
INVARIANT OneOfEach
INVARIANT FinalCardShowsResults
PROPERTY EveryCardFinal
PROPERTY EverySessionCarded
