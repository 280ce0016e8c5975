CONSTANTS
  s1 = s1
  s2 = s2
  s3 = s3
  lapData = lapData
  carDamage = carDamage
  Sessions <- OneSession
  Frames <- ThreeFrames
  PacketIds <- TwoPackets
  TriggerIds <- LapTriggers
  DamageIds <- Damage
  MaxSessions = 1
  Outcomes <- AllOutcomes
SPECIFICATION FairSpec
INVARIANT TypeOK
INVARIANT RowsAreWhole
INVARIANT OnlyNewestPending
PROPERTY ImplementsFrameLog
PROPERTY LeftBehindIsFlushed
