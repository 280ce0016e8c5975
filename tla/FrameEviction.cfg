CONSTANTS
  s1 = s1
  s2 = s2
  s3 = s3
  lapData = lapData
  carDamage = carDamage
  Sessions <- ThreeSessions
  Frames <- TwoFrames
  PacketIds <- OnePacket
  TriggerIds <- LapTriggers
  DamageIds <- NoDamage
  MaxSessions = 2
  Outcomes <- NoFailure
SPECIFICATION Spec
INVARIANT DictOK
INVARIANT RowsAreWhole
INVARIANT OnlyNewestPending
INVARIANT ClosedIsPast
SYMMETRY SessionSymmetry
