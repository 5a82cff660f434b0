SPECIFICATION FairSpec
CONSTANTS
  MaxHeadSize = 1
  QueueSize = 7
  EntryOverhead = 1
  IdMod = 5
  UrgentMax = 1
  StartOffsets = {1}
  Daemons = {d1, d2}
  Publishers = {1}
  LargeEvents = {}
  DefaultReservation = 1
  SmallSize = 1
  LargeSize = 2
  MaxElements = 2
  Admins = {}
  MaxTopicOps = 0
  MaxLapses = 1
  MaxDisturbances = 1
  MaxCrashes = 1
PROPERTIES StaleReservationsExpire
