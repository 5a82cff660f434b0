SPECIFICATION Spec
CONSTANTS
  MaxHeadSize = 1
  QueueSize = 7
  EntryOverhead = 1
  IdMod = 5
  UrgentMax = 1
  StartOffsets = {1, 5}
  Daemons = {d1, d2}
  Publishers = {1, 2}
  LargeEvents = {2}
  DefaultReservation = 1
  SmallSize = 1
  LargeSize = 2
  MaxElements = 2
  Admins = {a1}
  MaxTopicOps = 2
  MaxLapses = 1
  MaxDisturbances = 2
  MaxCrashes = 1
SYMMETRY Symmetry
INVARIANTS NoLoss OnlyCommittedDelivered OneProcessor NoSharedReservation
