SPECIFICATION FairSpec
CONSTANTS
  Names = {a, b}
  Requests = {3, 4}
  Gateways = {g1, g2}
  FirstTails = 1
  QueueMax = 3
  ListMax = 2
  MaxFaults = 1
INVARIANTS NoDataLoss OrphansExplained
PROPERTIES EventuallyPurged
