SPECIFICATION Spec
CONSTANTS
  MaxHeadSize = 3
  QueueSize = 10
  EntryOverhead = 1
  Clients = {c1, c2}
  Sizes = {1, 2}
  VectorLengths = {1}
  MaxIssued = 6
  MaxList = 2
INVARIANTS TypeOK PagedListing
PROPERTIES ImplementsFifo RemovesOnlyListed EnqueueInFreeSpace
