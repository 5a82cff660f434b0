SPECIFICATION Spec
CONSTANTS
  MaxHeadSize = 3
  QueueSize = 10
  EntryOverhead = 1
  IdMod = 4
  UrgentMax = 1
  ReserveSizes = {1, 2, 6}
  EntrySizes = {1, 6}
  VectorLengths = {1}
  StalePeriod = 1
  MaxTime = 3
  MaxReserved = 5
  MaxIssued = 4
INVARIANTS TypeOK RingInOneLap ReservationsAreGrants ReservedCoversPromises GrantsAreHonoured
PROPERTIES EntriesStay FreshReservationStays
