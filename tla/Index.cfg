SPECIFICATION FairSpec
CONSTANTS
  Requests = {2, 3, 4}
  Listers = {l1}
  MaxFailures = 1
  MaxSlow = 1
INVARIANTS IndexAgrees StatsAgree
PROPERTIES EventuallyRepaired
