SPECIFICATION Spec
CONSTANTS
  Mons <- ThreeMons
  Epochs <- ThreeElections
  Stride = 4
  MaxVersion = 2
  MaxProposals = 2
  MaxRenewals = 1
  MaxCrashes = 1
CONSTRAINT OneDisturbance
INVARIANTS TypeOK Agreement SameReads AssertsHold CommittedOnMajority
VIEW WithoutHistory
CHECK_DEADLOCK FALSE
