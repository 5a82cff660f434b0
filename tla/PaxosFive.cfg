SPECIFICATION Scheduled
CONSTANTS
  Mons <- FiveMons
  Epochs <- FiveElections
  Stride = 5
  MaxVersion = 1
  MaxProposals = 2
  MaxRenewals = 0
  MaxCrashes = 2
INVARIANT Agreement
