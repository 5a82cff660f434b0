SPECIFICATION Spec
CONSTANTS
  Mons <- ThreeMons
  DisallowSets <- NoneOrSome
  MaxEpoch = 4
  MaxBootstraps = 1
  MaxCrashes = 1
INVARIANTS AssertsHold ElectingHasTimer OneEffectiveLeader
PROPERTIES ImplementsElection
CHECK_DEADLOCK FALSE
