SPECIFICATION FairSpec
CONSTANTS
  a = a
  b = b
  Cameras <- MCTwo
  Weight <- MCWeightTwo
  MaxChanges = 3
  MaxStarts = 2
INVARIANTS NoFrameStranded BoundedBypass
PROPERTIES EveryFrameIsTaken ServiceReturns
