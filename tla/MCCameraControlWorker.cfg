SPECIFICATION FairSpec
CONSTANTS
  c1 = c1
  c2 = c2
  Callers <- MCCallers
  QueueSize = 2
  MaxCommands = 3
  MaxStarts = 2
INVARIANTS StoppedLast ManualHolds SettlesOnNewest PaceFindsCommand
PROPERTIES NewestIsSent
