SPECIFICATION FairSpec
CONSTANTS
  c1 = c1
  c2 = c2
  Callers <- MCCallers
  QueueSize = 1
  MaxCommands = 1
  MaxStarts = 1
PROPERTIES ApiReturns
