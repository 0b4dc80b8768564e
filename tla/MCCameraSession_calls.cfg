SPECIFICATION FairSpec
CONSTANTS
  QueueSize = 1
  ResultCapacity = 1
  TemporaryFailureLimit = 2
  Controls = {"none", "off"}
  MaxStarts = 2
  MaxOpens = 2
  MaxFrames = 1
INVARIANTS StoppedIsQuiet StateTruthful
PROPERTIES ApiReturns EndsStopped
