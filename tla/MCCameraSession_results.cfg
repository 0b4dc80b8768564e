SPECIFICATION Spec
CONSTANTS
  QueueSize = 2
  ResultCapacity = 1
  TemporaryFailureLimit = 2
  Controls = {"none"}
  MaxStarts = 2
  MaxOpens = 3
  MaxFrames = 2
INVARIANTS TrackerIsolation CountersConsistent
PROPERTIES ResultsInOrder
