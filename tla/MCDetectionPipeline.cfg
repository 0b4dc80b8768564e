SPECIFICATION FairSpec
CONSTANTS
  s1 = s1
  s2 = s2
  Sinks <- MCSinks
  FrameQueueSize = 2
  ResultQueueSize = 1
  MaxStarts = 2
  MaxFrames = 3
INVARIANTS DrainsAtEnd ResourcesBracketed
PROPERTIES ImplementsChannel CallsReturn StreamEnds
