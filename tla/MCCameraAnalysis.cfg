SPECIFICATION FairSpec
CONSTANTS
  Objects = {1, 2}
  ConfirmationFrames = 2
  LostFrames = 2
  MinimumIou = 30
  MaxLostFrames = 1
  MinimumHits = 2
  TargetClasses = {1}
  MinimumConfidence = 5
  PriorityClasses <- MCPriorityClasses
  SwitchMargin = 20
  TargetHold = 1
  LostTimeout = 2
  CommandInterval = 1
  DeadZone = 2
  Hysteresis = 1
  TargetSize = 2
  ZoomDeadBand = 1
  FrameSize = 8
  Scenes <- MCScenes
INVARIANTS EventsTellPresence MonitorFollowsTracker LabelsAreUnique
PROPERTIES ImplementsObjectLife LossIsReported TurningIsReleased
