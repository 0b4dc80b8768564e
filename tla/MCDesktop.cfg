SPECIFICATION DesktopSpec
CONSTANTS
  FailureLimit <- MCFailureLimit
  MaxNumber = 4
  SourceKinds = {"image", "video", "webcam"}
  MaxClicks = 6
INVARIANT ButtonsTellPipeline
PROPERTY DeadSourceIsGivenUp
CHECK_DEADLOCK FALSE
