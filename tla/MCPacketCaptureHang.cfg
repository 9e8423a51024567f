SPECIFICATION FairCaptureSpec
CONSTANTS
  MaxFiles = 1
CHECK_DEADLOCK FALSE
PROPERTIES
  CaptureReturns
