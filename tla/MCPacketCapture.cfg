SPECIFICATION FairCaptureSpec
CONSTANTS
  MaxFiles = 3
CHECK_DEADLOCK FALSE
INVARIANTS
  NothingLost
  SuccessMeansUploaded
PROPERTIES
  CaptureReturnsWhenAsked
