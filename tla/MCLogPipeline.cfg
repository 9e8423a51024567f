SPECIFICATION LiveSpec
CONSTANTS
  Sources <- MCSources
  Monitors = {"storage", "neuron", "runtime"}
  Contents <- MCContents
  BufferSize = 1
  MaxLines = 3
  MaxRotations = 2
  MaxRefreshes = 1
CHECK_DEADLOCK FALSE
INVARIANTS
  StreamsAreFaithful
  FollowedFileReadCompletely
PROPERTIES
  RotationFollowed
  LinesReachMonitors
