SPECIFICATION FairReaderSpec
CONSTANTS
  Checks <- MCChecks
  StallDuration = 2
  EscalationWindow = 2
  GracePeriod = 1
  Renotify = 1
INVARIANTS
  OneCallPerCheck
  StampIsTruthful
PROPERTIES
  UnresponsiveMeansSilent
  HungDriverIsReported
