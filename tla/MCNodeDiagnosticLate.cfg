SPECIFICATION DiagSpec
CONSTANTS
  Nothing = Nothing
  Destinations = {}
  Durations = {"1m", "5m"}
  Excessive = {}
  MaxEdits = 2
  MaxFailures = 0
  MaxRestarts = 0
CHECK_DEADLOCK FALSE
INVARIANTS
  RequestsAnswered
