SPECIFICATION PromptSpec
CONSTANTS
  Nothing = Nothing
  Destinations = {"node", "s3"}
  Durations = {"1m", "2h"}
  Excessive = {"2h"}
  MaxEdits = 2
  MaxFailures = 1
  MaxRestarts = 1
CHECK_DEADLOCK FALSE
INVARIANTS
  RequestsAnswered
  OneCollection
  SuccessIsForItsSpec
