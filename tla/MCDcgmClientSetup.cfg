SPECIFICATION FairDcgmSpec
CONSTANTS
    Features <- MCFeatures
    GracePeriod = 2
    Findings <- MCFindings
    MaxEngines = 2
    MaxFaults = 1
    MaxConns = 5
    MaxViolations = 2
PROPERTIES
    SetupCompletes
