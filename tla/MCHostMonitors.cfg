SPECIFICATION Spec
CONSTANTS
    Users = {"root", "ec2"}
    Commands = {"c1", "c2"}
    MinNumMinutes = 2
    YearLength = 6
    MaxTime = 9
    Pids = {"p1", "p2"}
    TTL = 1
    DelayThreshold = 2
    MaxDelay = 4
    MaxProcesses = 2
    Volumes = {"v1", "v2"}
    Wrap = 8
    Throttled = 1
    Units = {"u1", "u2"}
    MaxRestarts = 5
    DeprecationInterval = 2
    ProbeBurst = 5
    Pods = {"pod1", "pod2"}
    Consistency = 3
    Containers = {"c1", "c2"}
    Interfaces <- MCInterfaces
    Skipped = {"docker0"}
    CacheTTL = 1
    IPs = {"ip1", "ip2"}
    Secondary = {"ip2"}
    Stats = {"s1", "s2"}
    MaxCount = 4
    EthtoolBurst = 2
    ReNotify = 2
    ConsistencyWindow = 3
    RestartWrap = 8
    RestartThreshold = 3
    Failures = {"f1", "f2"}
    EfaBurst = 2
    Options <- MCOptions
    MaxOptions = 3
    AllowedChains <- MCAllowed
    FailureThreshold = 3
    RecoveryThreshold = 2
    SeverityOf <- MCSeverityOf
    HasReadiness = TRUE
    MaxCycles = 7
CHECK_DEADLOCK FALSE
INVARIANTS
    CronExact
    StorageDeltasExact
    RestartsNotForgotten
    FatalFaultsConfirmed
    RoutesJudgedByState
    WarningsPaced
    RulesParsed
    ReportsAreEdges
    SummariesEndShortStreaks
